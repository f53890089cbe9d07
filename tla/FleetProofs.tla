------------------------------ MODULE FleetProofs ------------------------------
(***************************************************************************)
(* Proofs about Fleet, for any nodes, links, commands and bounds.  The     *)
(* first half keeps what is in the tables, in the queues and under way     *)
(* sound (FleetInv); the second half follows the news of a service through *)
(* a fleet whose peers are fixed, up to what a settled fleet knows.        *)
(***************************************************************************)
EXTENDS Fleet, PlanProofs, FiniteSetTheorems

-----------------------------------------------------------------------------
(* What travels between nodes. *)

\* The path of a route or an item leads from p to its origin, no node twice.
Walk(p, w) ==
  /\ Len(w.path) > 0 /\ w.path[1] = p /\ w.path[Len(w.path)] = w.origin
  /\ \A i, j \in 1..Len(w.path) : w.path[i] = w.path[j] => i = j

WalksIn(routes) == \A r \in routes : Walk(r.peer, r)

\* The items of the updates p sends: the receiver's planner may count on this.
Sendable(p) ==
  {items \in SUBSET UpdateItem : DistinctKeys(items) /\ \A i \in items : Walk(p, i)}

CallTask(p) ==
  {Keepalive(p), Close(p, "NORMAL")} \cup {Update(p, items) : items \in Sendable(p)}

Task ==
  Dispatchable \cup (UNION {CallTask(p) : p \in Node})
    \cup {Connected(p) : p \in Node} \cup {Open(p, DefaultHold) : p \in Node}

-----------------------------------------------------------------------------
(* What a task does to the table of the node that runs it. *)

\* A sound table whose routes are walks, the changes announced are those made,
\* and an update carries no key twice.
GoodTable(n, t) == SoundTable(n, t) /\ WalksIn(t.routes)

LEMMA SameWalks ==
  ASSUME NEW old, WalksIn(old), NEW new, new \subseteq old
  PROVE  WalksIn(new)
BY DEF WalksIn

LEMMA CalmWalks ==
  ASSUME NEW t, WalksIn(t.routes), NEW plan, Calm(t, plan)
  PROVE  WalksIn(plan.table.routes)
BY DEF Calm

LEMMA CloseWalks ==
  ASSUME NEW t \in Table, WalksIn(t.routes), NEW p \in Node, NEW code
  PROVE  WalksIn(PlanInternalProtocolClose(t, p, code).table.routes)
<1> DEFINE lost == RoutesVia(t, p)
           kept == {MarkStale(r) : r \in lost}
           u == PlanInternalProtocolClose(t, p, code).table
<1>1. \A r \in InternalRoute : Walk(r.peer, r) => Walk(MarkStale(r).peer, MarkStale(r))
  BY DEF MarkStale, InternalRoute, Walk
<1>2. t.routes \subseteq InternalRoute /\ lost \subseteq t.routes
  BY DEF Table, RoutesVia
<1>3. WalksIn(kept)
  BY <1>1, <1>2 DEF WalksIn
<1>4. u.routes \subseteq t.routes \cup kept
  BY DEF PlanInternalProtocolClose, NoChange, Changed, Table
<1> QED
  BY <1>3, <1>4 DEF WalksIn

LEMMA UpdateWalks ==
  ASSUME NEW n, NEW t \in Table, WalksIn(t.routes), NEW p \in Node,
         NEW items \in Sendable(p), NEW at
  PROVE  WalksIn(PlanInternalProtocolUpdate(n, t, p, items, at).table.routes)
<1> DEFINE u == PlanInternalProtocolUpdate(n, t, p, items, at).table
           new == {Learned(p, i) : i \in Accepted(n, t.routes, items)}
<1>1. \A i \in items : Walk(Learned(p, i).peer, Learned(p, i))
  BY DEF Sendable, Learned, Walk
<1>2. WalksIn(new)
  BY <1>1 DEF WalksIn, Accepted
<1>3. u.routes = (t.routes \ Replaced(n, t.routes, items)) \cup new
  BY UpdateRoutes
<1> QED
  BY <1>2, <1>3 DEF WalksIn

\* The key under which n tells of a route.
KeyOf(n, r) == <<r.name, IF isInternalRoute(r) THEN r.origin ELSE n>>
OneChangePerKey(n, chs) ==
  \A c, d \in chs : KeyOf(n, c.route) = KeyOf(n, d.route) => c = d

LEMMA InternalIsInternal ==
  /\ \A r \in InternalRoute : isInternalRoute(r)
  /\ \A r \in LocalRoute : ~isInternalRoute(r)
BY DEF InternalRoute, LocalRoute, isInternalRoute

LEMMA AnnounceKeyed ==
  ASSUME NEW n, NEW type, NEW routes, routes \subseteq InternalRoute, UniqueIn(routes)
  PROVE  OneChangePerKey(n, Announce(type, routes))
<1> DEFINE chs == Announce(type, routes)
<1>1. \A c \in chs : c = [type |-> type, route |-> c.route] /\ c.route \in routes
  BY DEF Announce
<1>2. ASSUME NEW c \in chs, NEW d \in chs, KeyOf(n, c.route) = KeyOf(n, d.route)
      PROVE  c.route = d.route
  <2>1. /\ c.route \in routes /\ d.route \in routes
        /\ isInternalRoute(c.route) /\ isInternalRoute(d.route)
    BY <1>1, InternalIsInternal
  <2>2. c.route.name = d.route.name /\ c.route.origin = d.route.origin
    BY <1>2, <2>1 DEF KeyOf
  <2> QED
    BY <2>1, <2>2 DEF UniqueIn, SameKey
<1> HIDE DEF chs
<1>3. OneChangePerKey(n, chs)
  BY <1>1, <1>2 DEF OneChangePerKey
<1> QED
  BY <1>3 DEF chs

LEMMA AtMostOneKeyed ==
  ASSUME NEW n
  PROVE  /\ OneChangePerKey(n, {})
         /\ \A type, r : OneChangePerKey(n, Announce(type, {r}))
BY DEF OneChangePerKey, Announce

LEMMA SubsetUnique ==
  ASSUME NEW routes, UniqueIn(routes), NEW some, some \subseteq routes
  PROVE  UniqueIn(some)
BY DEF UniqueIn

LEMMA CloseKeyed ==
  ASSUME NEW n, NEW t, SoundTable(n, t), NEW p \in Node, NEW code \in CloseCodes
  PROVE  OneChangePerKey(n, PlanInternalProtocolClose(t, p, code).changes)
<1> DEFINE lost == RoutesVia(t, p)
           kept == {MarkStale(r) : r \in lost}
           plan == PlanInternalProtocolClose(t, p, code)
<1>1. t \in Table /\ UniqueIn(t.routes) /\ t.routes \subseteq InternalRoute
  BY DEF SoundTable, Table
<1>2. lost \subseteq t.routes /\ lost \subseteq InternalRoute /\ UniqueIn(lost)
  BY <1>1 DEF RoutesVia, UniqueIn
<1>3. \A r \in InternalRoute : MarkStale(r) \in InternalRoute /\ SameKey(r, MarkStale(r))
  BY DEF MarkStale, InternalRoute, SameKey
<1>4. kept \subseteq InternalRoute
  BY <1>2, <1>3
<1>5. ASSUME NEW r \in kept, NEW s \in kept, SameKey(r, s)
      PROVE  r = s
  <2>1. PICK q \in lost, x \in lost : r = MarkStale(q) /\ s = MarkStale(x)
    OBVIOUS
  <2>2. SameKey(q, x)
    BY <1>2, <1>3, <1>5, <2>1 DEF SameKey
  <2> QED
    BY <1>2, <2>1, <2>2 DEF UniqueIn
<1> HIDE DEF kept, lost
<1>6. \/ plan.changes = {}
      \/ plan.changes = Announce("updated", kept)
      \/ plan.changes = Announce("removed", lost)
  BY DEF PlanInternalProtocolClose, NoChange, Changed, kept, lost
<1>7. /\ OneChangePerKey(n, Announce("updated", kept))
      /\ OneChangePerKey(n, Announce("removed", lost))
  BY <1>2, <1>4, <1>5, AnnounceKeyed DEF UniqueIn
<1> QED
  BY <1>6, <1>7, AtMostOneKeyed

LEMMA DropKeyed ==
  ASSUME NEW n, NEW t, SoundTable(n, t)
  PROVE  /\ \A p : OneChangePerKey(n, PlanLocalPeerDelete(t, p).changes)
         /\ \A at : OneChangePerKey(n, PlanTick(t, at).changes)
<1>1. t.routes \subseteq InternalRoute /\ UniqueIn(t.routes)
  BY DEF SoundTable, Table
<1>2. ASSUME NEW gone, gone \subseteq t.routes
      PROVE  OneChangePerKey(n, Announce("removed", gone))
  BY <1>1, <1>2, SubsetUnique, AnnounceKeyed
<1>3. ASSUME NEW p
      PROVE  OneChangePerKey(n, PlanLocalPeerDelete(t, p).changes)
  <2>1. RoutesVia(t, p) \subseteq t.routes
    BY DEF RoutesVia
  <2>2. OneChangePerKey(n, Announce("removed", RoutesVia(t, p)))
    BY <1>2, <2>1
  <2> QED
    BY <2>2, AtMostOneKeyed DEF PlanLocalPeerDelete, NoChange, Changed
<1>4. ASSUME NEW at
      PROVE  OneChangePerKey(n, PlanTick(t, at).changes)
  <2> DEFINE gone == {r \in t.routes : r.peer \in Expired(t, at) \cup GraceOver(t, at)}
  <2>1. OneChangePerKey(n, Announce("removed", gone))
    <3>1. gone \subseteq t.routes
      OBVIOUS
    <3> HIDE DEF gone
    <3> QED
      BY <1>2, <3>1
  <2>2. PlanTick(t, at).changes \in {{}, Announce("removed", gone)}
    BY DEF PlanTick, NoChange, Changed
  <2> QED
    BY <2>1, <2>2, AtMostOneKeyed
<1> QED
  BY <1>3, <1>4

\* Of two changes of an update with the same key, the items behind them are the
\* same item, which either adds or removes.
LEMMA UpdateKeyed ==
  ASSUME NEW n, NEW t, SoundTable(n, t), NEW p \in Node, NEW at,
         NEW items, items \subseteq UpdateItem, DistinctKeys(items)
  PROVE  OneChangePerKey(n, PlanInternalProtocolUpdate(n, t, p, items, at).changes)
<1> DEFINE acc == Accepted(n, t.routes, items)
           first == {i \in acc : ~\E r \in t.routes : SameKey(r, i)}
           removed == Withdrawn(t.routes, items)
           chs == Announce("added", {Learned(p, i) : i \in first})
                    \cup Announce("updated", {Learned(p, i) : i \in acc \ first})
                    \cup Announce("removed", removed)
<1>1. t.routes \subseteq InternalRoute /\ UniqueIn(t.routes)
  BY DEF SoundTable, Table
<1>2. ASSUME NEW i \in acc
      PROVE  /\ i \in items /\ i.action = "add" /\ Learned(p, i) \in InternalRoute
             /\ SameKey(Learned(p, i), i)
  BY DEF Accepted, Accepts, Learned, UpdateItem, InternalRoute, SameKey
<1>3. ASSUME NEW r \in removed
      PROVE  /\ r \in InternalRoute /\ r \in t.routes
             /\ \E i \in items : SameKey(r, i) /\ i.action = "remove"
  BY <1>1 DEF Withdrawn
<1>4. ASSUME NEW c \in chs
      PROVE  \/ \E i \in first : c = [type |-> "added", route |-> Learned(p, i)]
             \/ \E i \in acc \ first : c = [type |-> "updated", route |-> Learned(p, i)]
             \/ \E r \in removed : c = [type |-> "removed", route |-> r]
  BY DEF Announce
<1> DEFINE Behind(c, i) ==
             /\ i \in items /\ SameKey(c.route, i) /\ c.route \in InternalRoute
             /\ \/ /\ i.action = "add" /\ i \in first
                   /\ c = [type |-> "added", route |-> Learned(p, i)]
                \/ /\ i.action = "add" /\ i \notin first
                   /\ c = [type |-> "updated", route |-> Learned(p, i)]
                \/ /\ i.action = "remove" /\ c.route \in t.routes
                   /\ c = [type |-> "removed", route |-> c.route]
<1>5. ASSUME NEW c \in chs
      PROVE  \E i : Behind(c, i)
  <2>1. CASE \E i \in first : c = [type |-> "added", route |-> Learned(p, i)]
    BY <1>2, <2>1
  <2>2. CASE \E i \in acc \ first : c = [type |-> "updated", route |-> Learned(p, i)]
    <3>1. PICK i \in acc \ first : c = [type |-> "updated", route |-> Learned(p, i)]
      BY <2>2
    <3> HIDE DEF acc, first
    <3>2. i \in acc /\ i \notin first /\ c.route = Learned(p, i)
      BY <3>1
    <3>3. Behind(c, i)
      BY <1>2, <3>1, <3>2
    <3> QED
      BY <3>3
  <2>3. CASE \E r \in removed : c = [type |-> "removed", route |-> r]
    BY <1>3, <2>3
  <2> QED
    BY <1>4, <2>1, <2>2, <2>3
<1> HIDE DEF first, chs
<1>6. ASSUME NEW c \in chs, NEW d \in chs, KeyOf(n, c.route) = KeyOf(n, d.route)
      PROVE  c = d
  <2>1. PICK i : Behind(c, i)
    BY <1>5
  <2>2. PICK j : Behind(d, j)
    BY <1>5
  <2>3. c.route.name = d.route.name /\ c.route.origin = d.route.origin
    BY <1>6, <2>1, <2>2, InternalIsInternal DEF KeyOf
  <2>4. i = j
    BY <2>1, <2>2, <2>3 DEF SameKey, DistinctKeys
  <2>5. CASE i.action = "add"
    BY <2>1, <2>2, <2>4, <2>5
  <2>6. CASE i.action = "remove"
    <3>1. c.route = d.route
      BY <1>1, <2>1, <2>2, <2>3, <2>4, <2>6 DEF UniqueIn, SameKey
    <3> QED
      BY <2>1, <2>2, <2>4, <2>6, <3>1
  <2> QED
    BY <2>1, <2>5, <2>6
<1>7. OneChangePerKey(n, chs)
  BY <1>6 DEF OneChangePerKey
<1>8. PlanInternalProtocolUpdate(n, t, p, items, at).changes \in {{}, chs}
  BY DEF PlanInternalProtocolUpdate, UpdateChanges, NoChange, Changed, chs, first
<1> QED
  BY <1>7, <1>8, AtMostOneKeyed

\* What one planner is to return: a good table, and changes that describe the
\* difference, one per key.
GoodPlan(n, t, plan) ==
  /\ SoundPlan(n, plan) /\ WalksIn(plan.table.routes)
  /\ Follows(t.routes, plan.changes, plan.table.routes)
  /\ OneChangePerKey(n, plan.changes)

LEMMA CalmGood ==
  ASSUME NEW n, NEW t, GoodTable(n, t), NEW plan, SoundPlan(n, plan), Calm(t, plan),
         OneChangePerKey(n, plan.changes)
  PROVE  GoodPlan(n, t, plan)
BY CalmWalks, CalmFollows DEF GoodTable, GoodPlan

LEMMA DispatchableCases ==
  ASSUME NEW task \in Dispatchable
  PROVE  \/ \E p \in Node, i \in Info : task = PeerCreate(p, i) \/ task = PeerUpdate(p, i)
         \/ \E p \in Node : task = PeerDelete(p)
         \/ \E s \in Name, d \in Data : task = RouteCreate(s, d) \/ task = RouteHealth(s, d)
         \/ \E s \in Name : task = RouteDelete(s)
         \/ \E due \in SUBSET Node : task = KeepaliveTick(due)
BY DEF Dispatchable

\* The planners of commands.
LEMMA CommandGood ==
  ASSUME NEW n \in Node, NEW t, GoodTable(n, t), NEW task \in Dispatchable
  PROVE  GoodPlan(n, t, Plan(n, t, task, Clock))
<1> DEFINE plan == Plan(n, t, task, Clock)
<1>1. SoundTable(n, t) /\ WalksIn(t.routes) /\ t \in Table
  BY DEF GoodTable, SoundTable
<1>2. ASSUME NEW p \in Node, NEW i \in Info, task = PeerCreate(p, i)
      PROVE  GoodPlan(n, t, plan)
  <2>1. plan = PlanLocalPeerCreate(t, p, i)
    BY <1>2 DEF Plan, PeerCreate
  <2>2. plan.changes = {}
    BY <2>1 DEF PlanLocalPeerCreate, NoChange, Changed
  <2> HIDE DEF plan
  <2> QED
    BY <1>1, <2>1, <2>2, LocalPeerCreateSound, LocalPeerCalm, CalmGood, AtMostOneKeyed
<1>3. ASSUME NEW p \in Node, NEW i \in Info, task = PeerUpdate(p, i)
      PROVE  GoodPlan(n, t, plan)
  <2>1. plan = PlanLocalPeerUpdate(t, p, i)
    BY <1>3 DEF Plan, PeerUpdate
  <2>2. plan.changes = {}
    BY <2>1 DEF PlanLocalPeerUpdate, NoChange, Changed
  <2> HIDE DEF plan
  <2> QED
    BY <1>1, <2>1, <2>2, LocalPeerUpdateSound, LocalPeerCalm, CalmGood, AtMostOneKeyed
<1>4. ASSUME NEW p \in Node, task = PeerDelete(p)
      PROVE  GoodPlan(n, t, plan)
  <2>1. plan = PlanLocalPeerDelete(t, p)
    BY <1>4 DEF Plan, PeerDelete
  <2> HIDE DEF plan
  <2>2. WalksIn(plan.table.routes)
    BY <1>1, <2>1, DeleteRoutes, SameWalks
  <2> QED
    BY <1>1, <2>1, <2>2, LocalPeerDeleteSound, DeleteFollows, DropKeyed DEF GoodPlan
<1>5. ASSUME NEW s \in Name, NEW d \in Data, task = RouteCreate(s, d)
      PROVE  GoodPlan(n, t, plan)
  <2>1. plan = PlanLocalRouteCreate(t, s, d)
    BY <1>5 DEF Plan, RouteCreate
  <2>2. plan.changes \in {{}, Announce("added", {AsLocal(s, d)})}
    BY <2>1 DEF PlanLocalRouteCreate, NoChange, Changed
  <2> HIDE DEF plan
  <2> QED
    BY <1>1, <2>1, <2>2, LocalRouteSound, LocalRouteCalm, CalmGood, AtMostOneKeyed
<1>6. ASSUME NEW s \in Name, NEW d \in Data, task = RouteHealth(s, d)
      PROVE  GoodPlan(n, t, plan)
  <2>1. plan = PlanLocalRouteHealthUpdate(t, s, d)
    BY <1>6 DEF Plan, RouteHealth
  <2>2. plan.changes \in {{}, Announce("updated", {AsLocal(s, d)})}
    BY <2>1 DEF PlanLocalRouteHealthUpdate, NoChange, Changed
  <2> HIDE DEF plan
  <2> QED
    BY <1>1, <2>1, <2>2, LocalRouteSound, LocalRouteCalm, CalmGood, AtMostOneKeyed
<1>7. ASSUME NEW s \in Name, task = RouteDelete(s)
      PROVE  GoodPlan(n, t, plan)
  <2>1. plan = PlanLocalRouteDelete(t, s)
    BY <1>7 DEF Plan, RouteDelete
  <2>2. plan.changes \in {{}, Announce("removed", {AsLocal(s, t.local[s])})}
    BY <2>1 DEF PlanLocalRouteDelete, NoChange, Changed
  <2> HIDE DEF plan
  <2> QED
    BY <1>1, <2>1, <2>2, LocalRouteSound, LocalRouteCalm, CalmGood, AtMostOneKeyed
<1>8. ASSUME NEW due \in SUBSET Node, task = KeepaliveTick(due)
      PROVE  GoodPlan(n, t, plan)
  <2>1. plan = PlanTick(t, Clock)
    BY <1>8 DEF Plan, KeepaliveTick
  <2> HIDE DEF plan
  <2>2. WalksIn(plan.table.routes)
    BY <1>1, <2>1, TickRoutes, SameWalks
  <2> QED
    BY <1>1, <2>1, <2>2, TickSound, TickFollows, DropKeyed DEF GoodPlan, Clock
<1> HIDE DEF plan
<1>9. \/ \E p \in Node, i \in Info : task = PeerCreate(p, i) \/ task = PeerUpdate(p, i)
      \/ \E p \in Node : task = PeerDelete(p)
      \/ \E s \in Name, d \in Data : task = RouteCreate(s, d) \/ task = RouteHealth(s, d)
      \/ \E s \in Name : task = RouteDelete(s)
      \/ \E due \in SUBSET Node : task = KeepaliveTick(due)
  BY DispatchableCases
<1>10. GoodPlan(n, t, plan)
  BY <1>2, <1>3, <1>4, <1>5, <1>6, <1>7, <1>8, <1>9
<1> QED
  BY <1>10 DEF plan

\* Those of the internal protocol.
LEMMA ProtocolGood ==
  ASSUME NEW n \in Node, NEW t, GoodTable(n, t), NEW p \in Node,
         NEW task \in CallTask(p) \cup {Connected(p), Open(p, DefaultHold)}
  PROVE  GoodPlan(n, t, Plan(n, t, task, Clock))
<1> DEFINE plan == Plan(n, t, task, Clock)
<1> SUFFICES GoodPlan(n, t, plan)
  OBVIOUS
<1>1. /\ SoundTable(n, t) /\ WalksIn(t.routes) /\ t \in Table
      /\ Clock \in Nat /\ DefaultHold \in Nat
  BY HoldAssumption DEF GoodTable, SoundTable, Clock
<1>2. CASE task = Keepalive(p)
  <2>1. plan = PlanInternalProtocolKeepalive(t, p, Clock)
    BY <1>2 DEF Plan, Keepalive
  <2>2. plan.changes = {}
    BY <2>1 DEF PlanInternalProtocolKeepalive, NoChange, Changed
  <2>3. SoundPlan(n, plan)
    BY <1>1, <2>1, InternalProtocolKeepaliveSound
  <2>4. Calm(t, plan)
    BY <1>1, <2>1, SessionCalm
  <2>5. OneChangePerKey(n, plan.changes)
    BY <2>2, AtMostOneKeyed
  <2> HIDE DEF plan
  <2> QED
    BY <2>3, <2>4, <2>5, CalmGood
<1>3. CASE task = Connected(p)
  <2>1. plan = PlanInternalProtocolConnected(t, p, Clock)
    BY <1>3 DEF Plan, Connected
  <2>2. plan.changes = {}
    BY <2>1 DEF PlanInternalProtocolConnected, NoChange, Changed
  <2>3. SoundPlan(n, plan)
    BY <1>1, <2>1, InternalProtocolConnectedSound
  <2>4. Calm(t, plan)
    BY <1>1, <2>1, SessionCalm
  <2>5. OneChangePerKey(n, plan.changes)
    BY <2>2, AtMostOneKeyed
  <2> HIDE DEF plan
  <2> QED
    BY <2>3, <2>4, <2>5, CalmGood
<1>4. CASE task = Open(p, DefaultHold)
  <2>1. plan = PlanInternalProtocolOpen(t, p, DefaultHold, Clock)
    BY <1>4 DEF Plan, Open
  <2>2. plan.changes = {}
    BY <2>1 DEF PlanInternalProtocolOpen, NoChange, Changed
  <2>3. SoundPlan(n, plan)
    BY <1>1, <2>1, InternalProtocolOpenSound
  <2>4. Calm(t, plan)
    BY <1>1, <2>1, SessionCalm
  <2>5. OneChangePerKey(n, plan.changes)
    BY <2>2, AtMostOneKeyed
  <2> HIDE DEF plan
  <2> QED
    BY <2>3, <2>4, <2>5, CalmGood
<1>5. CASE task = Close(p, "NORMAL")
  <2>1. plan = PlanInternalProtocolClose(t, p, "NORMAL") /\ "NORMAL" \in CloseCodes
    BY <1>5 DEF Plan, Close, CloseCodes
  <2> HIDE DEF plan
  <2>2. SoundPlan(n, plan)
    BY <1>1, <2>1, InternalProtocolCloseSound
  <2>3. WalksIn(plan.table.routes)
    BY <1>1, <2>1, CloseWalks
  <2>4. Follows(t.routes, plan.changes, plan.table.routes)
    BY <1>1, <2>1, CloseFollows
  <2>5. OneChangePerKey(n, plan.changes)
    BY <1>1, <2>1, CloseKeyed
  <2> QED
    BY <2>2, <2>3, <2>4, <2>5 DEF GoodPlan
<1>6. ASSUME NEW items \in Sendable(p), task = Update(p, items)
      PROVE  GoodPlan(n, t, plan)
  <2>1. plan = PlanInternalProtocolUpdate(n, t, p, items, Clock)
    BY <1>6 DEF Plan, Update
  <2>2. items \subseteq UpdateItem /\ DistinctKeys(items)
    BY DEF Sendable
  <2> HIDE DEF plan
  <2>3. SoundPlan(n, plan)
    BY <1>1, <2>1, <2>2, InternalProtocolUpdateSound
  <2>4. WalksIn(plan.table.routes)
    BY <1>1, <2>1, UpdateWalks
  <2>5. Follows(t.routes, plan.changes, plan.table.routes)
    BY <1>1, <2>1, <2>2, UpdateFollows
  <2>6. OneChangePerKey(n, plan.changes)
    BY <1>1, <2>1, <2>2, UpdateKeyed
  <2> QED
    BY <2>3, <2>4, <2>5, <2>6 DEF GoodPlan
<1> QED
  BY <1>2, <1>3, <1>4, <1>5, <1>6 DEF CallTask

-----------------------------------------------------------------------------
(* What a node says of its routes. *)

\* An item adds this node in front of a path that does not cross it.
LEMMA ItemWalks ==
  ASSUME NEW n \in Node, NEW action \in {"add", "remove"}, NEW r,
         r \in LocalRoute \/ (r \in InternalRoute /\ Walk(r.peer, r) /\ ~Crosses(n, r.path))
  PROVE  LET i == ItemFor(n, action, r)
         IN  i \in UpdateItem /\ Walk(n, i) /\ <<i.name, i.origin>> = KeyOf(n, r)
<1> DEFINE i == ItemFor(n, action, r)
<1>1. CASE r \in LocalRoute
  BY <1>1, InternalIsInternal DEF ItemFor, LocalRoute, UpdateItem, Walk, KeyOf
<1>2. CASE r \in InternalRoute /\ Walk(r.peer, r) /\ ~Crosses(n, r.path)
  <2>1. /\ i = [action |-> action, name |-> r.name, origin |-> r.origin,
                path |-> <<n>> \o r.path, data |-> r.data]
        /\ r.name \in Name /\ r.origin \in Node /\ r.data \in Data
        /\ r.path \in Seq(Node)
    BY <1>2, InternalIsInternal DEF ItemFor, InternalRoute
  <2>2. /\ Len(i.path) = Len(r.path) + 1 /\ i.path[1] = n /\ i.path \in Seq(Node)
        /\ \A k \in 1..Len(r.path) : i.path[k + 1] = r.path[k]
    BY <2>1
  <2>3. Len(r.path) > 0 /\ r.path[Len(r.path)] = r.origin /\ Len(r.path) \in Nat
    BY <1>2, <2>1 DEF Walk
  <2>4. i.path[Len(i.path)] = i.origin
    BY <2>1, <2>2, <2>3
  <2>5. ASSUME NEW j \in 1..Len(i.path), NEW k \in 1..Len(i.path), i.path[j] = i.path[k]
        PROVE  j = k
    <3>1. \A x \in 1..Len(i.path) :
            x = 1 \/ (x - 1 \in 1..Len(r.path) /\ i.path[x] = r.path[x - 1])
      BY <2>2, <2>3
    <3>2. \A x \in 1..Len(r.path) : r.path[x] # n
      BY <1>2 DEF Crosses
    <3>3. CASE j = 1 \/ k = 1
      BY <2>2, <2>5, <3>1, <3>2, <3>3
    <3>4. CASE j # 1 /\ k # 1
      <4>1. r.path[j - 1] = r.path[k - 1]
        BY <2>5, <3>1, <3>4
      <4>2. j - 1 = k - 1
        BY <1>2, <3>1, <3>4, <4>1 DEF Walk
      <4> QED
        BY <4>2
    <3> QED
      BY <3>3, <3>4
  <2>6. i \in UpdateItem /\ <<i.name, i.origin>> = KeyOf(n, r)
    BY <1>2, <2>1, <2>2, InternalIsInternal DEF UpdateItem, KeyOf
  <2> QED
    BY <2>2, <2>3, <2>4, <2>5, <2>6 DEF Walk
<1> QED
  BY <1>1, <1>2

\* The full sync: own services and learned routes have different origins.
LEMMA SyncSendable ==
  ASSUME NEW n \in Node, NEW m, NEW t, GoodTable(n, t)
  PROVE  syncRoutesToPeer(n, m, t) \in Sendable(n)
<1> DEFINE own  == {AsLocal(s, t.local[s]) : s \in {x \in Name : t.local[x] # NoRoute}}
           some == {s \in own \cup {r \in t.routes : ~r.stale} : MayTell(m, s)}
           items == syncRoutesToPeer(n, m, t)
<1>1. t \in Table /\ UniqueIn(t.routes) /\ LoopFreeIn(n, t.routes) /\ WalksIn(t.routes)
  BY DEF GoodTable, SoundTable
<1>2. ASSUME NEW r \in own
      PROVE  r \in LocalRoute /\ r = AsLocal(r.name, t.local[r.name])
  BY <1>1 DEF Table, AsLocal, LocalRoute
<1>3. ASSUME NEW r \in t.routes
      PROVE  r \in InternalRoute /\ Walk(r.peer, r) /\ ~Crosses(n, r.path) /\ r.origin # n
  <2>1. r \in InternalRoute /\ Walk(r.peer, r) /\ ~Crosses(n, r.path)
    BY <1>1 DEF Table, WalksIn, LoopFreeIn
  <2>2. Len(r.path) \in 1..Len(r.path) /\ r.path[Len(r.path)] = r.origin
    BY <2>1 DEF InternalRoute, Walk
  <2> QED
    BY <2>1, <2>2 DEF Crosses
<1>4. items = {ItemFor(n, "add", r) : r \in some}
  BY DEF syncRoutesToPeer
<1>5. \A r \in some : r \in own \/ r \in t.routes
  OBVIOUS
<1> HIDE DEF own, some, items
<1>6. ASSUME NEW r \in some
      PROVE  /\ ItemFor(n, "add", r) \in UpdateItem /\ Walk(n, ItemFor(n, "add", r))
             /\ <<ItemFor(n, "add", r).name, ItemFor(n, "add", r).origin>> = KeyOf(n, r)
  BY <1>2, <1>3, <1>5, ItemWalks
<1>7. ASSUME NEW r \in some, NEW s \in some, KeyOf(n, r) = KeyOf(n, s)
      PROVE  r = s
  <2>1. CASE r \in own /\ s \in own
    BY <1>2, <1>7, <2>1, InternalIsInternal DEF KeyOf
  <2>2. CASE r \in t.routes /\ s \in t.routes
    BY <1>1, <1>3, <1>7, <2>2, InternalIsInternal DEF KeyOf, UniqueIn, SameKey
  <2>3. CASE r \in own /\ s \in t.routes
    BY <1>2, <1>3, <1>7, <2>3, InternalIsInternal DEF KeyOf
  <2>4. CASE r \in t.routes /\ s \in own
    BY <1>2, <1>3, <1>7, <2>4, InternalIsInternal DEF KeyOf
  <2> QED
    BY <1>5, <2>1, <2>2, <2>3, <2>4
<1>8. DistinctKeys(items)
  BY <1>4, <1>6, <1>7 DEF DistinctKeys, SameKey
<1>9. items \subseteq UpdateItem /\ \A i \in items : Walk(n, i)
  BY <1>4, <1>6
<1> QED
  BY <1>8, <1>9 DEF Sendable, items

\* The delta after a change.
LEMMA DeltaSendable ==
  ASSUME NEW n \in Node, NEW m, NEW t, GoodTable(n, t), NEW plan, GoodPlan(n, t, plan)
  PROVE  buildUpdatesForPeer(n, m, plan.changes) \in Sendable(n)
<1> DEFINE ActionOf(c) == IF c.type = "removed" THEN "remove" ELSE "add"
           some == {d \in plan.changes : MayTell(m, d.route)}
           items == buildUpdatesForPeer(n, m, plan.changes)
<1>1. ASSUME NEW routes, routes \in {t.routes, plan.table.routes}, NEW r \in routes
      PROVE  r \in InternalRoute /\ Walk(r.peer, r) /\ ~Crosses(n, r.path)
  BY <1>1 DEF GoodTable, GoodPlan, SoundPlan, SoundTable, Table, WalksIn, LoopFreeIn
<1>2. ASSUME NEW c \in plan.changes
      PROVE  \/ c.route \in LocalRoute
             \/ c.route \in t.routes \/ c.route \in plan.table.routes
  <2>1. /\ c.type \in {"added", "removed", "updated"}
        /\ c.route \in InternalRoute \cup LocalRoute
    BY DEF GoodPlan, SoundPlan, Change
  <2>2. CASE isInternalRoute(c.route)
    <3>1. c.route \in Internal(Of(plan.changes, c.type))
      BY <2>2 DEF Internal, Of
    <3>2. Follows(t.routes, plan.changes, plan.table.routes)
      BY DEF GoodPlan
    <3>3. CASE c.type = "removed"
      BY <3>1, <3>2, <3>3 DEF Follows
    <3>4. CASE c.type # "removed"
      <4>1. c.route \in Internal(Of(plan.changes, "added") \cup Of(plan.changes, "updated"))
        BY <2>1, <3>1, <3>4 DEF Internal
      <4> QED
        BY <3>2, <4>1 DEF Follows
    <3> QED
      BY <3>3, <3>4
  <2> QED
    BY <2>1, <2>2, InternalIsInternal
<1>3. items = {ItemFor(n, ActionOf(c), c.route) : c \in some}
  BY DEF buildUpdatesForPeer
<1>4. some \subseteq plan.changes
  OBVIOUS
<1>5. \A c \in some : ActionOf(c) \in {"add", "remove"}
  OBVIOUS
<1> HIDE DEF some, items, ActionOf
<1>6. ASSUME NEW c \in some
      PROVE  LET i == ItemFor(n, ActionOf(c), c.route)
             IN  i \in UpdateItem /\ Walk(n, i) /\ <<i.name, i.origin>> = KeyOf(n, c.route)
  <2>1. \/ c.route \in LocalRoute
        \/ /\ c.route \in InternalRoute /\ Walk(c.route.peer, c.route)
           /\ ~Crosses(n, c.route.path)
    BY <1>1, <1>2, <1>4
  <2> QED
    BY <1>5, <2>1, ItemWalks
<1>7. ASSUME NEW c \in some, NEW d \in some, KeyOf(n, c.route) = KeyOf(n, d.route)
      PROVE  c = d
  BY <1>4, <1>7 DEF GoodPlan, OneChangePerKey
<1>8. DistinctKeys(items)
  BY <1>3, <1>6, <1>7 DEF DistinctKeys, SameKey
<1>9. items \subseteq UpdateItem /\ \A i \in items : Walk(n, i)
  BY <1>3, <1>6
<1> QED
  BY <1>8, <1>9 DEF Sendable, items

-----------------------------------------------------------------------------
(* What a task has its node send. *)

Calls(n) == [to : Node, task : CallTask(n), delivered : BOOLEAN]
AnyCall == UNION {Calls(n) : n \in Node}

OnePerTarget(calls) == \A c, d \in calls : c.to = d.to => c = d
Unsent(calls) == \A c \in calls : ~c.delivered

\* The stages of a task of n: of each but the first, nothing is sent yet.
GoodStages(n) ==
  {s \in Seq(SUBSET Calls(n)) :
     \A k \in 1..Len(s) : OnePerTarget(s[k]) /\ (k > 1 => Unsent(s[k]))}

LEMMA CallTaskFields ==
  ASSUME NEW p, NEW task \in CallTask(p)
  PROVE  /\ task.peer = p
         /\ task.type \in {"InternalProtocolUpdate", "InternalProtocolClose",
                           "InternalProtocolKeepalive"}
BY DEF CallTask, Keepalive, Close, Update

LEMMA TaskFields ==
  ASSUME NEW task \in Task, task.type \in {"LocalPeerCreate", "LocalPeerDelete"}
  PROVE  task.peer \in Node
<1>1. CASE task \in Dispatchable
  BY <1>1, DispatchableCases DEF PeerCreate, PeerUpdate, PeerDelete, RouteCreate,
     RouteHealth, RouteDelete, KeepaliveTick
<1>2. CASE task \in UNION {CallTask(p) : p \in Node}
  BY <1>2, CallTaskFields
<1>3. CASE task \in {Connected(p) : p \in Node} \cup {Open(p, DefaultHold) : p \in Node}
  BY <1>3 DEF Connected, Open
<1> QED
  BY <1>1, <1>2, <1>3 DEF Task

LEMMA TaskGood ==
  ASSUME NEW n \in Node, NEW t, GoodTable(n, t), NEW task \in Task
  PROVE  GoodPlan(n, t, Plan(n, t, task, Clock))
<1>1. CASE task \in Dispatchable
  BY <1>1, CommandGood
<1>2. CASE \E p \in Node : task \in CallTask(p) \cup {Connected(p), Open(p, DefaultHold)}
  BY <1>2, ProtocolGood
<1> QED
  BY <1>1, <1>2 DEF Task

LEMMA CallGood ==
  ASSUME NEW n \in Node, NEW m \in Node, NEW task \in CallTask(n)
  PROVE  Call(m, task) \in Calls(n) /\ Call(m, task).to = m /\ ~Call(m, task).delivered
BY DEF Call, Calls

LEMMA UpdateCallsGood ==
  ASSUME NEW n \in Node, NEW t, GoodTable(n, t), NEW task, NEW plan, GoodPlan(n, t, plan)
  PROVE  LET calls == UpdateCalls(n, task, plan)
         IN  calls \subseteq Calls(n) /\ OnePerTarget(calls) /\ Unsent(calls)
<1> DEFINE to == {k \in connectedPeers(plan.table) :
                    /\ task.type = "InternalProtocolConnected" => k = task.peer
                    /\ Told(n, task, plan, k) # {}}
<1>1. to \subseteq Node
  BY DEF connectedPeers
<1>2. GoodTable(n, plan.table)
  BY DEF GoodPlan, SoundPlan, GoodTable
<1>3. ASSUME NEW m
      PROVE  Update(n, Told(n, task, plan, m)) \in CallTask(n)
  <2>1. Told(n, task, plan, m) \in Sendable(n)
    BY <1>2, SyncSendable, DeltaSendable DEF Told
  <2> QED
    BY <2>1 DEF CallTask
<1>4. UpdateCalls(n, task, plan) = {Call(m, Update(n, Told(n, task, plan, m))) : m \in to}
  BY DEF UpdateCalls
<1> DEFINE C(m) == Call(m, Update(n, Told(n, task, plan, m)))
           calls == UpdateCalls(n, task, plan)
<1> HIDE DEF to
<1>5. ASSUME NEW m \in to
      PROVE  C(m) \in Calls(n) /\ C(m).to = m /\ ~C(m).delivered
  BY <1>1, <1>3, CallGood
<1>6. calls = {C(m) : m \in to}
  BY <1>4
<1> HIDE DEF C, calls
<1>7. calls \subseteq Calls(n) /\ OnePerTarget(calls) /\ Unsent(calls)
  BY <1>5, <1>6 DEF OnePerTarget, Unsent
<1> QED
  BY <1>7 DEF calls

LEMMA NotifyGood ==
  ASSUME NEW n \in Node, NEW t, GoodTable(n, t), NEW task \in Task,
         NEW plan, GoodPlan(n, t, plan)
  PROVE  /\ Notify(n, task, plan) \in GoodStages(n)
         /\ \A k \in 1..Len(Notify(n, task, plan)) : Unsent(Notify(n, task, plan)[k])
<1> DEFINE Good(calls) == calls \subseteq Calls(n) /\ OnePerTarget(calls) /\ Unsent(calls)
           updates == UpdateCalls(n, task, plan)
           alive == {Call(m, Keepalive(n)) : m \in task.due \cap connectedPeers(plan.table)}
           bye == {Call(task.peer, Close(n, "NORMAL"))}
           s == Notify(n, task, plan)
<1>1. Good(updates)
  BY UpdateCallsGood
<1>2. Good(alive)
  <2> DEFINE C(m) == Call(m, Keepalive(n))
  <2>1. Keepalive(n) \in CallTask(n)
    BY DEF CallTask
  <2>2. ASSUME NEW m \in Node
        PROVE  C(m) \in Calls(n) /\ C(m).to = m /\ ~C(m).delivered
    BY <2>1, CallGood
  <2>3. \A c \in alive : \E m \in Node : c = C(m)
    BY DEF connectedPeers
  <2> HIDE DEF C, alive
  <2> QED
    BY <2>2, <2>3 DEF OnePerTarget, Unsent
<1>3. task.type = "LocalPeerDelete" => Good(bye)
  <2>1. Close(n, "NORMAL") \in CallTask(n)
    BY DEF CallTask
  <2> QED
    BY <2>1, TaskFields DEF Call, Calls, OnePerTarget, Unsent
<1> DEFINE Fine(x) == x \in Seq(SUBSET Calls(n)) /\ \A k \in 1..Len(x) : Good(x[k])
<1> HIDE DEF updates, alive, bye
<1>4. ASSUME NEW calls, Good(calls)
      PROVE  Fine(<<calls>>) /\ Fine(Stage(calls))
  <2>1. <<calls>> \in Seq(SUBSET Calls(n)) /\ Len(<<calls>>) = 1 /\ <<calls>>[1] = calls
    BY <1>4
  <2>2. Fine(<<calls>>)
    BY <1>4, <2>1
  <2>3. Fine(<<>>)
    OBVIOUS
  <2> QED
    BY <2>2, <2>3 DEF Stage
<1>5. Fine(s)
  <2>1. CASE task.type # "LocalPeerDelete"
    <3> HIDE DEF Good, Fine
    <3>1. Fine(<<>>) /\ Fine(Stage(alive)) /\ Fine(Stage(updates))
      <4>1. Fine(<<>>)
        BY DEF Fine
      <4> QED
        BY <1>1, <1>2, <1>4, <4>1
    <3>2. s = <<>> \/ s = Stage(alive) \/ s = Stage(updates)
      BY <2>1, Zenon DEF Notify, updates, alive
    <3> QED
      BY <3>1, <3>2
  <2>2. CASE task.type = "LocalPeerDelete"
    <3>1. Good(bye)
      BY <1>3, <2>2
    <3>2. Fine(<<>>)
      OBVIOUS
    <3>3. s = <<>> \/ s = <<bye>> \o Stage(updates)
      BY <2>2 DEF Notify, updates, bye
    <3>4. CASE updates = {}
      <4>1. <<bye>> \o Stage(updates) = <<bye>>
        BY <3>4 DEF Stage
      <4> QED
        BY <1>4, <3>1, <3>2, <3>3, <4>1
    <3>5. CASE updates # {}
      <4> DEFINE both == <<bye>> \o <<updates>>
      <4>1. Stage(updates) = <<updates>>
        BY <3>5 DEF Stage
      <4>2. /\ both \in Seq(SUBSET Calls(n)) /\ Len(both) = 2
            /\ both[1] = bye /\ both[2] = updates
        BY <1>1, <3>1
      <4> HIDE DEF both
      <4>3. Fine(both)
        BY <1>1, <3>1, <4>2
      <4> QED
        BY <3>2, <3>3, <4>1, <4>3 DEF both
    <3> QED
      BY <3>4, <3>5
  <2> QED
    BY <2>1, <2>2
<1> HIDE DEF s
<1>6. s \in GoodStages(n) /\ \A k \in 1..Len(s) : Unsent(s[k])
  BY <1>5 DEF GoodStages
<1> QED
  BY <1>6 DEF s

-----------------------------------------------------------------------------
(* The inductive invariant: what is in the queues and under way.           *)

\* Only a task that came by a call has a caller waiting, only an OPEN a dialler.
QueueEntry ==
  {Entry(task, "none") : task \in Task}
    \cup {Entry(task, "call") : task \in UNION {CallTask(p) : p \in Node}}
    \cup {Entry(Open(p, DefaultHold), "dial") : p \in Node}

TablesGood == \A n \in Node : GoodTable(n, table[n])
QueuesGood == queue \in [Node -> Seq(QueueEntry)]
StagesGood ==
  stages \in [Node -> Seq(SUBSET AnyCall)] /\ \A n \in Node : stages[n] \in GoodStages(n)
CountersGood ==
  /\ dials \in [Node -> [Node -> Nat]] /\ timer \in [Node -> [Node -> 0..1]]
  /\ commands \in 0..MaxCommands /\ failures \in 0..MaxFailures

Awaited(n, m, task) ==
  stages[n] # <<>> /\ \E c \in stages[n][1] : c.to = m /\ c.delivered /\ c.task = task

AwaitedNext(n, m, task) ==
  stages'[n] # <<>> /\ \E c \in stages'[n][1] : c.to = m /\ c.delivered /\ c.task = task

\* A caller waits for every entry that has one.
EntriesAwaited ==
  \A m \in Node : \A i \in 1..Len(queue[m]) :
    queue[m][i].reply = "call" => Awaited(queue[m][i].task.peer, m, queue[m][i].task)

\* A delivered call that is waited for is in its target's queue.
DeliveredQueued ==
  \A n \in Node : stages[n] # <<>> =>
    \A c \in stages[n][1] : c.delivered =>
      \E i \in 1..Len(queue[c.to]) : queue[c.to][i] = Entry(c.task, "call")

\* No caller has two entries in one queue.
OneEntry ==
  \A m \in Node : \A i, j \in 1..Len(queue[m]) :
    /\ queue[m][i].reply = "call" /\ queue[m][j].reply = "call"
    /\ queue[m][i].task.peer = queue[m][j].task.peer
    => i = j

\* The task whose calls are under way heads the queue.
BusyQueued == \A n \in Node : stages[n] # <<>> => queue[n] # <<>>

Exchange ==
  /\ QueuesGood /\ StagesGood /\ BusyQueued
  /\ EntriesAwaited /\ DeliveredQueued /\ OneEntry

FleetInv == table \in [Node -> Table] /\ TablesGood /\ CountersGood /\ Exchange

LEMMA EntryFields ==
  ASSUME NEW e \in QueueEntry
  PROVE  /\ e = Entry(e.task, e.reply) /\ e.task \in Task
         /\ e.reply \in {"none", "call", "dial"}
         /\ e.reply = "call" => e.task.peer \in Node /\ e.task \in CallTask(e.task.peer)
         /\ e.reply = "dial" => e.task.peer \in Node
<1>1. CASE e \in {Entry(task, "none") : task \in Task}
  BY <1>1 DEF Entry
<1>2. CASE e \in {Entry(task, "call") : task \in UNION {CallTask(p) : p \in Node}}
  <2>1. PICK p \in Node : \E task \in CallTask(p) : e = Entry(task, "call")
    BY <1>2
  <2>2. PICK task \in CallTask(p) : e = Entry(task, "call")
    BY <2>1
  <2>3. task.peer = p /\ task \in Task
    BY CallTaskFields DEF Task
  <2> QED
    BY <2>2, <2>3 DEF Entry
<1>3. CASE e \in {Entry(Open(p, DefaultHold), "dial") : p \in Node}
  <2>1. PICK p \in Node : e = Entry(Open(p, DefaultHold), "dial")
    BY <1>3
  <2>2. Open(p, DefaultHold) \in Task /\ Open(p, DefaultHold).peer = p
    BY DEF Task, Open
  <2> QED
    BY <2>1, <2>2 DEF Entry
<1> QED
  BY <1>1, <1>2, <1>3 DEF QueueEntry

LEMMA AppendEntries ==
  ASSUME NEW S, NEW s \in Seq(S), NEW e \in S
  PROVE  /\ Append(s, e) \in Seq(S) /\ Len(Append(s, e)) = Len(s) + 1
         /\ \A i \in 1..Len(s) : Append(s, e)[i] = s[i]
         /\ Append(s, e)[Len(s) + 1] = e
OBVIOUS

LEMMA TailEntries ==
  ASSUME NEW S, NEW s \in Seq(S), s # <<>>
  PROVE  /\ Tail(s) \in Seq(S) /\ Len(Tail(s)) = Len(s) - 1 /\ Len(s) \in Nat \ {0}
         /\ \A i \in 1..Len(Tail(s)) : Tail(s)[i] = s[i + 1]
         /\ Head(s) = s[1] /\ s[1] \in S
OBVIOUS

\* The first stage of a task is a set of its own calls.
LEMMA CallFields ==
  ASSUME StagesGood, NEW n \in Node, stages[n] # <<>>
  PROVE  /\ Head(stages[n]) = stages[n][1] /\ OnePerTarget(stages[n][1])
         /\ stages[n][1] \subseteq Calls(n)
         /\ \A c \in stages[n][1] : /\ c.to \in Node /\ c.delivered \in BOOLEAN
                                    /\ c.task \in CallTask(n) /\ c.task.peer = n
<1>1. stages[n] \in Seq(SUBSET Calls(n)) /\ Len(stages[n]) > 0
  BY DEF StagesGood, GoodStages
<1>2. stages[n][1] \subseteq Calls(n) /\ Head(stages[n]) = stages[n][1]
  BY <1>1
<1>3. OnePerTarget(stages[n][1])
  BY <1>1 DEF StagesGood, GoodStages
<1>4. \A c \in Calls(n) : c.to \in Node /\ c.delivered \in BOOLEAN /\ c.task \in CallTask(n)
  BY DEF Calls
<1> QED
  BY <1>2, <1>3, <1>4, CallTaskFields

\* A task nobody waits for by a call joins a queue.
LEMMA AppendExchange ==
  ASSUME Exchange, UNCHANGED stages, NEW n \in Node,
         NEW e \in QueueEntry, e.reply # "call",
         queue' = [queue EXCEPT ![n] = Append(@, e)]
  PROVE  Exchange'
<1>1. QueuesGood /\ queue[n] \in Seq(QueueEntry)
  BY DEF Exchange, QueuesGood
<1>2. /\ queue' \in [Node -> Seq(QueueEntry)]
      /\ \A m \in Node \ {n} : queue'[m] = queue[m]
      /\ queue'[n] = Append(queue[n], e)
  BY <1>1, AppendEntries DEF QueuesGood
<1>3. ASSUME NEW m \in Node, NEW i \in 1..Len(queue'[m]), queue'[m][i].reply = "call"
      PROVE  i \in 1..Len(queue[m]) /\ queue'[m][i] = queue[m][i]
  BY <1>1, <1>2, <1>3, AppendEntries
<1>4. ASSUME NEW m \in Node, NEW i \in 1..Len(queue[m])
      PROVE  i \in 1..Len(queue'[m]) /\ queue'[m][i] = queue[m][i]
  BY <1>1, <1>2, AppendEntries
<1>5. EntriesAwaited' /\ OneEntry'
  BY <1>3 DEF Exchange, EntriesAwaited, OneEntry, Awaited
<1>6. DeliveredQueued'
  BY <1>4, CallFields DEF Exchange, DeliveredQueued
<1>7. BusyQueued'
  BY <1>1, <1>2, AppendEntries DEF Exchange, BusyQueued
<1> QED
  BY <1>2, <1>5, <1>6, <1>7 DEF Exchange, QueuesGood, StagesGood

\* A call is delivered.
LEMMA DeliverExchange ==
  ASSUME Exchange, NEW n \in Node, Deliver(n)
  PROVE  Exchange'
<1>1. PICK c \in Head(stages[n]) :
        /\ stages[n] # <<>> /\ ~c.delivered
        /\ stages' = [stages EXCEPT ![n][1] = (@ \ {c}) \cup {[c EXCEPT !.delivered = TRUE]}]
        /\ queue' = [queue EXCEPT ![c.to] = Append(@, Entry(c.task, "call"))]
  BY DEF Deliver, Busy
<1> DEFINE d == [c EXCEPT !.delivered = TRUE]
           x == (stages[n][1] \ {c}) \cup {d}
           m == c.to
           e == Entry(c.task, "call")
<1>2. /\ QueuesGood /\ StagesGood /\ EntriesAwaited /\ DeliveredQueued /\ OneEntry
  BY DEF Exchange
<1>3. /\ Head(stages[n]) = stages[n][1] /\ OnePerTarget(stages[n][1])
      /\ stages[n][1] \subseteq Calls(n)
      /\ m \in Node /\ c.task \in CallTask(n) /\ c.task.peer = n
  BY <1>1, <1>2, CallFields
<1>4. c \in Calls(n) /\ c \in stages[n][1]
  BY <1>1, <1>3
<1>5. d \in Calls(n) /\ d.to = m /\ d.task = c.task /\ d.delivered
  BY <1>4 DEF Calls
<1>6. x \subseteq Calls(n) /\ OnePerTarget(x)
  <2> HIDE DEF d
  <2> QED
    BY <1>3, <1>4, <1>5 DEF OnePerTarget
<1>7. e \in QueueEntry /\ e.reply = "call" /\ e.task = c.task
  <2>1. e \in {Entry(task, "call") : task \in UNION {CallTask(p) : p \in Node}}
    BY <1>3
  <2> QED
    BY <2>1 DEF QueueEntry, Entry
<1>8. /\ stages[n] \in GoodStages(n) /\ stages \in [Node -> Seq(SUBSET AnyCall)]
      /\ queue[m] \in Seq(QueueEntry) /\ queue \in [Node -> Seq(QueueEntry)]
  BY <1>2, <1>3 DEF StagesGood, QueuesGood
<1>9. /\ stages'[n] = [stages[n] EXCEPT ![1] = x]
      /\ \A k \in Node \ {n} : stages'[k] = stages[k]
      /\ DOMAIN stages' = Node /\ stages' = [stages EXCEPT ![n] = stages'[n]]
  BY <1>1, <1>8
<1> HIDE DEF x, d
<1>10. stages'[n] \in GoodStages(n) /\ stages'[n] # <<>> /\ stages'[n][1] = x
       /\ stages'[n] \in Seq(SUBSET AnyCall)
  <2>1. stages'[n] = [stages[n] EXCEPT ![1] = x] /\ stages[n] # <<>>
    BY <1>1, <1>9
  <2>2. stages[n] \in Seq(SUBSET Calls(n)) /\ Len(stages[n]) > 0
    BY <1>6, <1>8, <2>1 DEF GoodStages
  <2>3. /\ stages'[n] \in Seq(SUBSET Calls(n)) /\ Len(stages'[n]) = Len(stages[n])
        /\ stages'[n][1] = x /\ \A k \in 2..Len(stages[n]) : stages'[n][k] = stages[n][k]
    BY <1>6, <1>8, <2>1, <2>2
  <2> QED
    BY <1>6, <1>8, <2>2, <2>3 DEF GoodStages, AnyCall
<1>11. StagesGood'
  BY <1>2, <1>8, <1>9, <1>10 DEF StagesGood
<1>12. /\ queue' \in [Node -> Seq(QueueEntry)]
       /\ \A k \in Node \ {m} : queue'[k] = queue[k]
       /\ queue'[m] = Append(queue[m], e)
  BY <1>1, <1>3, <1>7, <1>8, AppendEntries
<1> HIDE DEF e
<1>13. /\ Len(queue'[m]) = Len(queue[m]) + 1 /\ Len(queue[m]) \in Nat
       /\ queue'[m][Len(queue[m]) + 1] = e
       /\ \A k \in Node : \A i \in 1..Len(queue[k]) :
            i \in 1..Len(queue'[k]) /\ queue'[k][i] = queue[k][i]
  <2>1. /\ Len(queue'[m]) = Len(queue[m]) + 1 /\ Len(queue[m]) \in Nat
        /\ queue'[m][Len(queue[m]) + 1] = e
        /\ \A i \in 1..Len(queue[m]) : queue'[m][i] = queue[m][i]
    BY <1>7, <1>8, <1>12, AppendEntries
  <2>2. ASSUME NEW k \in Node, NEW i \in 1..Len(queue[k])
        PROVE  i \in 1..Len(queue'[k]) /\ queue'[k][i] = queue[k][i]
    <3>1. CASE k = m
      <4>1. i \in 1..Len(queue[m]) /\ queue'[k] = queue'[m] /\ queue[k] = queue[m]
        BY <3>1
      <4> HIDE DEF m
      <4> QED
        BY <2>1, <4>1
    <3>2. CASE k # m
      BY <1>12, <3>2
    <3> QED
      BY <3>1, <3>2
  <2> QED
    BY <2>1, <2>2
<1>14. ASSUME NEW k \in Node, NEW i \in 1..Len(queue'[k])
       PROVE  \/ i \in 1..Len(queue[k]) /\ queue'[k][i] = queue[k][i]
              \/ k = m /\ i = Len(queue[m]) + 1 /\ queue'[k][i] = e
  BY <1>12, <1>13
\* The caller waits for the new entry, and had no other one there.
<1>15. EntriesAwaited'
  <2>1. SUFFICES ASSUME NEW k \in Node, NEW i \in 1..Len(queue'[k]),
                        queue'[k][i].reply = "call"
                 PROVE  AwaitedNext(queue'[k][i].task.peer, k, queue'[k][i].task)
    BY DEF EntriesAwaited, Awaited, AwaitedNext
  <2>2. CASE k = m /\ queue'[k][i] = e
    BY <1>3, <1>5, <1>7, <1>10, <2>2 DEF AwaitedNext, x
  <2>3. CASE i \in 1..Len(queue[k]) /\ queue'[k][i] = queue[k][i]
    <3>1. Awaited(queue[k][i].task.peer, k, queue[k][i].task)
      BY <1>2, <2>1, <2>3 DEF EntriesAwaited
    <3>2. queue[k][i].task.peer \in Node
      BY <1>8, <2>1, <2>3, EntryFields
    <3>3. CASE queue[k][i].task.peer = n
      BY <1>1, <1>10, <2>3, <3>1, <3>3 DEF Awaited, AwaitedNext, x
    <3>4. CASE queue[k][i].task.peer # n
      BY <1>9, <2>3, <3>1, <3>2, <3>4 DEF Awaited, AwaitedNext
    <3> QED
      BY <3>3, <3>4
  <2> QED
    BY <1>14, <2>2, <2>3
<1>16. ASSUME NEW i \in 1..Len(queue[m]), queue[m][i].reply = "call", queue[m][i].task.peer = n
       PROVE  FALSE
  <2>1. PICK b \in stages[n][1] : b.to = m /\ b.delivered
    BY <1>2, <1>3, <1>16 DEF EntriesAwaited, Awaited
  <2> QED
    BY <1>1, <1>3, <1>4, <2>1 DEF OnePerTarget
<1>17. OneEntry'
  <2>1. SUFFICES ASSUME NEW k \in Node, NEW i \in 1..Len(queue'[k]), NEW j \in 1..Len(queue'[k]),
                        queue'[k][i].reply = "call", queue'[k][j].reply = "call",
                        queue'[k][i].task.peer = queue'[k][j].task.peer
                 PROVE  i = j
    BY DEF OneEntry
  <2>2. CASE i \in 1..Len(queue[k]) /\ j \in 1..Len(queue[k])
    BY <1>2, <1>13, <2>1, <2>2 DEF OneEntry
  <2>3. CASE i \notin 1..Len(queue[k]) /\ j \notin 1..Len(queue[k])
    BY <1>14, <2>3
  <2>4. ASSUME NEW a \in 1..Len(queue'[k]), NEW b \in 1..Len(queue'[k]),
               queue'[k][a].reply = "call",
               queue'[k][a].task.peer = queue'[k][b].task.peer,
               a \in 1..Len(queue[k]), b \notin 1..Len(queue[k])
        PROVE  FALSE
    <3>1. k = m /\ queue'[k][b].task.peer = n
      BY <1>3, <1>7, <1>14, <2>4
    <3>2. queue[k][a].reply = "call" /\ queue[k][a].task.peer = n
      BY <1>13, <2>4, <3>1
    <3> QED
      BY <1>16, <2>4, <3>1, <3>2
  <2> QED
    BY <2>1, <2>2, <2>3, <2>4
<1>18. DeliveredQueued'
  <2>1. SUFFICES ASSUME NEW k \in Node, stages'[k] # <<>>, NEW b \in stages'[k][1], b.delivered
                 PROVE  \E i \in 1..Len(queue'[b.to]) : queue'[b.to][i] = Entry(b.task, "call")
    BY DEF DeliveredQueued
  <2>2. CASE k = n /\ b = d
    BY <1>5, <1>13, <2>2 DEF e
  <2>3. CASE stages[k] # <<>> /\ b \in stages[k][1]
    <3>1. b.to \in Node
      BY <1>2, <2>3, CallFields
    <3> QED
      BY <1>2, <1>13, <2>1, <2>3, <3>1 DEF DeliveredQueued
  <2> QED
    BY <1>1, <1>9, <1>10, <2>1, <2>2, <2>3 DEF x
<1>19. BusyQueued'
  <2>1. ASSUME NEW k \in Node, stages'[k] # <<>>
        PROVE  queue'[k] # <<>>
    <3>1. stages[k] # <<>>
      BY <1>1, <1>9, <2>1
    <3>2. queue[k] # <<>>
      BY <3>1 DEF Exchange, BusyQueued
    <3>3. queue[k] \in Seq(QueueEntry) /\ 1 \in 1..Len(queue[k])
      BY <1>8, <3>2
    <3>4. 1 \in 1..Len(queue'[k])
      BY <1>13, <3>3
    <3> QED
      BY <3>4
  <2> QED
    BY <2>1 DEF BusyQueued
<1> QED
  BY <1>11, <1>12, <1>15, <1>17, <1>18, <1>19 DEF Exchange, QueuesGood

\* A call fails: its target's entry, if there is one, loses its caller.
LEMMA FailExchange ==
  ASSUME Exchange, NEW n \in Node, Fail(n)
  PROVE  Exchange'
<1>1. PICK c \in Head(stages[n]) :
        /\ stages[n] # <<>>
        /\ stages' = [stages EXCEPT ![n][1] = @ \ {c}]
        /\ queue' = [queue EXCEPT ![c.to] =
             [i \in DOMAIN @ |->
                IF @[i] = Entry(c.task, "call") THEN Entry(c.task, "none") ELSE @[i]]]
  BY DEF Fail, Busy
<1> DEFINE x == stages[n][1] \ {c}
           m == c.to
           mine == Entry(c.task, "call")
<1>2. /\ QueuesGood /\ StagesGood /\ EntriesAwaited /\ DeliveredQueued /\ OneEntry
  BY DEF Exchange
<1>3. /\ Head(stages[n]) = stages[n][1] /\ OnePerTarget(stages[n][1])
      /\ stages[n][1] \subseteq Calls(n)
      /\ m \in Node /\ c.task \in CallTask(n) /\ c.task.peer = n
  BY <1>1, <1>2, CallFields
<1>4. x \subseteq Calls(n) /\ OnePerTarget(x) /\ c \in stages[n][1]
  BY <1>1, <1>3 DEF OnePerTarget
<1>5. mine.task = c.task /\ mine.reply = "call"
      /\ Entry(c.task, "none") \in QueueEntry /\ Entry(c.task, "none").reply = "none"
  <2>1. c.task \in Task
    BY <1>3 DEF Task
  <2> QED
    BY <2>1 DEF QueueEntry, Entry
<1>6. /\ stages[n] \in GoodStages(n) /\ stages \in [Node -> Seq(SUBSET AnyCall)]
      /\ queue[m] \in Seq(QueueEntry) /\ queue \in [Node -> Seq(QueueEntry)]
  BY <1>2, <1>3 DEF StagesGood, QueuesGood
<1>7. /\ stages'[n] = [stages[n] EXCEPT ![1] = x]
      /\ \A k \in Node \ {n} : stages'[k] = stages[k]
      /\ DOMAIN stages' = Node /\ stages' = [stages EXCEPT ![n] = stages'[n]]
  BY <1>1, <1>6
<1> HIDE DEF x, mine
<1>8. stages'[n] \in GoodStages(n) /\ stages'[n] # <<>> /\ stages'[n][1] = x
      /\ stages'[n] \in Seq(SUBSET AnyCall)
  <2>1. stages'[n] = [stages[n] EXCEPT ![1] = x] /\ stages[n] # <<>>
    BY <1>1, <1>7
  <2>2. stages[n] \in Seq(SUBSET Calls(n)) /\ Len(stages[n]) > 0
    BY <1>4, <1>6, <2>1 DEF GoodStages
  <2>3. /\ stages'[n] \in Seq(SUBSET Calls(n)) /\ Len(stages'[n]) = Len(stages[n])
        /\ stages'[n][1] = x /\ \A k \in 2..Len(stages[n]) : stages'[n][k] = stages[n][k]
    BY <1>4, <1>6, <2>1, <2>2
  <2> QED
    BY <1>4, <1>6, <2>2, <2>3 DEF GoodStages, AnyCall
<1>9. StagesGood'
  BY <1>2, <1>6, <1>7, <1>8 DEF StagesGood
<1> DEFINE cut == [i \in 1..Len(queue[m]) |->
                     IF queue[m][i] = mine THEN Entry(c.task, "none") ELSE queue[m][i]]
<1>10. cut \in Seq(QueueEntry) /\ Len(cut) = Len(queue[m])
  BY <1>5, <1>6
<1>11. /\ queue'[m] = cut /\ queue' = [queue EXCEPT ![m] = cut]
       /\ \A k \in Node \ {m} : queue'[k] = queue[k]
  <2>1. DOMAIN queue[m] = 1..Len(queue[m])
    BY <1>6
  <2>2. queue' = [queue EXCEPT ![m] = cut]
    BY <1>1, <2>1 DEF mine
  <2> HIDE DEF cut
  <2> QED
    BY <1>3, <1>6, <2>2
<1>12. queue' \in [Node -> Seq(QueueEntry)]
  BY <1>6, <1>10, <1>11
<1>13. ASSUME NEW k \in Node
       PROVE  /\ Len(queue'[k]) = Len(queue[k])
              /\ \A i \in 1..Len(queue[k]) :
                   \/ queue'[k][i] = queue[k][i] /\ (k = m => queue[k][i] # mine)
                   \/ k = m /\ queue[k][i] = mine /\ queue'[k][i].reply = "none"
  BY <1>5, <1>10, <1>11
<1> HIDE DEF cut
\* An entry that still has a caller is not the cut call's.
<1>14. EntriesAwaited'
  <2>1. SUFFICES ASSUME NEW k \in Node, NEW i \in 1..Len(queue'[k]),
                        queue'[k][i].reply = "call"
                 PROVE  AwaitedNext(queue'[k][i].task.peer, k, queue'[k][i].task)
    BY DEF EntriesAwaited, Awaited, AwaitedNext
  <2>2. /\ i \in 1..Len(queue[k]) /\ queue'[k][i] = queue[k][i]
        /\ k = m => queue[k][i] # mine
    BY <1>13, <2>1
  <2>3. /\ Awaited(queue[k][i].task.peer, k, queue[k][i].task)
        /\ queue[k][i] = Entry(queue[k][i].task, "call") /\ queue[k][i].task.peer \in Node
    BY <1>2, <1>6, <2>1, <2>2, EntryFields DEF EntriesAwaited
  <2>4. CASE queue[k][i].task.peer = n
    <3>1. PICK b \in stages[n][1] : b.to = k /\ b.delivered /\ b.task = queue[k][i].task
      BY <2>3, <2>4 DEF Awaited
    <3>2. b # c
      BY <2>2, <2>3, <3>1 DEF mine
    <3> QED
      BY <1>8, <2>2, <2>4, <3>1, <3>2 DEF AwaitedNext, x
  <2>5. CASE queue[k][i].task.peer # n
    BY <1>7, <2>2, <2>3, <2>5 DEF Awaited, AwaitedNext
  <2> QED
    BY <2>4, <2>5
<1>15. OneEntry'
  BY <1>2, <1>13 DEF OneEntry
<1>16. DeliveredQueued'
  <2>1. SUFFICES ASSUME NEW k \in Node, stages'[k] # <<>>, NEW b \in stages'[k][1], b.delivered
                 PROVE  \E i \in 1..Len(queue'[b.to]) : queue'[b.to][i] = Entry(b.task, "call")
    BY DEF DeliveredQueued
  <2>2. stages[k] # <<>> /\ b \in stages[k][1] /\ (k = n => b # c)
    BY <1>1, <1>7, <1>8, <2>1 DEF x
  <2>3. b.to \in Node /\ b.task.peer = k
    BY <1>2, <2>2, CallFields
  <2>4. PICK i \in 1..Len(queue[b.to]) : queue[b.to][i] = Entry(b.task, "call")
    BY <1>2, <2>1, <2>2 DEF DeliveredQueued
  <2>5. b.to = m => Entry(b.task, "call") # mine
    <3>1. CASE k = n
      BY <1>3, <1>4, <2>2, <3>1 DEF OnePerTarget
    <3>2. CASE k # n
      BY <1>3, <1>5, <2>3, <3>2 DEF Entry
    <3> QED
      BY <3>1, <3>2
  <2> QED
    BY <1>13, <2>3, <2>4, <2>5
<1>17. BusyQueued'
  <2>1. ASSUME NEW k \in Node, stages'[k] # <<>>
        PROVE  queue'[k] # <<>>
    <3>1. queue[k] # <<>>
      BY <1>1, <1>7, <2>1 DEF Exchange, BusyQueued
    <3>2. queue[k] \in Seq(QueueEntry) /\ Len(queue[k]) > 0
      BY <1>6, <3>1
    <3>3. Len(queue'[k]) > 0
      BY <1>13, <3>2
    <3> QED
      BY <3>3
  <2> QED
    BY <2>1 DEF BusyQueued
<1> QED
  BY <1>9, <1>12, <1>14, <1>15, <1>16, <1>17 DEF Exchange, QueuesGood

\* What the end of a task does to the queues: its entry goes; a Connected that
\* nobody waits for may join a queue.
LEMMA EndQueue ==
  ASSUME QueuesGood, NEW n \in Node, queue[n] # <<>>, NEW changed, End(n, changed)
  PROVE  /\ queue' \in [Node -> Seq(QueueEntry)]
         /\ \A m \in Node : \A i \in 1..Len(queue'[m]) : queue'[m][i].reply = "call" =>
              LET j == IF m = n THEN i + 1 ELSE i
              IN  j \in 1..Len(queue[m]) /\ queue'[m][i] = queue[m][j]
         /\ \A m \in Node : \A j \in 1..Len(queue[m]) : ~(m = n /\ j = 1) =>
              \E i \in 1..Len(queue'[m]) : queue'[m][i] = queue[m][j]
<1> DEFINE head == Head(queue[n])
           rest == [queue EXCEPT ![n] = Tail(@)]
           e == Entry(Connected(n), "none")
           p == head.task.peer
<1>1. queue \in [Node -> Seq(QueueEntry)] /\ queue[n] \in Seq(QueueEntry)
  BY DEF QueuesGood
<1>2. /\ Tail(queue[n]) \in Seq(QueueEntry) /\ head \in QueueEntry
      /\ Len(Tail(queue[n])) = Len(queue[n]) - 1 /\ Len(queue[n]) \in Nat \ {0}
      /\ \A i \in 1..Len(Tail(queue[n])) : Tail(queue[n])[i] = queue[n][i + 1]
  BY <1>1, TailEntries
<1>3. /\ rest \in [Node -> Seq(QueueEntry)] /\ rest[n] = Tail(queue[n])
      /\ \A m \in Node \ {n} : rest[m] = queue[m]
  BY <1>1, <1>2
<1>4. e \in QueueEntry /\ e.reply = "none"
  <2>1. Connected(n) \in Task
    BY DEF Task
  <2> QED
    BY <2>1 DEF QueueEntry, Entry
<1>5. \/ queue' = rest
      \/ p \in Node /\ queue' = [rest EXCEPT ![p] = Append(@, e)]
  <2>1. head.reply = "dial" => p \in Node
    BY <1>2, EntryFields
  <2> QED
    BY <2>1 DEF End
<1> HIDE DEF head, rest, e, p
<1>6. ASSUME NEW m \in Node
      PROVE  \/ queue'[m] = rest[m]
             \/ queue'[m] = Append(rest[m], e)
  BY <1>3, <1>5
<1>7. queue' \in [Node -> Seq(QueueEntry)]
  <2>1. queue' = [m \in Node |-> queue'[m]]
    BY <1>3, <1>5
  <2>2. \A m \in Node : queue'[m] \in Seq(QueueEntry)
    BY <1>3, <1>4, <1>6, AppendEntries
  <2> QED
    BY <2>1, <2>2
<1>8. ASSUME NEW m \in Node
      PROVE  /\ \A i \in 1..Len(rest[m]) : i \in 1..Len(queue'[m]) /\ queue'[m][i] = rest[m][i]
             /\ \A i \in 1..Len(queue'[m]) :
                  queue'[m][i].reply = "call" => i \in 1..Len(rest[m])
  <2>1. CASE queue'[m] = rest[m]
    BY <2>1
  <2>2. CASE queue'[m] = Append(rest[m], e)
    <3>1. rest[m] \in Seq(QueueEntry)
      BY <1>3
    <3>2. /\ Len(queue'[m]) = Len(rest[m]) + 1 /\ Len(rest[m]) \in Nat
          /\ \A i \in 1..Len(rest[m]) : queue'[m][i] = rest[m][i]
          /\ queue'[m][Len(rest[m]) + 1] = e
      BY <1>4, <2>2, <3>1, AppendEntries
    <3> QED
      BY <1>4, <3>2
  <2> QED
    BY <1>6, <2>1, <2>2
<1>9. ASSUME NEW m \in Node, NEW i \in 1..Len(queue'[m]), queue'[m][i].reply = "call"
      PROVE  LET j == IF m = n THEN i + 1 ELSE i
             IN  j \in 1..Len(queue[m]) /\ queue'[m][i] = queue[m][j]
  <2>1. i \in 1..Len(rest[m]) /\ queue'[m][i] = rest[m][i]
    BY <1>8, <1>9
  <2>2. CASE m = n
    <3>1. i \in 1..Len(Tail(queue[n])) /\ queue'[m][i] = Tail(queue[n])[i]
      BY <1>3, <2>1, <2>2
    <3>2. i + 1 \in 1..Len(queue[n]) /\ queue'[m][i] = queue[n][i + 1]
      BY <1>2, <3>1
    <3> QED
      BY <2>2, <3>2
  <2>3. CASE m # n
    BY <1>3, <2>1, <2>3
  <2> QED
    BY <2>2, <2>3
<1>10. ASSUME NEW m \in Node, NEW j \in 1..Len(queue[m]), ~(m = n /\ j = 1)
       PROVE  \E i \in 1..Len(queue'[m]) : queue'[m][i] = queue[m][j]
  <2>1. CASE m = n
    <3> DEFINE i == j - 1
    <3>1. /\ i \in 1..Len(Tail(queue[n])) /\ i + 1 = j
          /\ Tail(queue[n])[i] = queue[n][i + 1]
      BY <1>2, <1>10, <2>1
    <3> HIDE DEF i
    <3>2. i \in 1..Len(rest[m]) /\ rest[m][i] = queue[m][j]
      BY <1>3, <2>1, <3>1
    <3> QED
      BY <1>8, <3>2
  <2>2. CASE m # n
    BY <1>3, <1>8, <2>2
  <2> QED
    BY <2>1, <2>2
<1> QED
  BY <1>7, <1>9, <1>10

\* A task ends: its caller has its answer.
LEMMA EndExchange ==
  ASSUME Exchange, NEW n \in Node, queue[n] # <<>>,
         stages[n] = <<>> \/ stages[n][1] = {},
         NEW changed, End(n, changed)
  PROVE  Exchange'
<1> DEFINE head == Head(queue[n])
           p == head.task.peer
           answers(k, c) == head.reply = "call" /\ k = p /\ c.to = n /\ c.delivered
<1>1. QueuesGood /\ StagesGood /\ EntriesAwaited /\ DeliveredQueued /\ OneEntry
  BY DEF Exchange
<1>2. /\ 1 \in 1..Len(queue[n]) /\ head = queue[n][1] /\ head \in QueueEntry
  <2>1. queue[n] \in Seq(QueueEntry)
    BY <1>1 DEF QueuesGood
  <2> QED
    BY <2>1, TailEntries
<1>3. ASSUME NEW m, NEW task, Awaited(n, m, task)
      PROVE  FALSE
  BY <1>3 DEF Awaited
<1>4. head.reply = "call" => p \in Node /\ p # n /\ stages[p] # <<>>
  <2>1. head.reply = "call" => p \in Node /\ Awaited(p, n, head.task)
    BY <1>1, <1>2, EntryFields DEF EntriesAwaited
  <2> QED
    BY <1>3, <2>1 DEF Awaited
<1>5. /\ stages \in [Node -> Seq(SUBSET AnyCall)]
      /\ \A k \in Node : stages[k] \in GoodStages(k)
  BY <1>1 DEF StagesGood
<1>6. stages' = IF head.reply = "call"
                THEN [stages EXCEPT ![n] = <<>>, ![p][1] = Answered(p, n)]
                ELSE [stages EXCEPT ![n] = <<>>]
  BY DEF End
<1> HIDE DEF head, p
<1>7. /\ stages'[n] = <<>> /\ DOMAIN stages' = Node /\ stages' = [k \in Node |-> stages'[k]]
      /\ \A k \in Node \ {n} :
           IF head.reply = "call" /\ k = p
           THEN stages'[k] = [stages[k] EXCEPT ![1] = Answered(p, n)]
           ELSE stages'[k] = stages[k]
  BY <1>4, <1>5, <1>6
<1>8. ASSUME NEW k \in Node \ {n}
      PROVE  /\ stages'[k] \in GoodStages(k) /\ stages'[k] \in Seq(SUBSET AnyCall)
             /\ stages'[k] # <<>> <=> stages[k] # <<>>
             /\ stages[k] # <<>> =>
                  stages'[k][1] = {c \in stages[k][1] : ~answers(k, c)}
  <2>1. CASE head.reply = "call" /\ k = p
    <3> DEFINE x == Answered(p, n)
    <3>1. stages[k] # <<>> /\ stages[k] \in Seq(SUBSET Calls(k)) /\ Len(stages[k]) > 0
      BY <1>4, <1>5, <2>1 DEF GoodStages
    <3>2. x = {c \in stages[k][1] : ~answers(k, c)}
      BY <2>1, <3>1 DEF Answered
    <3>3. x \subseteq Calls(k) /\ OnePerTarget(x)
      BY <1>1, <3>1, <3>2, CallFields DEF OnePerTarget
    <3>4. /\ stages'[k] \in Seq(SUBSET Calls(k)) /\ Len(stages'[k]) = Len(stages[k])
          /\ stages'[k][1] = x /\ \A i \in 2..Len(stages[k]) : stages'[k][i] = stages[k][i]
      <4> HIDE DEF x, answers
      <4>1. stages'[k] = [stages[k] EXCEPT ![1] = x]
        BY <1>7, <2>1 DEF x
      <4> QED
        BY <3>1, <3>3, <4>1
    <3> HIDE DEF x, answers
    <3>5. stages'[k] \in GoodStages(k)
      BY <1>5, <3>1, <3>3, <3>4 DEF GoodStages
    <3>6. stages'[k] \in Seq(SUBSET AnyCall) /\ stages'[k] # <<>>
      BY <3>1, <3>4 DEF AnyCall
    <3> QED
      BY <3>1, <3>2, <3>4, <3>5, <3>6
  <2>2. CASE ~(head.reply = "call" /\ k = p)
    <3>1. stages'[k] = stages[k]
      BY <1>7, <2>2
    <3>2. \A c : ~answers(k, c)
      BY <2>2
    <3> HIDE DEF answers
    <3> QED
      BY <1>5, <3>1, <3>2
  <2> QED
    BY <2>1, <2>2
<1>9. StagesGood'
  <2>1. <<>> \in GoodStages(n) /\ <<>> \in Seq(SUBSET AnyCall)
    BY DEF GoodStages
  <2>2. ASSUME NEW k \in Node
        PROVE  stages'[k] \in GoodStages(k) /\ stages'[k] \in Seq(SUBSET AnyCall)
    BY <1>7, <1>8, <2>1
  <2> QED
    BY <1>7, <2>2 DEF StagesGood
<1>10. /\ queue' \in [Node -> Seq(QueueEntry)]
       /\ \A m \in Node : \A i \in 1..Len(queue'[m]) : queue'[m][i].reply = "call" =>
            LET j == IF m = n THEN i + 1 ELSE i
            IN  j \in 1..Len(queue[m]) /\ queue'[m][i] = queue[m][j]
       /\ \A m \in Node : \A j \in 1..Len(queue[m]) : ~(m = n /\ j = 1) =>
            \E i \in 1..Len(queue'[m]) : queue'[m][i] = queue[m][j]
  BY <1>1, EndQueue
\* The other entries with a caller have another caller, who goes on waiting.
<1>11. EntriesAwaited'
  <2>1. SUFFICES ASSUME NEW m \in Node, NEW i \in 1..Len(queue'[m]),
                        queue'[m][i].reply = "call"
                 PROVE  AwaitedNext(queue'[m][i].task.peer, m, queue'[m][i].task)
    BY DEF EntriesAwaited, Awaited, AwaitedNext
  <2> DEFINE j == IF m = n THEN i + 1 ELSE i
             k == queue[m][j].task.peer
  <2>2. j \in 1..Len(queue[m]) /\ queue'[m][i] = queue[m][j] /\ (m = n => j # 1)
    BY <1>10, <2>1
  <2> HIDE DEF j
  <2>3. Awaited(k, m, queue[m][j].task) /\ k \in Node
    <3>1. queue[m][j] \in QueueEntry
      BY <1>1, <2>2 DEF QueuesGood
    <3> QED
      BY <1>1, <2>1, <2>2, <3>1, EntryFields DEF EntriesAwaited
  <2>4. k # n
    BY <1>3, <2>3
  <2>5. PICK c \in stages[k][1] : c.to = m /\ c.delivered /\ c.task = queue[m][j].task
    BY <2>3 DEF Awaited
  <2>6. ~answers(k, c)
    <3>1. SUFFICES ASSUME head.reply = "call", k = p, m = n
                   PROVE  FALSE
      BY <2>5
    <3>2. queue[n][1].reply = "call" /\ queue[n][j].reply = "call"
          /\ queue[n][1].task.peer = queue[n][j].task.peer
      BY <1>2, <2>1, <2>2, <3>1 DEF p
    <3>3. j = 1
      BY <1>1, <1>2, <2>2, <3>1, <3>2 DEF OneEntry
    <3> QED
      BY <2>2, <3>1, <3>3
  <2> HIDE DEF answers
  <2>7. stages[k] # <<>> /\ stages'[k] # <<>> /\ c \in stages'[k][1]
    BY <1>8, <2>3, <2>4, <2>5, <2>6 DEF Awaited
  <2> QED
    BY <2>2, <2>5, <2>7 DEF AwaitedNext
<1>12. OneEntry'
  <2>1. SUFFICES ASSUME NEW m \in Node, NEW i \in 1..Len(queue'[m]), NEW j \in 1..Len(queue'[m]),
                        queue'[m][i].reply = "call", queue'[m][j].reply = "call",
                        queue'[m][i].task.peer = queue'[m][j].task.peer
                 PROVE  i = j
    BY DEF OneEntry
  <2>2. CASE m = n
    <3>1. /\ i + 1 \in 1..Len(queue[m]) /\ queue'[m][i] = queue[m][i + 1]
          /\ j + 1 \in 1..Len(queue[m]) /\ queue'[m][j] = queue[m][j + 1]
      BY <1>10, <2>1, <2>2
    <3>2. i + 1 = j + 1
      BY <1>1, <2>1, <3>1 DEF OneEntry
    <3> QED
      BY <3>2
  <2>3. CASE m # n
    <3>1. /\ i \in 1..Len(queue[m]) /\ queue'[m][i] = queue[m][i]
          /\ j \in 1..Len(queue[m]) /\ queue'[m][j] = queue[m][j]
      BY <1>10, <2>1, <2>3
    <3> QED
      BY <1>1, <2>1, <3>1 DEF OneEntry
  <2> QED
    BY <2>2, <2>3
\* A call that is still waited for is not the one that was just answered.
<1>13. DeliveredQueued'
  <2>1. SUFFICES ASSUME NEW k \in Node, stages'[k] # <<>>, NEW c \in stages'[k][1], c.delivered
                 PROVE  \E i \in 1..Len(queue'[c.to]) : queue'[c.to][i] = Entry(c.task, "call")
    BY DEF DeliveredQueued
  <2>2. k # n
    BY <1>7, <2>1
  <2>3. stages[k] # <<>> /\ c \in stages[k][1] /\ ~answers(k, c)
    <3> HIDE DEF answers
    <3> QED
      BY <1>8, <2>1, <2>2
  <2>4. c.to \in Node /\ c.task.peer = k
    BY <1>1, <2>3, CallFields
  <2>5. PICK j \in 1..Len(queue[c.to]) : queue[c.to][j] = Entry(c.task, "call")
    BY <1>1, <2>1, <2>3 DEF DeliveredQueued
  <2>6. ~(c.to = n /\ j = 1)
    <3>1. SUFFICES ASSUME c.to = n, j = 1
                   PROVE  FALSE
      OBVIOUS
    <3>2. head.reply = "call" /\ p = k
      BY <1>2, <2>4, <2>5, <3>1 DEF p, Entry
    <3> QED
      BY <2>1, <2>3, <3>1, <3>2
  <2>7. \E i \in 1..Len(queue'[c.to]) : queue'[c.to][i] = queue[c.to][j]
    BY <1>10, <2>4, <2>5, <2>6
  <2> QED
    BY <2>5, <2>7
<1>14. BusyQueued'
  <2>1. ASSUME NEW k \in Node, stages'[k] # <<>>
        PROVE  queue'[k] # <<>>
    <3>1. k # n /\ stages[k] # <<>>
      <4> HIDE DEF answers
      <4> QED
        BY <1>7, <1>8, <2>1
    <3>2. queue[k] # <<>>
      BY <3>1 DEF Exchange, BusyQueued
    <3>3. queue[k] \in Seq(QueueEntry) /\ 1 \in 1..Len(queue[k])
      BY <1>1, <3>2 DEF QueuesGood
    <3>4. \E i \in 1..Len(queue'[k]) : queue'[k][i] = queue[k][1]
      BY <1>10, <3>1, <3>3
    <3>5. queue'[k] \in Seq(QueueEntry) /\ Len(queue'[k]) > 0
      BY <1>10, <3>4
    <3> QED
      BY <3>5
  <2> QED
    BY <2>1 DEF BusyQueued
<1> QED
  BY <1>9, <1>10, <1>11, <1>12, <1>13, <1>14 DEF Exchange, QueuesGood

-----------------------------------------------------------------------------
(* Every step keeps the invariant. *)

LEMMA HeadOfQueue ==
  ASSUME QueuesGood, NEW n \in Node, queue[n] # <<>>
  PROVE  Head(queue[n]) \in QueueEntry /\ Head(queue[n]).task \in Task
<1>1. queue[n] \in Seq(QueueEntry)
  BY DEF QueuesGood
<1>2. Head(queue[n]) \in QueueEntry
  BY <1>1, TailEntries
<1> QED
  BY <1>2, EntryFields

\* A task whose calls go out, or whose next stage begins: nothing of it is sent.
LEMMA FreshExchange ==
  ASSUME Exchange, UNCHANGED queue, NEW n \in Node, queue[n] # <<>>,
         stages[n] = <<>> \/ stages[n][1] = {},
         NEW s \in GoodStages(n), s # <<>>, Unsent(s[1]),
         stages' = [stages EXCEPT ![n] = s]
  PROVE  Exchange'
<1>1. QueuesGood /\ StagesGood /\ EntriesAwaited /\ DeliveredQueued /\ OneEntry
  BY DEF Exchange
<1>2. /\ stages'[n] = s /\ \A k \in Node \ {n} : stages'[k] = stages[k]
      /\ stages' = [k \in Node |-> stages'[k]]
  BY <1>1 DEF StagesGood
<1>3. StagesGood'
  <2>1. s \in Seq(SUBSET AnyCall)
    BY DEF GoodStages, AnyCall
  <2> QED
    BY <1>1, <1>2, <2>1 DEF StagesGood
<1>4. EntriesAwaited'
  <2>1. SUFFICES ASSUME NEW m \in Node, NEW i \in 1..Len(queue[m]), queue[m][i].reply = "call"
                 PROVE  AwaitedNext(queue[m][i].task.peer, m, queue[m][i].task)
    BY DEF EntriesAwaited, Awaited, AwaitedNext
  <2>2. queue[m][i] \in QueueEntry
    BY <1>1 DEF QueuesGood
  <2>3. queue[m][i].task.peer \in Node /\ Awaited(queue[m][i].task.peer, m, queue[m][i].task)
    BY <1>1, <2>1, <2>2, EntryFields DEF EntriesAwaited
  <2> QED
    BY <1>2, <2>3 DEF Awaited, AwaitedNext
<1>5. DeliveredQueued'
  BY <1>1, <1>2 DEF DeliveredQueued, Unsent
<1>6. BusyQueued'
  BY <1>2 DEF Exchange, BusyQueued
<1> QED
  BY <1>1, <1>3, <1>4, <1>5, <1>6 DEF Exchange, QueuesGood, OneEntry

LEMMA StartExchange ==
  ASSUME TablesGood, Exchange, NEW n \in Node, Start(n)
  PROVE  Exchange' /\ GoodTable(n, Plan(n, table[n], Head(queue[n]).task, Clock).table)
<1> DEFINE task  == Head(queue[n]).task
           plan  == Plan(n, table[n], task, Clock)
           calls == Notify(n, task, plan)
<1>1. /\ queue[n] # <<>> /\ stages[n] = <<>>
      /\ IF calls = <<>> THEN End(n, plan.changed)
         ELSE stages' = [stages EXCEPT ![n] = calls] /\ UNCHANGED queue
  BY DEF Start, Busy
<1>2. GoodTable(n, table[n]) /\ task \in Task
  BY <1>1, HeadOfQueue DEF TablesGood, Exchange
<1> HIDE DEF task
<1>3. GoodPlan(n, table[n], plan)
  BY <1>2, TaskGood
<1> HIDE DEF plan
<1>4. GoodTable(n, plan.table)
  BY <1>3 DEF GoodPlan, SoundPlan, GoodTable
<1>5. calls \in GoodStages(n) /\ \A k \in 1..Len(calls) : Unsent(calls[k])
  BY <1>2, <1>3, NotifyGood
<1> HIDE DEF calls
<1>6. Exchange'
  <2>1. CASE calls = <<>>
    BY <1>1, <2>1, EndExchange
  <2>2. CASE calls # <<>>
    <3>1. 1 \in 1..Len(calls)
      BY <1>5, <2>2 DEF GoodStages
    <3> QED
      BY <1>1, <1>5, <2>2, <3>1, FreshExchange
  <2> QED
    BY <2>1, <2>2
<1> QED
  BY <1>4, <1>6 DEF plan, task

LEMMA AdvanceExchange ==
  ASSUME Exchange, NEW n \in Node, Advance(n)
  PROVE  Exchange'
<1>1. stages[n] # <<>> /\ queue[n] # <<>> /\ Head(stages[n]) = {} /\ StagesGood
  BY DEF Advance, Busy, Exchange, BusyQueued
<1>2. stages[n][1] = {} /\ stages[n] \in GoodStages(n)
  BY <1>1, CallFields DEF StagesGood
<1>3. CASE Len(stages[n]) > 1
  <2> DEFINE s == Tail(stages[n])
  <2>1. stages[n] \in Seq(SUBSET Calls(n))
    BY <1>2 DEF GoodStages
  <2>2. /\ s \in Seq(SUBSET Calls(n)) /\ Len(s) = Len(stages[n]) - 1 /\ Len(s) > 0
        /\ \A k \in 1..Len(s) : s[k] = stages[n][k + 1] /\ k + 1 \in 1..Len(stages[n]) /\ k + 1 > 1
    BY <1>1, <1>3, <2>1
  <2>3. stages' = [stages EXCEPT ![n] = s] /\ UNCHANGED queue
    BY <1>3 DEF Advance
  <2> HIDE DEF s
  <2>4. s \in GoodStages(n) /\ s # <<>> /\ Unsent(s[1])
    BY <1>2, <2>2 DEF GoodStages
  <2> QED
    BY <1>1, <1>2, <2>3, <2>4, FreshExchange
<1>4. CASE ~(Len(stages[n]) > 1)
  BY <1>1, <1>2, <1>4, EndExchange DEF Advance
<1> QED
  BY <1>3, <1>4

\* The counters: dials and reconnect timers change one by one.
LEMMA EndCounters ==
  ASSUME CountersGood, QueuesGood, NEW n \in Node, queue[n] # <<>>, NEW changed,
         End(n, changed)
  PROVE  dials' \in [Node -> [Node -> Nat]] /\ timer' \in [Node -> [Node -> 0..1]]
<1> DEFINE head == Head(queue[n])
           task == head.task
<1>1. head \in QueueEntry /\ task \in Task
  BY HeadOfQueue
<1>2. dials \in [Node -> [Node -> Nat]] /\ timer \in [Node -> [Node -> 0..1]]
  BY DEF CountersGood
<1>3. head.reply = "dial" => task.peer \in Node
  BY <1>1, EntryFields
<1>4. task.type = "LocalPeerCreate" => task.peer \in Node
  BY <1>1, TaskFields
<1>5. /\ IF head.reply = "dial" /\ ~changed THEN scheduleReconnect(task.peer, n)
         ELSE UNCHANGED timer
      /\ DialCreated(n, task, changed)
  BY DEF End
<1> HIDE DEF head, task
<1>6. timer' \in [Node -> [Node -> 0..1]]
  <2>1. CASE head.reply = "dial" /\ ~changed
    <3> DEFINE p == task.peer
    <3>1. p \in Node /\ timer' = [timer EXCEPT ![p][n] = IF @ = 0 THEN 1 ELSE @]
      BY <1>3, <1>5, <2>1 DEF scheduleReconnect
    <3> HIDE DEF p
    <3>2. (IF timer[p][n] = 0 THEN 1 ELSE timer[p][n]) \in 0..1
      BY <1>2, <3>1
    <3> QED
      BY <1>2, <3>1, <3>2
  <2>2. CASE ~(head.reply = "dial" /\ ~changed)
    BY <1>2, <1>5, <2>2
  <2> QED
    BY <2>1, <2>2
<1>7. dials' \in [Node -> [Node -> Nat]]
  BY <1>2, <1>4, <1>5 DEF DialCreated
<1> QED
  BY <1>6, <1>7

LEMMA InitFleet ==
  ASSUME Init
  PROVE  FleetInv
<1>1. \A n \in Node : EstablishedTable(n) \in Table /\ EstablishedTable(n).routes = {}
  <2>1. Conf \in Info
    BY InfoAssumption DEF Conf
  <2>2. DefaultHold \in Nat /\ Clock \in Nat
    BY HoldAssumption DEF Clock
  <2>3. /\ [status |-> "connected", info |-> Conf, hold |-> DefaultHold,
            lastReceived |-> Clock] \in PeerRecord
        /\ AbsentPeer \in PeerRecord
    BY <2>1, <2>2 DEF PeerRecord, Status, AbsentPeer
  <2> QED
    BY <2>3 DEF EstablishedTable, newRouteTable, Table
<1>2. table \in [Node -> Table] /\ TablesGood
  BY <1>1 DEF Init, TablesGood, GoodTable, SoundTable, UniqueIn, LoopFreeIn,
     StaleOwnedIn, WalksIn
<1>3. CountersGood
  BY FleetBounds DEF Init, CountersGood
<1>4. <<>> \in Seq(QueueEntry) /\ <<>> \in Seq(SUBSET AnyCall)
      /\ \A n \in Node : <<>> \in GoodStages(n)
  BY DEF GoodStages
<1>5. Exchange
  BY <1>4 DEF Init, Exchange, QueuesGood, StagesGood, EntriesAwaited, DeliveredQueued,
     OneEntry, BusyQueued
<1> QED
  BY <1>2, <1>3, <1>5 DEF FleetInv

LEMMA StartFleet ==
  ASSUME FleetInv, NEW n \in Node, Start(n)
  PROVE  FleetInv'
<1> DEFINE t == Plan(n, table[n], Head(queue[n]).task, Clock).table
<1>1. Exchange' /\ GoodTable(n, t)
  BY StartExchange DEF FleetInv
<1>2. table \in [Node -> Table] /\ TablesGood /\ CountersGood /\ QueuesGood
  BY DEF FleetInv, Exchange
<1>3. table' = [table EXCEPT ![n] = t] /\ UNCHANGED <<commands, failures>>
  BY DEF Start
<1>4. queue[n] # <<>> /\ (UNCHANGED <<dials, timer>> \/ \E b : End(n, b))
  BY DEF Start
<1> HIDE DEF t
<1>5. table' \in [Node -> Table] /\ TablesGood'
  <2>1. t \in Table
    BY <1>1 DEF GoodTable, SoundTable
  <2> QED
    BY <1>1, <1>2, <1>3, <2>1 DEF TablesGood
<1>6. CountersGood'
  BY <1>2, <1>3, <1>4, EndCounters DEF CountersGood
<1> QED
  BY <1>1, <1>5, <1>6 DEF FleetInv

LEMMA StepFleet ==
  ASSUME FleetInv, [Next]_vars
  PROVE  FleetInv'
<1>1. /\ table \in [Node -> Table] /\ TablesGood /\ CountersGood /\ Exchange /\ QueuesGood
      /\ dials \in [Node -> [Node -> Nat]] /\ timer \in [Node -> [Node -> 0..1]]
      /\ commands \in 0..MaxCommands /\ failures \in 0..MaxFailures
  BY DEF FleetInv, Exchange, CountersGood
<1>2. ASSUME UNCHANGED table
      PROVE  table' \in [Node -> Table] /\ TablesGood'
  BY <1>1, <1>2 DEF TablesGood
<1>3. ASSUME NEW c \in Command, Issue(c)
      PROVE  FleetInv'
  <2>1. c.at \in Node /\ Entry(c.task, "none") \in QueueEntry
        /\ Entry(c.task, "none").reply # "call"
    <3>1. c.at \in Node /\ c.task \in Task
      BY CommandAssumption DEF Task
    <3> QED
      BY <3>1 DEF QueueEntry, Entry
  <2>2. Exchange'
    BY <1>1, <1>3, <2>1, AppendExchange DEF Issue
  <2>3. CountersGood'
    BY <1>1, <1>3, FleetBounds DEF Issue, CountersGood
  <2> QED
    BY <1>2, <1>3, <2>2, <2>3 DEF Issue, FleetInv
<1>4. ASSUME NEW n \in Node, Start(n)
      PROVE  FleetInv'
  BY <1>4, StartFleet
<1>5. ASSUME NEW n \in Node, Deliver(n)
      PROVE  FleetInv'
  <2>1. Exchange'
    BY <1>1, <1>5, DeliverExchange
  <2>2. UNCHANGED <<table, dials, timer, commands, failures>>
    BY <1>5 DEF Deliver
  <2> QED
    BY <1>1, <1>2, <2>1, <2>2 DEF FleetInv, CountersGood
<1>6. ASSUME NEW n \in Node, Advance(n)
      PROVE  FleetInv'
  <2>1. Exchange'
    BY <1>1, <1>6, AdvanceExchange
  <2>2. /\ UNCHANGED <<table, commands, failures>>
        /\ UNCHANGED <<dials, timer>> \/ \E b : End(n, b)
        /\ queue[n] # <<>>
    BY <1>1, <1>6 DEF Advance, Busy, Exchange, BusyQueued
  <2>3. CountersGood'
    BY <1>1, <2>2, EndCounters DEF CountersGood
  <2> QED
    BY <1>2, <2>1, <2>2, <2>3 DEF FleetInv
<1>7. ASSUME NEW n \in Node, Fail(n)
      PROVE  FleetInv'
  <2>1. Exchange'
    BY <1>1, <1>7, FailExchange
  <2>2. /\ UNCHANGED <<table, dials, timer, commands>>
        /\ failures < MaxFailures /\ failures' = failures + 1
    BY <1>7 DEF Fail
  <2>3. CountersGood'
    BY <1>1, <2>2, FleetBounds DEF CountersGood
  <2> QED
    BY <1>2, <2>1, <2>2, <2>3 DEF FleetInv
<1>8. ASSUME NEW n \in Node, NEW m \in Node, Dial(n, m)
      PROVE  FleetInv'
  <2>1. Entry(Open(n, DefaultHold), "dial") \in QueueEntry
        /\ Entry(Open(n, DefaultHold), "dial").reply # "call"
    BY DEF QueueEntry, Entry
  <2>2. Exchange'
    BY <1>1, <1>8, <2>1, AppendExchange DEF Dial
  <2>3. CountersGood'
    BY <1>1, <1>8 DEF Dial, CountersGood
  <2> QED
    BY <1>2, <1>8, <2>2, <2>3 DEF Dial, FleetInv
<1>9. ASSUME UNCHANGED <<queue, stages>>
      PROVE  Exchange'
  BY <1>1, <1>9 DEF Exchange, QueuesGood, StagesGood, EntriesAwaited, DeliveredQueued,
     OneEntry, BusyQueued, Awaited
<1>10. ASSUME NEW n \in Node, NEW m \in Node, DialFails(n, m)
       PROVE  FleetInv'
  <2>1. CountersGood'
    BY <1>1, <1>10, FleetBounds DEF DialFails, scheduleReconnect, CountersGood
  <2> QED
    BY <1>2, <1>9, <1>10, <2>1 DEF DialFails, FleetInv
<1>11. ASSUME NEW n \in Node, NEW m \in Node, Redial(n, m)
       PROVE  FleetInv'
  <2>1. CountersGood'
    BY <1>1, <1>11 DEF Redial, CountersGood
  <2> QED
    BY <1>2, <1>9, <1>11, <2>1 DEF Redial, FleetInv
<1>12. CASE UNCHANGED vars
  BY <1>1, <1>2, <1>9, <1>12 DEF vars, FleetInv, CountersGood
<1> QED
  BY <1>3, <1>4, <1>5, <1>6, <1>7, <1>8, <1>10, <1>11, <1>12 DEF Next

-----------------------------------------------------------------------------
(* Theorems. *)

LEMMA FleetInvariant == Spec => []FleetInv
<1>1. Init => FleetInv
  BY InitFleet
<1>2. FleetInv /\ [Next]_vars => FleetInv'
  BY StepFleet
<1> QED
  BY <1>1, <1>2, PTL DEF Spec

LEMMA FlightFields ==
  ASSUME StagesGood, NEW c \in InFlight
  PROVE  \E n \in Node : \E d \in Calls(n) : c = [from |-> n, to |-> d.to, task |-> d.task]
<1>1. PICK n \in Node : c \in {[from |-> n, to |-> d.to, task |-> d.task] :
                               d \in UNION {stages[n][i] : i \in DOMAIN stages[n]}}
  BY DEF InFlight
<1>2. PICK i \in DOMAIN stages[n], d \in UNION {stages[n][k] : k \in DOMAIN stages[n]} :
        d \in stages[n][i] /\ c = [from |-> n, to |-> d.to, task |-> d.task]
  BY <1>1
<1>3. stages[n] \in Seq(SUBSET Calls(n))
  BY DEF StagesGood, GoodStages
<1>4. stages[n][i] \subseteq Calls(n)
  BY <1>3
<1> QED
  BY <1>2, <1>4

\* For any nodes, links, commands and bounds, the state is well typed, and no
\* node ever has two reconnect timers for a peer (reconnect.ts).
THEOREM TypeCorrect == Spec => []TypeOK
<1>1. FleetInv => TypeOK
  <2>1. SUFFICES ASSUME FleetInv
                 PROVE  TypeOK
    OBVIOUS
  <2>2. QueuesGood /\ StagesGood /\ CountersGood /\ table \in [Node -> Table]
    BY <2>1 DEF FleetInv, Exchange
  <2>3. ASSUME NEW n \in Node, NEW i \in DOMAIN queue[n]
        PROVE  queue[n][i].reply \in {"none", "call", "dial"}
    <3>1. queue[n][i] \in QueueEntry
      BY <2>2 DEF QueuesGood
    <3> QED
      BY <3>1, EntryFields
  <2>4. ASSUME NEW c \in InFlight
        PROVE  c.to \in Node
    BY <2>2, FlightFields DEF Calls
  <2> QED
    BY <2>2, <2>3, <2>4 DEF TypeOK, CountersGood
<1> QED
  BY <1>1, FleetInvariant, PTL

\* For any nodes, links, commands and bounds: a path a node holds leads from the
\* peer that sent it to the origin, without this node and without repetition,
\* whatever updates were lost, delayed or crossed on the way (rib.ts
\* planInternalProtocolUpdate, bus.ts buildUpdatesForPeer and syncRoutesToPeer).
THEOREM PathsStayWalks == Spec => []PathsAreWalks
<1>1. FleetInv => PathsAreWalks
  <2>1. SUFFICES ASSUME FleetInv, NEW n \in Node, NEW r \in table[n].routes
                 PROVE  /\ r.path[1] = r.peer
                        /\ r.path[Len(r.path)] = r.origin
                        /\ \A i, j \in DOMAIN r.path : r.path[i] = r.path[j] => i = j
                        /\ ~Crosses(n, r.path)
    BY DEF PathsAreWalks
  <2>2. table[n] \in Table /\ WalksIn(table[n].routes) /\ LoopFreeIn(n, table[n].routes)
    BY <2>1 DEF FleetInv, TablesGood, GoodTable, SoundTable
  <2>3. Walk(r.peer, r) /\ ~Crosses(n, r.path) /\ r.path \in Seq(Node)
    BY <2>1, <2>2 DEF WalksIn, LoopFreeIn, Table, InternalRoute
  <2> QED
    BY <2>3 DEF Walk
<1> QED
  BY <1>1, FleetInvariant, PTL

\* For any nodes, links, commands and bounds: a delivered call that its caller
\* still waits for has exactly one entry in its target's queue, and no other
\* entry has a caller: no answer is lost, none is given twice (action-queue.ts,
\* rpc.ts).
THEOREM AnswersMatchCalls == Spec => []CallsMatched
<1>1. FleetInv => CallsMatched
  <2>1. SUFFICES ASSUME FleetInv, NEW n \in Node, NEW m \in Node
                 PROVE  Cardinality({i \in CallsAt(n, m) : queue[m][i].reply = "call"}) =
                        Cardinality({c \in IF Busy(n) THEN Head(stages[n]) ELSE {} :
                                       c.to = m /\ c.delivered})
    BY DEF CallsMatched
  <2> DEFINE waiting == {i \in CallsAt(n, m) : queue[m][i].reply = "call"}
             sent == {c \in IF Busy(n) THEN Head(stages[n]) ELSE {} : c.to = m /\ c.delivered}
  <2>2. QueuesGood /\ StagesGood /\ EntriesAwaited /\ DeliveredQueued /\ OneEntry
    BY <2>1 DEF FleetInv, Exchange
  <2>3. queue[m] \in Seq(QueueEntry) /\ DOMAIN queue[m] = 1..Len(queue[m])
    BY <2>2 DEF QueuesGood
  <2>4. ASSUME NEW i
        PROVE  i \in waiting <=> /\ i \in 1..Len(queue[m]) /\ queue[m][i].reply = "call"
                                 /\ queue[m][i].task.peer = n
    BY <2>3, EntryFields, CallTaskFields DEF CallsAt
  <2>5. ASSUME NEW c
        PROVE  c \in sent <=> stages[n] # <<>> /\ c \in stages[n][1] /\ c.to = m /\ c.delivered
    BY <2>2, CallFields DEF Busy
  <2> HIDE DEF waiting, sent
  <2>6. ASSUME NEW i \in waiting
        PROVE  sent # {}
    BY <2>2, <2>4, <2>5 DEF EntriesAwaited, Awaited
  <2>7. ASSUME NEW c \in sent
        PROVE  waiting # {}
    <3>1. PICK i \in 1..Len(queue[m]) : queue[m][i] = Entry(c.task, "call")
      BY <2>2, <2>5 DEF DeliveredQueued
    <3>2. c.task.peer = n
      BY <2>2, <2>5, CallFields
    <3> QED
      BY <2>4, <3>1, <3>2 DEF Entry
  <2>8. \A i, j \in waiting : i = j
    BY <2>2, <2>4 DEF OneEntry
  <2>9. \A c, d \in sent : c = d
    BY <2>2, <2>5, CallFields DEF OnePerTarget
  <2>10. CASE waiting = {}
    BY <2>7, <2>10 DEF waiting, sent
  <2>11. CASE waiting # {}
    <3>1. PICK i \in waiting, c \in sent : TRUE
      BY <2>6, <2>11
    <3>2. waiting = {i} /\ sent = {c}
      BY <2>8, <2>9, <3>1
    <3>3. Cardinality(waiting) = 1 /\ Cardinality(sent) = 1
      BY <3>2, FS_Singleton
    <3> QED
      BY <3>3 DEF waiting, sent
  <2> QED
    BY <2>10, <2>11
<1> QED
  BY <1>1, FleetInvariant, PTL

\* For any nodes, links, commands and bounds: an update that one node sends
\* another carries no service twice, and every path in it leads from the sender
\* to the origin without a repetition.  What Rib takes for granted of the
\* updates it receives, and UpdateLoop of their items, holds of all that the
\* code sends (bus.ts buildUpdatesForPeer, syncRoutesToPeer).
UpdatesAreKeyedWalks ==
  \A c \in InFlight : c.task.type = "InternalProtocolUpdate" =>
    c.task.items \in Sendable(c.from)
THEOREM SentUpdatesAreSound == Spec => []UpdatesAreKeyedWalks
<1>1. FleetInv => UpdatesAreKeyedWalks
  <2>1. SUFFICES ASSUME FleetInv, NEW c \in InFlight, c.task.type = "InternalProtocolUpdate"
                 PROVE  c.task.items \in Sendable(c.from)
    BY DEF UpdatesAreKeyedWalks
  <2>2. PICK n \in Node : \E d \in Calls(n) : c = [from |-> n, to |-> d.to, task |-> d.task]
    BY <2>1, FlightFields DEF FleetInv, Exchange
  <2>3. c.task \in CallTask(n) /\ c.from = n
    BY <2>2 DEF Calls
  <2>4. PICK items \in Sendable(n) : c.task = Update(n, items)
    BY <2>1, <2>3 DEF CallTask, Keepalive, Close
  <2> QED
    BY <2>3, <2>4 DEF Update
<1> QED
  BY <1>1, FleetInvariant, PTL

-----------------------------------------------------------------------------
(***************************************************************************)
(* Settled fleets.                                                         *)
(*                                                                         *)
(* As long as no call fails and no peer is created or deleted, all that    *)
(* matters of a fleet is its tables t, the calls s[n] under way of every   *)
(* node, and the task r[n] it runs.  A service's news spreads in a wave:   *)
(* a node that runs an update holds up the node that sent it, so the nodes *)
(* that run updates about services of o lead back to o, which does nothing *)
(* else meanwhile.                                                         *)
(***************************************************************************)

\* No session begins or ends.
FixedPeers == \A c \in Command : c.task.type \notin {"LocalPeerCreate", "LocalPeerDelete"}

Nothing == [type |-> "nothing"]
IsUpdate(task) == task.type = "InternalProtocolUpdate"
IsCall(task) == task.type \in {"InternalProtocolUpdate", "InternalProtocolKeepalive"}
ItemsOf(task) == IF IsUpdate(task) THEN task.items ELSE {}
Flight(to, task) == [to |-> to, task |-> task]

Offered(t, key) == t[key.origin].local[key.name] # NoRoute
Has(t, n, key) == \E w \in t[n].routes : SameKey(w, key)

\* The calls from n to m that m has not run yet.
Unrun(s, r, n, m) == {f \in s[n] : f.to = m /\ r[m] # f.task}

Orderly(t, s, r) ==
  /\ \A n \in Node : /\ GoodTable(n, t[n])
                     /\ \A w \in t[n].routes : ~w.stale /\ <<n, w.peer>> \in Linked
  /\ \A n \in Node : s[n] # {} => r[n] # Nothing
  /\ \A n \in Node : \A f \in s[n] :
       /\ <<n, f.to>> \in Linked /\ f = Flight(f.to, f.task)
       /\ f.task \in CallTask(n) /\ IsCall(f.task) /\ f.task.peer = n
  /\ \A n \in Node : \A f, g \in s[n] : f.to = g.to => f = g
  /\ \A n \in Node : IsCall(r[n]) =>
       r[n].peer \in Node /\ Flight(n, r[n]) \in s[r[n].peer]

\* Nodes do not hold each other up in a circle.
Acyclic(r) ==
  \A W \in (SUBSET Node) \ {{}} : \E m \in W : ~(IsCall(r[m]) /\ r[m].peer \in W)

\* What a node sends is about its own services or what it was told itself.
Rooted(s, r) ==
  \A n \in Node : \A f \in s[n] : \A i \in ItemsOf(f.task) :
    i.origin = n \/ \E j \in ItemsOf(r[n]) : j.origin = i.origin

\* An item adds a service that is offered or removes one that is not.
Truthful(t, s) ==
  \A n \in Node : \A f \in s[n] : \A i \in ItemsOf(f.task) :
    i.action = "add" <=> Offered(t, i)

\* What a node tells it holds, and it does not tell a node its own path.
Held(t, s) ==
  \A n \in Node : \A f \in s[n] : \A i \in ItemsOf(f.task) : i.action = "add" =>
    /\ f.to # n => ~Crosses(f.to, i.path)
    /\ \/ i.origin = n /\ i.path = <<n>>
       \/ \E q \in t[n].routes : SameKey(q, i) /\ i.path = <<n>> \o q.path

\* The nodes on the path to a service have paths that are at least as short.
Shrinking(t) ==
  \A n \in Node : \A w \in t[n].routes : Offered(t, w) =>
    \A j \in 1..(Len(w.path) - 1) :
      \E q \in t[w.path[j]].routes : SameKey(q, w) /\ Len(q.path) <= Len(w.path) - j

\* The next node on a path holds the rest of it, or will take it back or replace it.
Carried(t, w) ==
  IF Len(w.path) = 1 THEN Offered(t, w)
  ELSE \E q \in t[w.peer].routes : SameKey(q, w) /\ q.path = Tail(w.path)
Doomed(s, r, n, w) ==
  \E f \in Unrun(s, r, w.peer, n) : \E i \in ItemsOf(f.task) :
    SameKey(w, i) /\ (i.action = "remove" \/ Len(i.path) < Len(w.path))
Supported(t, s, r) ==
  \A n \in Node : \A w \in t[n].routes : Carried(t, w) \/ Doomed(s, r, n, w)

\* Who has a path tells its peers, but for those on it.
Tells(t, n, m, key) ==
  n = key.origin \/ \E w \in t[n].routes : SameKey(w, key) /\ ~Crosses(m, w.path)
Coming(s, r, n, m, key) ==
  \E f \in Unrun(s, r, n, m) : \E i \in ItemsOf(f.task) : SameKey(i, key) /\ i.action = "add"
Key == [name : Name, origin : Node]
Spread(t, s, r) ==
  \A n, m \in Node : \A key \in Key :
    <<n, m>> \in Linked /\ Offered(t, key) /\ Tells(t, n, m, key) =>
      Has(t, m, key) \/ Coming(s, r, n, m, key)

Wave(t, s, r) ==
  /\ Orderly(t, s, r) /\ Acyclic(r) /\ Rooted(s, r) /\ Truthful(t, s)
  /\ Held(t, s) /\ Shrinking(t) /\ Supported(t, s, r) /\ Spread(t, s, r)

-----------------------------------------------------------------------------
(* Services of an idle node. *)

LEMMA KindsOfTasks ==
  /\ ~IsCall(Nothing) /\ ItemsOf(Nothing) = {}
  /\ \A task : IsUpdate(task) => IsCall(task)
  /\ \A task : ~IsCall(task) => ItemsOf(task) = {}
  /\ \A p : ItemsOf(Keepalive(p)) = {}
  /\ \A p, items : ItemsOf(Update(p, items)) = items /\ IsUpdate(Update(p, items))
BY DEF Nothing, IsCall, IsUpdate, ItemsOf, Keepalive, Update

\* A node that does nothing is not in the news.
LEMMA IdleIsQuiet ==
  ASSUME NEW t, NEW s, NEW r, Orderly(t, s, r), Acyclic(r), Rooted(s, r),
         NEW o \in Node, r[o] = Nothing
  PROVE  \A n \in Node : \A f \in s[n] : \A i \in ItemsOf(f.task) : i.origin # o
<1> DEFINE W == {n \in Node : \E f \in s[n] : \E i \in ItemsOf(f.task) : i.origin = o}
<1> SUFFICES ASSUME W # {} PROVE FALSE
  OBVIOUS
<1>1. PICK n \in W : ~(IsCall(r[n]) /\ r[n].peer \in W)
  BY DEF Acyclic
<1>2. PICK f \in s[n] : \E i \in ItemsOf(f.task) : i.origin = o
  OBVIOUS
<1>3. s[o] = {} /\ n # o
  BY <1>2 DEF Orderly
<1>4. PICK j \in ItemsOf(r[n]) : j.origin = o
  BY <1>2, <1>3 DEF Rooted
<1>5. IsCall(r[n]) /\ r[n].peer \in Node /\ Flight(n, r[n]) \in s[r[n].peer]
  BY <1>4, KindsOfTasks DEF Orderly
<1>6. Flight(n, r[n]).task = r[n]
  BY DEF Flight
<1>7. r[n].peer \in W
  BY <1>4, <1>5, <1>6
<1> QED
  BY <1>1, <1>5, <1>7

LEMMA RouteFields ==
  ASSUME NEW n, NEW t, GoodTable(n, t), NEW w \in t.routes
  PROVE  /\ w \in InternalRoute /\ w.path \in Seq(Node) /\ Len(w.path) \in Nat \ {0}
         /\ w.peer \in Node /\ w.origin \in Node /\ w.name \in Name
         /\ w.path[1] = w.peer /\ w.path[Len(w.path)] = w.origin /\ ~Crosses(n, w.path)
         /\ \A q \in t.routes : SameKey(q, w) => q = w
<1>1. w \in InternalRoute /\ Walk(w.peer, w) /\ ~Crosses(n, w.path) /\ UniqueIn(t.routes)
  BY DEF GoodTable, SoundTable, Table, WalksIn, LoopFreeIn
<1> QED
  BY <1>1 DEF InternalRoute, Walk, UniqueIn

\* If it does not offer a service, nobody has a path to it.
LEMMA NoZombies ==
  ASSUME NEW t, NEW s, NEW r, Wave(t, s, r), NEW o \in Node, r[o] = Nothing,
         NEW x, t[o].local[x] = NoRoute
  PROVE  \A n \in Node : \A w \in t[n].routes : ~(w.name = x /\ w.origin = o)
<1> DEFINE About(w) == w.name = x /\ w.origin = o
           T == {k \in Nat : \A n \in Node : \A w \in t[n].routes : About(w) => Len(w.path) # k}
<1>1. Orderly(t, s, r) /\ Supported(t, s, r)
  BY DEF Wave
<1>2. \A n \in Node : \A f \in s[n] : \A i \in ItemsOf(f.task) : i.origin # o
  BY IdleIsQuiet DEF Wave
<1>3. ASSUME NEW n \in Node, NEW w \in t[n].routes, About(w)
      PROVE  /\ Len(w.path) \in Nat \ {0} /\ Len(w.path) # 1
             /\ \E m \in Node : \E q \in t[m].routes : About(q) /\ Len(q.path) = Len(w.path) - 1
  <2>1. GoodTable(n, t[n])
    BY <1>1 DEF Orderly
  <2>2. w.path \in Seq(Node) /\ Len(w.path) \in Nat \ {0} /\ w.peer \in Node
    BY <2>1, RouteFields
  <2>3. ~Doomed(s, r, n, w)
    BY <1>2, <1>3, <2>2 DEF Doomed, Unrun, SameKey
  <2>4. Carried(t, w)
    BY <1>1, <2>3 DEF Supported
  <2>5. Len(w.path) # 1
    BY <1>3, <2>4 DEF Carried, Offered
  <2>6. PICK q \in t[w.peer].routes : SameKey(q, w) /\ q.path = Tail(w.path)
    BY <2>4, <2>5 DEF Carried
  <2>7. Len(q.path) = Len(w.path) - 1 /\ About(q)
    BY <1>3, <2>2, <2>5, <2>6 DEF SameKey
  <2> QED
    BY <2>2, <2>5, <2>7
<1>4. 0 \in T
  BY <1>3
<1>5. ASSUME NEW k \in Nat, k \in T
      PROVE  k + 1 \in T
  <2>1. ASSUME NEW n \in Node, NEW w \in t[n].routes, About(w), Len(w.path) = k + 1
        PROVE  FALSE
    BY <1>3, <1>5, <2>1
  <2> QED
    BY <2>1
<1>6. Nat \subseteq T
  <2> HIDE DEF T
  <2> QED
    BY <1>4, <1>5, NatSetInduction
<1> QED
  BY <1>3, <1>6

-----------------------------------------------------------------------------
(* The end of a task. *)

\* The calls between two nodes when n goes on to do nothing and its caller has
\* its answer.
Finished(s, r, n, s2, r2) ==
  /\ r[n] # Nothing /\ s[n] = {}
  /\ r2[n] = Nothing /\ \A m \in Node \ {n} : r2[m] = r[m]
  /\ \A m \in Node : s2[m] = {f \in s[m] : ~(IsCall(r[n]) /\ m = r[n].peer /\ f.to = n)}

LEMMA FinishUnrun ==
  ASSUME NEW t, NEW s, NEW r, Orderly(t, s, r), NEW n \in Node, NEW s2, NEW r2,
         Finished(s, r, n, s2, r2), NEW k \in Node, NEW m \in Node
  PROVE  Unrun(s2, r2, k, m) = Unrun(s, r, k, m)
<1>1. ASSUME NEW f \in s[k]
      PROVE  f = Flight(f.to, f.task) /\ IsCall(f.task) /\ f.task.peer = k
  BY DEF Orderly
<1>2. CASE m # n
  BY <1>2 DEF Finished, Unrun
<1>3. CASE m = n /\ ~(IsCall(r[n]) /\ r[n].peer = k)
  <2>1. s2[k] = s[k] /\ r2[n] = Nothing
    BY <1>3 DEF Finished
  <2>2. \A f \in s[k] : r[n] # f.task /\ Nothing # f.task
    BY <1>1, <1>3, KindsOfTasks
  <2> QED
    BY <1>3, <2>1, <2>2 DEF Unrun
<1>4. CASE m = n /\ IsCall(r[n]) /\ r[n].peer = k
  <2>1. Flight(n, r[n]) \in s[k]
    BY <1>4 DEF Orderly
  <2>2. \A f \in s[k] : f.to = n => f = Flight(n, r[n])
    BY <2>1 DEF Orderly, Flight
  <2>3. Unrun(s, r, k, n) = {}
    BY <2>2 DEF Unrun, Flight
  <2>4. Unrun(s2, r2, k, n) = {}
    BY <1>4 DEF Unrun, Finished
  <2> QED
    BY <1>4, <2>3, <2>4
<1> QED
  BY <1>2, <1>3, <1>4

LEMMA FinishKeeps ==
  ASSUME NEW t, NEW s, NEW r, Wave(t, s, r), NEW n \in Node, NEW s2, NEW r2,
         Finished(s, r, n, s2, r2)
  PROVE  Wave(t, s2, r2)
<1>1. Orderly(t, s, r)
  BY DEF Wave
<1>2. \A m \in Node : s2[m] \subseteq s[m]
  BY DEF Finished
<1>3. Orderly(t, s2, r2)
  <2>1. \A m \in Node : s2[m] # {} => r2[m] # Nothing
    BY <1>1, <1>2 DEF Orderly, Finished
  <2>2. ASSUME NEW m \in Node, IsCall(r2[m])
        PROVE  r2[m].peer \in Node /\ Flight(m, r2[m]) \in s2[r2[m].peer]
    <3>1. m # n /\ r2[m] = r[m]
      BY <2>2, KindsOfTasks DEF Finished
    <3>2. r[m].peer \in Node /\ Flight(m, r[m]) \in s[r[m].peer]
      BY <1>1, <2>2, <3>1 DEF Orderly
    <3>3. Flight(m, r[m]).to # n
      BY <3>1 DEF Flight
    <3> QED
      BY <3>1, <3>2, <3>3 DEF Finished
  <2> QED
    BY <1>1, <1>2, <2>1, <2>2 DEF Orderly
<1>4. Acyclic(r2)
  <2>1. ASSUME NEW W \in (SUBSET Node) \ {{}}
        PROVE  \E m \in W : ~(IsCall(r2[m]) /\ r2[m].peer \in W)
    <3>1. PICK m \in W : ~(IsCall(r[m]) /\ r[m].peer \in W)
      BY DEF Wave, Acyclic
    <3> QED
      BY <3>1, KindsOfTasks DEF Finished
  <2> QED
    BY <2>1 DEF Acyclic
<1>5. Rooted(s2, r2)
  BY <1>2 DEF Wave, Rooted, Finished
<1>6. Truthful(t, s2) /\ Held(t, s2) /\ Shrinking(t)
  BY <1>2 DEF Wave, Truthful, Held
<1>7. Supported(t, s2, r2)
  <2>1. ASSUME NEW m \in Node, NEW w \in t[m].routes
        PROVE  Doomed(s, r, m, w) => Doomed(s2, r2, m, w)
    <3>1. w.peer \in Node
      BY <1>1, RouteFields DEF Orderly
    <3> QED
      BY <1>1, <3>1, FinishUnrun DEF Doomed
  <2> QED
    BY <2>1 DEF Wave, Supported
<1>8. Spread(t, s2, r2)
  BY <1>1, FinishUnrun DEF Wave, Spread, Coming
<1> QED
  BY <1>3, <1>4, <1>5, <1>6, <1>7, <1>8 DEF Wave

-----------------------------------------------------------------------------
(* The beginning of a task. *)

\* The calls of n as they have to be.
OrderlyCalls(n, calls) ==
  /\ \A f \in calls :
       /\ <<n, f.to>> \in Linked /\ f = Flight(f.to, f.task)
       /\ f.task \in CallTask(n) /\ IsCall(f.task) /\ f.task.peer = n
  /\ \A f, g \in calls : f.to = g.to => f = g

\* An idle node n begins task; if that came by a call, its caller waits for it.
Begun(t, s, r, n, task, t2, s2, r2) ==
  /\ r[n] = Nothing /\ task # Nothing
  /\ \A m \in Node \ {n} : t2[m] = t[m] /\ s2[m] = s[m] /\ r2[m] = r[m]
  /\ r2[n] = task
  /\ IsCall(task) => task.peer \in Node /\ Flight(n, task) \in s[task.peer]
  /\ GoodTable(n, t2[n])
  /\ \A w \in t2[n].routes : ~w.stale /\ <<n, w.peer>> \in Linked
  /\ OrderlyCalls(n, s2[n])

LEMMA BeginFacts ==
  ASSUME NEW t, NEW s, NEW r, Orderly(t, s, r), NEW n \in Node, NEW task,
         NEW t2, NEW s2, NEW r2, Begun(t, s, r, n, task, t2, s2, r2)
  PROVE  /\ s[n] = {} /\ (IsCall(task) => task.peer # n)
         /\ \A m \in Node : IsCall(r[m]) => r[m].peer # n
         /\ \A f \in s2[n] : r2[f.to] # f.task
<1>1. s[n] = {} /\ (IsCall(task) => task.peer # n)
  BY DEF Begun, Orderly
<1>2. \A m \in Node : IsCall(r[m]) => r[m].peer # n
  BY <1>1 DEF Orderly
<1>3. ASSUME NEW f \in s2[n]
      PROVE  r2[f.to] # f.task
  <2>1. IsCall(f.task) /\ f.task.peer = n /\ f.to \in Node
    BY LinkedAssumption DEF Begun, OrderlyCalls
  <2> QED
    BY <1>1, <1>2, <2>1 DEF Begun
<1> QED
  BY <1>1, <1>2, <1>3

LEMMA BeginUnrun ==
  ASSUME NEW t, NEW s, NEW r, Orderly(t, s, r), NEW n \in Node, NEW task,
         NEW t2, NEW s2, NEW r2, Begun(t, s, r, n, task, t2, s2, r2)
  PROVE  /\ \A k, m \in Node : k # n /\ m # n => Unrun(s2, r2, k, m) = Unrun(s, r, k, m)
         /\ \A k \in Node : k # n =>
              Unrun(s2, r2, k, n) = {f \in Unrun(s, r, k, n) : f.task # task}
         /\ \A m \in Node : Unrun(s2, r2, n, m) = {f \in s2[n] : f.to = m}
         /\ \A m \in Node : Unrun(s, r, n, m) = {}
<1>1. \A k, m \in Node : k # n /\ m # n => Unrun(s2, r2, k, m) = Unrun(s, r, k, m)
  BY DEF Begun, Unrun
<1>2. ASSUME NEW k \in Node, k # n
      PROVE  Unrun(s2, r2, k, n) = {f \in Unrun(s, r, k, n) : f.task # task}
  <2>1. \A f \in s[k] : IsCall(f.task)
    BY DEF Orderly
  <2>2. \A f \in s[k] : r[n] # f.task
    BY <2>1, KindsOfTasks DEF Begun
  <2> QED
    BY <1>2, <2>2 DEF Begun, Unrun
<1>3. \A m \in Node : Unrun(s2, r2, n, m) = {f \in s2[n] : f.to = m}
  BY BeginFacts DEF Unrun
<1>4. \A m \in Node : Unrun(s, r, n, m) = {}
  BY BeginFacts DEF Unrun
<1> QED
  BY <1>1, <1>2, <1>3, <1>4

LEMMA BeginOrderly ==
  ASSUME NEW t, NEW s, NEW r, Orderly(t, s, r), Acyclic(r), NEW n \in Node, NEW task,
         NEW t2, NEW s2, NEW r2, Begun(t, s, r, n, task, t2, s2, r2)
  PROVE  Orderly(t2, s2, r2) /\ Acyclic(r2)
<1>1. s[n] = {} /\ \A m \in Node : IsCall(r[m]) => r[m].peer # n
  BY BeginFacts
<1>2. Orderly(t2, s2, r2)
  <2>1. ASSUME NEW m \in Node
        PROVE  GoodTable(m, t2[m]) /\ \A w \in t2[m].routes : ~w.stale /\ <<m, w.peer>> \in Linked
    BY DEF Begun, Orderly
  <2>2. ASSUME NEW m \in Node
        PROVE  (s2[m] # {} => r2[m] # Nothing) /\ OrderlyCalls(m, s2[m])
    BY DEF Begun, Orderly, OrderlyCalls
  <2>3. ASSUME NEW m \in Node, IsCall(r2[m])
        PROVE  r2[m].peer \in Node /\ Flight(m, r2[m]) \in s2[r2[m].peer]
    <3>1. r2[m].peer \in Node /\ Flight(m, r2[m]) \in s[r2[m].peer]
      BY <2>3 DEF Begun, Orderly
    <3> QED
      BY <1>1, <3>1 DEF Begun
  <2> QED
    BY <2>1, <2>2, <2>3 DEF Orderly, OrderlyCalls
<1>3. ASSUME NEW W \in (SUBSET Node) \ {{}}
      PROVE  \E m \in W : ~(IsCall(r2[m]) /\ r2[m].peer \in W)
  <2>1. CASE W \ {n} = {}
    <3>1. W = {n} /\ n \in W
      BY <2>1
    <3>2. IsCall(task) => task.peer # n
      BY BeginFacts
    <3> QED
      BY <3>1, <3>2 DEF Begun
  <2>2. CASE W \ {n} # {}
    <3>1. PICK m \in W \ {n} : ~(IsCall(r[m]) /\ r[m].peer \in W \ {n})
      BY <2>2 DEF Acyclic
    <3>2. m \in Node /\ r2[m] = r[m]
      BY <3>1 DEF Begun
    <3> QED
      BY <1>1, <3>1, <3>2
  <2> QED
    BY <2>1, <2>2
<1> QED
  BY <1>2, <1>3 DEF Acyclic

LEMMA BothLinked == \A n, m : <<n, m>> \in Linked => <<m, n>> \in Linked
<1>1. ASSUME NEW n, NEW m, <<n, m>> \in Linked
      PROVE  <<<<n, m>>[2], <<n, m>>[1]>> \in Linked
  BY <1>1, LinkedAssumption
<1> QED
  BY <1>1

\* The items of a call are those of a sound update.
LEMMA ItemFields ==
  ASSUME NEW n \in Node, NEW calls, OrderlyCalls(n, calls), NEW f \in calls,
         NEW i \in ItemsOf(f.task)
  PROVE  /\ i \in UpdateItem /\ Walk(n, i) /\ i.origin \in Node /\ i.name \in Name
         /\ i.path \in Seq(Node) /\ i.action \in {"add", "remove"}
         /\ f.task.items \in Sendable(n) /\ i \in f.task.items
         /\ f.task = Update(n, f.task.items)
<1>1. f.task \in CallTask(n) /\ IsUpdate(f.task) /\ i \in f.task.items
  BY DEF OrderlyCalls, ItemsOf
<1>2. PICK items \in Sendable(n) : f.task = Update(n, items)
  BY <1>1 DEF CallTask, IsUpdate, Keepalive, Close
<1>3. f.task.items = items
  BY <1>2 DEF Update
<1>4. i \in UpdateItem /\ Walk(n, i)
  BY <1>1, <1>3 DEF Sendable
<1> QED
  BY <1>1, <1>2, <1>3, <1>4 DEF UpdateItem

\* A task that changes the services named in X, none or one, and tells all peers.
OwnNews(n, X, t, t2, calls) ==
  /\ t2[n].routes = t[n].routes
  /\ \A x \in Name \ X : t2[n].local[x] = t[n].local[x]
  /\ \A f \in calls : \A i \in ItemsOf(f.task) :
       /\ i.name \in X /\ i.origin = n /\ i.path = <<n>>
       /\ i.action = "add" <=> Offered(t2, i)
  /\ \A x \in X : \A m \in Node : <<n, m>> \in Linked =>
       \E f \in calls : f.to = m /\
         \E i \in ItemsOf(f.task) : i.name = x /\ i.origin = n

LEMMA BeginOwnKeeps ==
  ASSUME NEW t, NEW s, NEW r, Wave(t, s, r), NEW n \in Node, NEW task, ItemsOf(task) = {},
         NEW t2, NEW s2, NEW r2, Begun(t, s, r, n, task, t2, s2, r2),
         NEW X, OwnNews(n, X, t, t2, s2[n])
  PROVE  Wave(t2, s2, r2)
<1> DEFINE Own(key) == key.origin = n /\ key.name \in X
<1>1. Orderly(t, s, r) /\ Acyclic(r) /\ Rooted(s, r)
  BY DEF Wave
<1>2. Orderly(t2, s2, r2) /\ Acyclic(r2)
  BY <1>1, BeginOrderly
<1>3. \A m \in Node : t2[m].routes = t[m].routes
  BY DEF Begun, OwnNews
<1>4. \A m \in Node : \A f \in s[m] : \A i \in ItemsOf(f.task) : i.origin # n
  BY <1>1, IdleIsQuiet DEF Begun
<1>5. \A key : key.origin \in Node /\ key.name \in Name /\ ~Own(key) =>
        (Offered(t2, key) <=> Offered(t, key))
  BY DEF Begun, OwnNews, Offered
\* A service of n that was not offered is nowhere to be found.
<1>6. ASSUME NEW m \in Node, NEW w \in t[m].routes, w.origin = n
      PROVE  Offered(t, w)
  BY <1>6, NoZombies DEF Begun, Offered
<1>7. ASSUME NEW m \in Node, NEW f \in s2[m], NEW i \in ItemsOf(f.task)
      PROVE  \/ m # n /\ f \in s[m] /\ i.origin # n /\ i.origin \in Node /\ i.name \in Name
             \/ /\ m = n /\ i.name \in X /\ i.origin = n /\ i.path = <<n>>
                /\ i.action = "add" <=> Offered(t2, i)
  <2>1. CASE m = n
    BY <2>1 DEF OwnNews
  <2>2. CASE m # n
    <3>1. f \in s[m] /\ OrderlyCalls(m, s[m])
      BY <1>1, <2>2 DEF Begun, Orderly, OrderlyCalls
    <3> QED
      BY <1>4, <2>2, <3>1, ItemFields
  <2> QED
    BY <2>1, <2>2
<1>8. Rooted(s2, r2)
  BY <1>1, <1>7 DEF Rooted, Begun
<1>9. Truthful(t2, s2)
  BY <1>5, <1>7 DEF Wave, Truthful
<1>10. Held(t2, s2)
  <2>1. \A k : k # n => ~Crosses(k, <<n>>)
    BY DEF Crosses
  <2> QED
    BY <1>3, <1>7, <2>1 DEF Wave, Held
<1>11. \A m \in Node : \A w \in t[m].routes :
         w.origin \in Node /\ w.name \in Name /\ w.peer \in Node
  BY <1>1, RouteFields DEF Orderly
<1>12. Shrinking(t2)
  <2>1. ASSUME NEW m \in Node, NEW w \in t[m].routes, Offered(t2, w)
        PROVE  Offered(t, w)
    BY <1>5, <1>6, <1>11, <2>1
  <2>2. ASSUME NEW m \in Node, NEW w \in t[m].routes, NEW j \in 1..(Len(w.path) - 1)
        PROVE  w.path[j] \in Node
    <3>1. w.path \in Seq(Node) /\ Len(w.path) \in Nat
      BY <1>1, RouteFields DEF Orderly
    <3> QED
      BY <3>1
  <2> QED
    BY <1>3, <2>1, <2>2 DEF Wave, Shrinking
\* What was under way and unrun is so still, unless it carries nothing.
<1>13. ASSUME NEW k \in Node, NEW m \in Node, NEW f \in Unrun(s, r, k, m), ItemsOf(f.task) # {}
       PROVE  f \in Unrun(s2, r2, k, m)
  <2>1. k # n
    BY <1>1, BeginUnrun
  <2>2. f.task # task
    BY <1>13
  <2> QED
    BY <1>1, <2>1, <2>2, BeginUnrun
<1>14. \A m \in Node : Unrun(s2, r2, n, m) = {f \in s2[n] : f.to = m}
  BY <1>1, BeginUnrun
<1>15. Supported(t2, s2, r2)
  <2>1. SUFFICES ASSUME NEW m \in Node, NEW w \in t[m].routes
                 PROVE  Carried(t2, w) \/ Doomed(s2, r2, m, w)
    BY <1>3 DEF Supported
  <2>2. w.peer \in Node
    BY <1>11
  <2>3. CASE Doomed(s, r, m, w)
    BY <1>13, <2>2, <2>3 DEF Doomed
  <2>4. CASE Carried(t, w) /\ Len(w.path) # 1
    BY <1>3, <2>2, <2>4 DEF Carried
  <2>5. CASE Carried(t, w) /\ Len(w.path) = 1 /\ Offered(t2, w)
    BY <2>5 DEF Carried
  <2>6. CASE Carried(t, w) /\ Len(w.path) = 1 /\ ~Offered(t2, w)
    <3>1. Own(w) /\ Offered(t, w)
      BY <1>5, <1>11, <2>6 DEF Carried
    <3>2. w.peer = n /\ <<m, n>> \in Linked
      BY <1>1, <2>6, <3>1, RouteFields DEF Orderly
    <3>3. PICK f \in s2[n] : f.to = m /\ \E i \in ItemsOf(f.task) : i.name = w.name /\ i.origin = n
      <4>1. <<n, m>> \in Linked /\ w.name \in X
        BY <3>1, <3>2, BothLinked
      <4>2. \E f \in s2[n] : f.to = m /\ \E i \in ItemsOf(f.task) : i.name = w.name /\ i.origin = n
        BY <4>1 DEF OwnNews
      <4> QED
        BY <4>2
    <3>4. PICK i \in ItemsOf(f.task) : i.name = w.name /\ i.origin = n
      BY <3>3
    <3>5. ~Offered(t2, i)
      BY <2>6, <3>1, <3>4 DEF Offered
    <3>6. i.action = "remove"
      <4>1. OrderlyCalls(n, s2[n])
        BY DEF Begun
      <4> QED
        BY <3>4, <3>5, <4>1, ItemFields DEF OwnNews
    <3>7. SameKey(w, i) /\ f \in Unrun(s2, r2, w.peer, m)
      BY <1>14, <3>1, <3>2, <3>3, <3>4 DEF SameKey
    <3> QED
      BY <3>4, <3>6, <3>7 DEF Doomed
  <2> QED
    BY <2>3, <2>4, <2>5, <2>6 DEF Wave, Supported
<1>16. Spread(t2, s2, r2)
  <2>1. SUFFICES ASSUME NEW k \in Node, NEW m \in Node, NEW key \in Key,
                        <<k, m>> \in Linked, Offered(t2, key), Tells(t2, k, m, key)
                 PROVE  Has(t2, m, key) \/ Coming(s2, r2, k, m, key)
    BY DEF Spread
  <2>2. Tells(t, k, m, key) /\ (Has(t, m, key) => Has(t2, m, key))
    BY <1>3, <2>1 DEF Tells, Has
  <2>3. key.origin \in Node /\ key.name \in Name
    BY DEF Key
  <2>4. CASE Own(key) /\ k = n
    <3>1. PICK f \in s2[n] : f.to = m /\ \E i \in ItemsOf(f.task) : i.name = key.name /\ i.origin = n
      BY <2>1, <2>4 DEF OwnNews
    <3>2. PICK i \in ItemsOf(f.task) : i.name = key.name /\ i.origin = n
      BY <3>1
    <3>3. i.action = "add" /\ SameKey(i, key)
      BY <2>1, <2>4, <3>2 DEF OwnNews, Offered, SameKey
    <3> QED
      BY <1>14, <2>4, <3>1, <3>3 DEF Coming
  <2>5. CASE ~(Own(key) /\ k = n)
    <3>1. Offered(t, key)
      <4>1. CASE ~Own(key)
        BY <1>5, <2>1, <2>3, <4>1
      <4>2. CASE Own(key)
        <5>1. PICK w \in t[k].routes : SameKey(w, key)
          BY <2>2, <2>5, <4>2 DEF Tells
        <5>2. w.origin = n /\ (Offered(t, w) <=> Offered(t, key))
          BY <4>2, <5>1 DEF SameKey, Offered
        <5> QED
          BY <1>6, <5>2
      <4> QED
        BY <4>1, <4>2
    <3>2. Has(t, m, key) \/ Coming(s, r, k, m, key)
      BY <2>1, <2>2, <3>1 DEF Wave, Spread
    <3>3. Coming(s, r, k, m, key) => Coming(s2, r2, k, m, key)
      BY <1>13 DEF Coming
    <3> QED
      BY <2>2, <3>2, <3>3
  <2> QED
    BY <2>4, <2>5
<1> QED
  BY <1>2, <1>8, <1>9, <1>10, <1>12, <1>15, <1>16 DEF Wave

\* A node n that takes the items of an update from p: which routes R2 it has
\* after R, and what it tells of them.
Takes(n, p, items, R, R2) ==
  /\ \A w \in R2 : w \in R \/ \E i \in items : i.action = "add" /\ w = Learned(p, i)
  /\ \A w \in R \ R2 : \E i \in items :
       SameKey(w, i) /\ \/ i.action = "remove"
                        \/ /\ i.action = "add" /\ Learned(p, i) \in R2
                           /\ Len(i.path) < Len(w.path)
  /\ \A i \in items : i.action = "remove" => \A w \in R2 : ~SameKey(w, i)
  /\ \A i \in items : i.action = "add" /\ ~Crosses(n, i.path) =>
       \E w \in R2 : SameKey(w, i) /\ Len(w.path) <= Len(i.path)
Passes(n, items, R, R2, calls) ==
  /\ \A f \in calls : \A i \in ItemsOf(f.task) :
       \E j \in items :
         /\ SameKey(i, j) /\ i.action = j.action
         /\ i.action = "add" => \E w \in R2 :
              SameKey(w, i) /\ i.path = <<n>> \o w.path /\ ~Crosses(f.to, w.path)
  /\ \A w \in R2 \ R : \A m \in Node : <<n, m>> \in Linked /\ ~Crosses(m, w.path) =>
       \E f \in calls : f.to = m /\ \E i \in ItemsOf(f.task) :
         SameKey(w, i) /\ i.action = "add" /\ Len(i.path) = Len(w.path) + 1
  /\ \A w \in R : \A j \in items : SameKey(w, j) /\ j.action = "remove" =>
       \A m \in Node : <<n, m>> \in Linked /\ ~Crosses(m, w.path) =>
         \E f \in calls : f.to = m /\ \E i \in ItemsOf(f.task) :
           SameKey(w, i) /\ i.action = "remove"

LEMMA SameKeys ==
  /\ \A a, b : SameKey(a, b) <=> SameKey(b, a)
  /\ \A a, b, c : SameKey(a, b) /\ SameKey(b, c) => SameKey(a, c)
  /\ \A p, i : SameKey(Learned(p, i), i)
BY DEF SameKey, Learned

LEMMA SameOffer ==
  ASSUME NEW t, NEW a, NEW b, SameKey(a, b)
  PROVE  Offered(t, a) <=> Offered(t, b)
BY DEF SameKey, Offered

\* What task, an update from p, is made of, and what is known of its items.
LEMMA UpdateItems ==
  ASSUME NEW t, NEW s, NEW r, Wave(t, s, r), NEW n \in Node, NEW task, IsUpdate(task),
         NEW t2, NEW s2, NEW r2, Begun(t, s, r, n, task, t2, s2, r2)
  PROVE  /\ task.peer \in Node /\ task.peer # n /\ t2[task.peer] = t[task.peer]
         /\ ItemsOf(task) = task.items /\ task.items \in Sendable(task.peer)
         /\ \A i \in task.items :
              /\ i \in UpdateItem /\ i.origin \in Node /\ i.name \in Name
              /\ i.path \in Seq(Node) /\ i.action \in {"add", "remove"}
              /\ i.action = "add" <=> Offered(t, i)
              /\ i.action = "add" =>
                   /\ ~Crosses(n, i.path)
                   /\ \/ i.origin = task.peer /\ i.path = <<task.peer>>
                      \/ \E q \in t[task.peer].routes :
                           SameKey(q, i) /\ i.path = <<task.peer>> \o q.path
<1> DEFINE p == task.peer
<1>1. Orderly(t, s, r)
  BY DEF Wave
<1>2. p \in Node /\ p # n /\ t2[p] = t[p] /\ Flight(n, task) \in s[p]
  <2>1. IsCall(task)
    BY KindsOfTasks
  <2>2. p # n
    BY <1>1, <2>1, BeginFacts
  <2> QED
    BY <2>1, <2>2 DEF Begun
<1>3. ItemsOf(task) = task.items /\ OrderlyCalls(p, s[p])
      /\ Flight(n, task).task = task /\ Flight(n, task).to = n
  BY <1>1, <1>2 DEF Orderly, OrderlyCalls, ItemsOf, Flight
<1>4. task.items \in Sendable(p)
  <2>1. Flight(n, task).task \in CallTask(p)
    BY <1>2, <1>3 DEF OrderlyCalls
  <2>2. task \in CallTask(p)
    BY <1>3, <2>1
  <2>3. PICK items \in Sendable(p) : task = Update(p, items)
    BY <2>2 DEF CallTask, IsUpdate, Keepalive, Close
  <2> QED
    BY <2>3 DEF Update
<1> HIDE DEF p
<1>5. ASSUME NEW i \in task.items
      PROVE  /\ i \in UpdateItem /\ i.origin \in Node /\ i.name \in Name
             /\ i.path \in Seq(Node) /\ i.action \in {"add", "remove"}
             /\ i.action = "add" <=> Offered(t, i)
             /\ i.action = "add" =>
                  /\ ~Crosses(n, i.path)
                  /\ \/ i.origin = p /\ i.path = <<p>>
                     \/ \E q \in t[p].routes : SameKey(q, i) /\ i.path = <<p>> \o q.path
  <2>1. i \in UpdateItem
    BY <1>4 DEF Sendable
  <2>2. i.action = "add" <=> Offered(t, i)
    BY <1>2, <1>3 DEF Wave, Truthful
  <2>3. i.action = "add" =>
          /\ ~Crosses(n, i.path)
          /\ \/ i.origin = p /\ i.path = <<p>>
             \/ \E q \in t[p].routes : SameKey(q, i) /\ i.path = <<p>> \o q.path
    BY <1>2, <1>3 DEF Wave, Held
  <2> QED
    BY <2>1, <2>2, <2>3 DEF UpdateItem
<1> QED
  BY <1>2, <1>3, <1>4, <1>5 DEF p

\* A node begins an update.
UpdateBegun(t, s, r, n, task, t2, s2, r2) ==
  /\ Wave(t, s, r) /\ IsUpdate(task) /\ Begun(t, s, r, n, task, t2, s2, r2)
  /\ t2[n].local = t[n].local
  /\ Takes(n, task.peer, task.items, t[n].routes, t2[n].routes)
  /\ Passes(n, task.items, t[n].routes, t2[n].routes, s2[n])

\* What does not change with it.
LEMMA UpdateFrame ==
  ASSUME NEW t, NEW s, NEW r, NEW n \in Node, NEW task, NEW t2, NEW s2, NEW r2,
         UpdateBegun(t, s, r, n, task, t2, s2, r2)
  PROVE  /\ Orderly(t, s, r) /\ Orderly(t2, s2, r2) /\ Acyclic(r2)
         /\ \A m \in Node \ {n} : t2[m] = t[m] /\ s2[m] = s[m] /\ r2[m] = r[m]
         /\ \A key : key.origin \in Node => (Offered(t2, key) <=> Offered(t, key))
         /\ \A m \in Node : GoodTable(m, t[m]) /\ GoodTable(m, t2[m])
<1>1. Orderly(t, s, r) /\ Acyclic(r) /\ Begun(t, s, r, n, task, t2, s2, r2)
  BY DEF UpdateBegun, Wave
<1>2. Orderly(t2, s2, r2) /\ Acyclic(r2)
  BY <1>1, BeginOrderly
<1>3. \A m \in Node \ {n} : t2[m] = t[m] /\ s2[m] = s[m] /\ r2[m] = r[m]
  BY <1>1 DEF Begun
<1>4. \A key : key.origin \in Node => (Offered(t2, key) <=> Offered(t, key))
  BY <1>3 DEF UpdateBegun, Offered
<1> QED
  BY <1>1, <1>2, <1>3, <1>4 DEF Orderly

\* A service that is offered is not lost, and its path only gets shorter.
LEMMA UpdateKeepsOffered ==
  ASSUME NEW t, NEW s, NEW r, NEW n \in Node, NEW task, NEW t2, NEW s2, NEW r2,
         UpdateBegun(t, s, r, n, task, t2, s2, r2),
         NEW m \in Node, NEW w \in t[m].routes, Offered(t, w)
  PROVE  \E q \in t2[m].routes : SameKey(q, w) /\ Len(q.path) <= Len(w.path)
<1> DEFINE items == task.items
<1>1. GoodTable(m, t[m])
  BY UpdateFrame
<1>2. Len(w.path) \in Nat /\ SameKey(w, w)
  BY <1>1, RouteFields DEF SameKey
<1>3. CASE w \in t2[m].routes
  BY <1>2, <1>3
<1>4. CASE w \notin t2[m].routes
  <2>0. \A k \in Node \ {n} : t2[k] = t[k]
    BY DEF UpdateBegun, Begun
  <2>1. m = n /\ w \in t[n].routes \ t2[n].routes
    BY <1>4, <2>0
  <2>2. PICK i \in items :
          SameKey(w, i) /\ \/ i.action = "remove"
                           \/ /\ i.action = "add" /\ Learned(task.peer, i) \in t2[n].routes
                              /\ Len(i.path) < Len(w.path)
    BY <2>1 DEF UpdateBegun, Takes
  <2>3. i.path \in Seq(Node) /\ i.action = "add"
    <3>1. /\ i.path \in Seq(Node) /\ i.action \in {"add", "remove"}
          /\ i.action = "add" <=> Offered(t, i)
      BY UpdateItems DEF UpdateBegun
    <3> QED
      BY <2>2, <3>1, SameOffer
  <2> DEFINE q == Learned(task.peer, i)
  <2>4. q \in t2[n].routes /\ q.path = i.path /\ SameKey(q, w)
    BY <2>2, <2>3 DEF Learned, SameKey
  <2>5. Len(q.path) <= Len(w.path)
    BY <1>2, <2>2, <2>3, <2>4
  <2> HIDE DEF q
  <2> QED
    BY <2>1, <2>4, <2>5
<1> QED
  BY <1>3, <1>4

LEMMA UpdateShrinking ==
  ASSUME NEW t, NEW s, NEW r, NEW n \in Node, NEW task, NEW t2, NEW s2, NEW r2,
         UpdateBegun(t, s, r, n, task, t2, s2, r2)
  PROVE  Shrinking(t2)
<1> DEFINE p == task.peer
<1>1. \A m \in Node : GoodTable(m, t[m]) /\ GoodTable(m, t2[m])
  BY UpdateFrame
<1>2. ASSUME NEW m \in Node, NEW w \in t[m].routes, Offered(t, w), NEW j \in 1..(Len(w.path) - 1)
      PROVE  \E q \in t2[w.path[j]].routes : SameKey(q, w) /\ Len(q.path) <= Len(w.path) - j
  <2>1. w.path \in Seq(Node) /\ Len(w.path) \in Nat
    BY <1>1, RouteFields
  <2>2. w.path[j] \in Node
    BY <2>1
  <2>3. PICK q \in t[w.path[j]].routes : SameKey(q, w) /\ Len(q.path) <= Len(w.path) - j
    BY <1>2 DEF UpdateBegun, Wave, Shrinking
  <2>4. Offered(t, q) /\ Len(q.path) \in Nat
    BY <1>1, <1>2, <2>2, <2>3, SameOffer, RouteFields
  <2>5. PICK v \in t2[w.path[j]].routes : SameKey(v, q) /\ Len(v.path) <= Len(q.path)
    BY <2>2, <2>4, UpdateKeepsOffered
  <2>6. Len(v.path) \in Nat
    BY <1>1, <2>2, RouteFields
  <2>7. SameKey(v, w) /\ Len(v.path) <= Len(w.path) - j
    BY <2>1, <2>3, <2>4, <2>5, <2>6, SameKeys
  <2> QED
    BY <2>7
<1>3. ASSUME NEW m \in Node, NEW w \in t2[m].routes, Offered(t2, w),
             NEW j \in 1..(Len(w.path) - 1)
      PROVE  \E q \in t2[w.path[j]].routes : SameKey(q, w) /\ Len(q.path) <= Len(w.path) - j
  <2>1. Offered(t, w)
    BY <1>1, <1>3, UpdateFrame, RouteFields
  <2>2. CASE w \in t[m].routes
    BY <1>2, <2>1, <2>2
  <2>3. CASE w \notin t[m].routes
    <3>0. \A k \in Node \ {n} : t2[k] = t[k]
      BY DEF UpdateBegun, Begun
    <3>1. m = n
      BY <2>3, <3>0
    <3>2. PICK i \in task.items : i.action = "add" /\ w = Learned(p, i)
      BY <2>3, <3>1 DEF UpdateBegun, Takes
    <3>3. /\ p \in Node /\ t2[p] = t[p]
          /\ \/ i.path = <<p>>
             \/ \E q \in t[p].routes : SameKey(q, i) /\ i.path = <<p>> \o q.path
      BY <3>2, UpdateItems DEF UpdateBegun
    <3>4. w.path = i.path /\ SameKey(w, i)
      BY <3>2 DEF Learned, SameKey
    <3>5. i.path # <<p>>
      <4>1. Len(<<p>>) = 1
        OBVIOUS
      <4>2. Len(w.path) \in Nat
        BY <1>1, RouteFields
      <4> DEFINE k == Len(w.path)
      <4>3. k \in Nat /\ j \in 1..(k - 1)
        BY <4>2
      <4> HIDE DEF p, k
      <4>4. k # 1
        BY <4>3
      <4> QED
        BY <3>4, <4>1, <4>4 DEF k
    <3> HIDE DEF p
    <3>6. PICK q \in t[p].routes : SameKey(q, i) /\ i.path = <<p>> \o q.path
      BY <3>3, <3>5
    <3>7. q.path \in Seq(Node) /\ Len(q.path) \in Nat
      BY <1>1, <3>3, RouteFields
    <3>8. /\ Len(w.path) = Len(q.path) + 1 /\ w.path[1] = p
          /\ \A x \in 1..Len(q.path) : w.path[x + 1] = q.path[x]
      BY <3>3, <3>4, <3>6, <3>7
    <3>9. SameKey(q, w)
      BY <3>4, <3>6, SameKeys
    <3>10. CASE j = 1
      BY <3>3, <3>7, <3>8, <3>9, <3>10
    <3>11. CASE j # 1
      <4> DEFINE x == j - 1
      <4>1. x \in 1..(Len(q.path) - 1) /\ w.path[j] = q.path[x] /\ Len(q.path) - x = Len(w.path) - j
        <5>1. x \in 1..Len(q.path) /\ x + 1 = j
          BY <3>7, <3>8, <3>11
        <5> QED
          BY <3>7, <3>8, <5>1
      <4> HIDE DEF x
      <4>2. Offered(t, q)
        BY <2>1, <3>9, SameOffer
      <4>3. \E v \in t2[q.path[x]].routes : SameKey(v, q) /\ Len(v.path) <= Len(q.path) - x
        BY <1>2, <3>3, <4>1, <4>2
      <4>4. PICK v \in t2[q.path[x]].routes : SameKey(v, q) /\ Len(v.path) <= Len(q.path) - x
        BY <4>3
      <4>5. SameKey(v, w) /\ v \in t2[w.path[j]].routes /\ Len(v.path) <= Len(w.path) - j
        BY <3>9, <4>1, <4>4, SameKeys
      <4> QED
        BY <4>5
    <3> QED
      BY <3>10, <3>11
  <2> QED
    BY <2>2, <2>3
<1> QED
  BY <1>3 DEF Shrinking

LEMMA UpdateSupported ==
  ASSUME NEW t, NEW s, NEW r, NEW n \in Node, NEW task, NEW t2, NEW s2, NEW r2,
         UpdateBegun(t, s, r, n, task, t2, s2, r2)
  PROVE  Supported(t2, s2, r2)
<1> DEFINE p == task.peer
<1>1. /\ \A m \in Node : GoodTable(m, t[m]) /\ GoodTable(m, t2[m])
      /\ \A key : key.origin \in Node => (Offered(t2, key) <=> Offered(t, key))
      /\ Orderly(t, s, r)
  BY UpdateFrame
<1>2. \A k \in Node \ {n} : t2[k] = t[k] /\ s2[k] = s[k] /\ r2[k] = r[k]
  BY DEF UpdateBegun, Begun
<1>3. /\ p \in Node \ {n}
      /\ \A i \in task.items :
           /\ i.action \in {"add", "remove"} /\ i.path \in Seq(Node) /\ i.origin \in Node
           /\ i.action = "add" =>
                /\ Offered(t, i) /\ ~Crosses(n, i.path)
                /\ \/ i.origin = p /\ i.path = <<p>>
                   \/ \E q \in t[p].routes : SameKey(q, i) /\ i.path = <<p>> \o q.path
  BY UpdateItems DEF UpdateBegun
<1>4. /\ \A k, m \in Node : k # n /\ m # n => Unrun(s2, r2, k, m) = Unrun(s, r, k, m)
      /\ \A k \in Node : k # n =>
           Unrun(s2, r2, k, n) = {f \in Unrun(s, r, k, n) : f.task # task}
      /\ \A m \in Node : Unrun(s2, r2, n, m) = {f \in s2[n] : f.to = m}
      /\ \A m \in Node : Unrun(s, r, n, m) = {}
  BY <1>1, BeginUnrun DEF UpdateBegun
<1>5. ItemsOf(task) = task.items
  BY DEF UpdateBegun, ItemsOf
<1>6. Takes(n, p, task.items, t[n].routes, t2[n].routes)
  BY DEF UpdateBegun
<1> HIDE DEF p
\* What n kept.
<1>7. ASSUME NEW w \in t[n].routes, w \in t2[n].routes
      PROVE  Carried(t2, w) \/ Doomed(s2, r2, n, w)
  <2>1. /\ w.peer \in Node \ {n} /\ Len(w.path) \in Nat /\ w.origin \in Node
        /\ \A q \in t2[n].routes : SameKey(q, w) => q = w
    <3>1. /\ w.peer \in Node /\ w.path[1] = w.peer /\ ~Crosses(n, w.path)
          /\ Len(w.path) \in Nat \ {0} /\ w.origin \in Node
      BY <1>1, RouteFields
    <3>2. \A q \in t2[n].routes : SameKey(q, w) => q = w
      BY <1>1, <1>7, RouteFields
    <3> QED
      BY <3>1, <3>2 DEF Crosses
  <2>2. CASE Carried(t, w)
    BY <1>1, <1>2, <2>1, <2>2 DEF Carried
  <2>3. CASE Doomed(s, r, n, w)
    <3>0. PICK f \in Unrun(s, r, w.peer, n) : \E i \in ItemsOf(f.task) :
            SameKey(w, i) /\ (i.action = "remove" \/ Len(i.path) < Len(w.path))
      BY <2>3 DEF Doomed
    <3>1. PICK i \in ItemsOf(f.task) :
            SameKey(w, i) /\ (i.action = "remove" \/ Len(i.path) < Len(w.path))
      BY <3>0
    <3>2. CASE f.task # task
      BY <1>4, <2>1, <3>1, <3>2 DEF Doomed
    <3>3. CASE f.task = task
      <4>1. i \in task.items
        BY <1>5, <3>1, <3>3
      <4>2. i.action # "remove"
        BY <1>6, <1>7, <3>1, <4>1 DEF Takes
      <4>3. i.action = "add" /\ ~Crosses(n, i.path) /\ Len(i.path) \in Nat
        BY <1>3, <4>1, <4>2
      <4>4. PICK q \in t2[n].routes : SameKey(q, i) /\ Len(q.path) <= Len(i.path)
        BY <1>6, <4>1, <4>3 DEF Takes
      <4>5. q = w
        BY <2>1, <3>1, <4>4, SameKeys
      <4> QED
        BY <2>1, <3>1, <4>2, <4>3, <4>4, <4>5
    <3> QED
      BY <3>2, <3>3
  <2> QED
    BY <1>1, <1>7, <2>2, <2>3 DEF UpdateBegun, Wave, Supported
\* What n learned.
<1>8. ASSUME NEW w \in t2[n].routes, w \notin t[n].routes
      PROVE  Carried(t2, w)
  <2>1. PICK i \in task.items : i.action = "add" /\ w = Learned(p, i)
    BY <1>6, <1>8 DEF Takes
  <2>2. w.peer = p /\ w.path = i.path /\ SameKey(w, i) /\ w.origin = i.origin
    BY <2>1 DEF Learned, SameKey
  <2>3. Offered(t2, w)
    BY <1>1, <1>3, <2>1, <2>2, SameOffer
  <2>4. CASE i.path = <<p>>
    <3>1. Len(w.path) = 1
      BY <2>2, <2>4
    <3> QED
      BY <2>3, <3>1 DEF Carried
  <2>5. CASE \E q \in t[p].routes : SameKey(q, i) /\ i.path = <<p>> \o q.path
    <3>1. PICK q \in t[p].routes : SameKey(q, i) /\ i.path = <<p>> \o q.path
      BY <2>5
    <3>2. q.path \in Seq(Node) /\ Len(q.path) \in Nat \ {0} /\ p \in Node
      BY <1>1, <1>3, RouteFields
    <3>3. Tail(w.path) = q.path /\ Len(w.path) # 1
      BY <2>2, <3>1, <3>2
    <3>4. SameKey(q, w) /\ q \in t2[p].routes
      BY <1>2, <1>3, <2>2, <3>1, SameKeys
    <3> QED
      BY <2>2, <3>3, <3>4 DEF Carried
  <2> QED
    BY <1>3, <2>1, <2>4, <2>5
\* What others hold through n or through other nodes.
<1>9. ASSUME NEW m \in Node \ {n}, NEW w \in t[m].routes
      PROVE  Carried(t2, w) \/ Doomed(s2, r2, m, w)
  <2>1. /\ w.peer \in Node /\ w.path \in Seq(Node) /\ Len(w.path) \in Nat \ {0}
        /\ w.origin \in Node /\ w.path[Len(w.path)] = w.origin /\ ~Crosses(m, w.path)
        /\ \A q \in t[m].routes : SameKey(q, w) => q = w
    BY <1>1, RouteFields
  <2>2. CASE Doomed(s, r, m, w)
    <3>1. w.peer # n
      BY <1>4, <2>2 DEF Doomed
    <3> QED
      BY <1>4, <2>1, <2>2, <3>1 DEF Doomed
  <2>3. CASE Carried(t, w) /\ (Len(w.path) = 1 \/ w.peer # n)
    BY <1>1, <1>2, <2>1, <2>3 DEF Carried
  <2>4. CASE Carried(t, w) /\ Len(w.path) # 1 /\ w.peer = n
    <3>1. PICK q \in t[n].routes : SameKey(q, w) /\ q.path = Tail(w.path)
      BY <2>4 DEF Carried
    <3>2. /\ Len(q.path) + 1 = Len(w.path) /\ ~Crosses(m, q.path)
          /\ \A v \in t[n].routes : SameKey(v, q) => v = q
      <4>1. Len(q.path) + 1 = Len(w.path) /\ \A x \in 1..Len(q.path) : q.path[x] = w.path[x + 1]
        BY <2>1, <2>4, <3>1
      <4>2. ~Crosses(m, q.path)
        BY <2>1, <4>1 DEF Crosses
      <4>3. \A v \in t[n].routes : SameKey(v, q) => v = q
        BY <1>1, RouteFields
      <4> QED
        BY <4>1, <4>2, <4>3
    <3>3. <<n, m>> \in Linked
      BY <1>1, <2>4, BothLinked DEF Orderly
    <3>4. CASE q \in t2[n].routes
      BY <2>4, <3>1, <3>4 DEF Carried
    <3>5. CASE q \notin t2[n].routes
      <4>1. PICK i \in task.items :
              SameKey(q, i) /\ \/ i.action = "remove"
                               \/ /\ i.action = "add" /\ Learned(p, i) \in t2[n].routes
                                  /\ Len(i.path) < Len(q.path)
        BY <1>6, <3>5 DEF Takes
      <4>2. CASE i.action = "remove"
        <5>1. PICK f \in s2[n] : f.to = m /\ \E j \in ItemsOf(f.task) :
                SameKey(q, j) /\ j.action = "remove"
          BY <3>2, <3>3, <4>1, <4>2 DEF UpdateBegun, Passes
        <5>2. PICK j \in ItemsOf(f.task) : SameKey(q, j) /\ j.action = "remove"
          BY <5>1
        <5>3. SameKey(w, j)
          BY <3>1, <5>2, SameKeys
        <5> QED
          BY <1>4, <2>4, <5>1, <5>2, <5>3 DEF Doomed
      <4>3. CASE i.action # "remove"
        <5> DEFINE v == Learned(p, i)
        <5>1. v \in t2[n].routes /\ SameKey(v, w) /\ v.path = i.path /\ Len(v.path) < Len(q.path)
          <6>1. v.path = i.path /\ SameKey(v, i)
            BY SameKeys DEF Learned
          <6>2. SameKey(v, w)
            BY <3>1, <4>1, <6>1, SameKeys
          <6> QED
            BY <4>1, <4>3, <6>1, <6>2
        <5> HIDE DEF v
        <5>2. v \notin t[n].routes
          <6>1. SameKey(v, q) /\ Len(v.path) \in Nat /\ Len(q.path) \in Nat
            BY <1>1, <3>1, <5>1, RouteFields, SameKeys
          <6> QED
            BY <3>2, <5>1, <6>1
        <5>3. Len(v.path) \in Nat /\ v.path[Len(v.path)] = v.origin
          BY <1>1, <5>1, RouteFields
        <5>4. CASE ~Crosses(m, v.path)
          <6>1. PICK f \in s2[n] : f.to = m /\ \E j \in ItemsOf(f.task) :
                  SameKey(v, j) /\ j.action = "add" /\ Len(j.path) = Len(v.path) + 1
            BY <3>3, <5>1, <5>2, <5>4 DEF UpdateBegun, Passes
          <6>2. PICK j \in ItemsOf(f.task) :
                  SameKey(v, j) /\ j.action = "add" /\ Len(j.path) = Len(v.path) + 1
            BY <6>1
          <6>3. SameKey(w, j)
            BY <5>1, <6>2, SameKeys
          <6>4. Len(j.path) < Len(w.path)
            <7>1. Len(q.path) \in Nat
              BY <1>1, RouteFields
            <7> QED
              BY <2>1, <3>2, <5>1, <5>3, <6>2, <7>1
          <6> QED
            BY <1>4, <2>4, <6>1, <6>2, <6>3, <6>4 DEF Doomed
        <5>5. CASE Crosses(m, v.path)
          <6>1. PICK j \in 1..Len(v.path) : v.path[j] = m
            BY <5>5 DEF Crosses
          <6>2. j # Len(v.path)
            BY <2>1, <5>1, <5>3, <6>1 DEF Crosses, SameKey
          <6>3. Offered(t2, v)
            <7>1. Offered(t, i) /\ i.origin \in Node /\ SameKey(v, i)
              BY <1>3, <3>1, <4>1, <4>3, <5>1, SameKeys
            <7> QED
              BY <1>1, <7>1, SameOffer
          <6>4. j \in 1..(Len(v.path) - 1)
            BY <5>3, <6>1, <6>2
          <6>5. \E u \in t2[v.path[j]].routes : SameKey(u, v) /\ Len(u.path) <= Len(v.path) - j
            BY <5>1, <6>3, <6>4, UpdateShrinking DEF Shrinking
          <6>6. PICK u \in t[m].routes : SameKey(u, v) /\ Len(u.path) <= Len(v.path) - j
            BY <1>2, <6>1, <6>5
          <6>7. u = w
            BY <2>1, <5>1, <6>6, SameKeys
          <6>8. Len(q.path) \in Nat
            BY <1>1, RouteFields
          <6>9. Len(w.path) <= Len(v.path) - j
            BY <6>6, <6>7
          <6> QED
            BY <2>1, <3>2, <5>1, <5>3, <6>4, <6>8, <6>9
        <5> QED
          BY <5>4, <5>5
      <4> QED
        BY <4>2, <4>3
    <3> QED
      BY <3>4, <3>5
  <2> QED
    BY <2>2, <2>3, <2>4 DEF UpdateBegun, Wave, Supported
<1>10. ASSUME NEW m \in Node, NEW w \in t2[m].routes
       PROVE  Carried(t2, w) \/ Doomed(s2, r2, m, w)
  <2>1. CASE m = n
    BY <1>7, <1>8, <2>1
  <2>2. CASE m # n
    BY <1>2, <1>9, <2>2
  <2> QED
    BY <2>1, <2>2
<1> QED
  BY <1>10 DEF Supported

LEMMA UpdateSpread ==
  ASSUME NEW t, NEW s, NEW r, NEW n \in Node, NEW task, NEW t2, NEW s2, NEW r2,
         UpdateBegun(t, s, r, n, task, t2, s2, r2)
  PROVE  Spread(t2, s2, r2)
<1>1. \A k \in Node \ {n} : t2[k] = t[k]
  BY DEF UpdateBegun, Begun
<1>2. SUFFICES ASSUME NEW k \in Node, NEW m \in Node, NEW key \in Key,
                      <<k, m>> \in Linked, Offered(t2, key), Tells(t2, k, m, key)
               PROVE  Has(t2, m, key) \/ Coming(s2, r2, k, m, key)
  BY DEF Spread
<1>3. Offered(t, key)
  <2>1. key.origin \in Node
    BY DEF Key
  <2>2. \A x : x.origin \in Node => (Offered(t2, x) <=> Offered(t, x))
    BY UpdateFrame
  <2> QED
    BY <1>2, <2>1, <2>2
<1>4. Has(t, m, key) => Has(t2, m, key)
  <2>1. ASSUME NEW w \in t[m].routes, SameKey(w, key)
        PROVE  Has(t2, m, key)
    <3>1. Offered(t, w)
      BY <1>3, <2>1, SameOffer
    <3>2. PICK q \in t2[m].routes : SameKey(q, w)
      BY <3>1, UpdateKeepsOffered
    <3> QED
      BY <2>1, <3>2, SameKeys DEF Has
  <2> QED
    BY <2>1 DEF Has
<1>5. CASE Tells(t, k, m, key)
  <2>1. Has(t, m, key) \/ Coming(s, r, k, m, key)
    BY <1>2, <1>3, <1>5 DEF UpdateBegun, Wave, Spread
  <2>2. ASSUME NEW f \in Unrun(s, r, k, m), NEW i \in ItemsOf(f.task),
               SameKey(i, key), i.action = "add"
        PROVE  Has(t2, m, key) \/ Coming(s2, r2, k, m, key)
    <3>1. /\ k # n /\ (m # n => Unrun(s2, r2, k, m) = Unrun(s, r, k, m))
          /\ m = n => Unrun(s2, r2, k, n) = {g \in Unrun(s, r, k, n) : g.task # task}
      <4>1. Orderly(t, s, r) /\ Begun(t, s, r, n, task, t2, s2, r2)
        BY DEF UpdateBegun, Wave
      <4> QED
        BY <2>2, <4>1, BeginUnrun
    <3>2. CASE m # n \/ f.task # task
      BY <2>2, <3>1, <3>2 DEF Coming
    <3>3. CASE m = n /\ f.task = task
      <4>1. i \in task.items
        BY <2>2, <3>3 DEF UpdateBegun, ItemsOf
      <4>2. ~Crosses(n, i.path)
        BY <2>2, <4>1, UpdateItems DEF UpdateBegun
      <4>3. PICK w \in t2[n].routes : SameKey(w, i)
        BY <2>2, <4>1, <4>2 DEF UpdateBegun, Takes
      <4> QED
        BY <2>2, <3>3, <4>3, SameKeys DEF Has
    <3> QED
      BY <3>2, <3>3
  <2> QED
    BY <1>4, <2>1, <2>2 DEF Coming
<1>6. CASE ~Tells(t, k, m, key)
  <2>1. PICK w \in t2[k].routes : SameKey(w, key) /\ ~Crosses(m, w.path)
    BY <1>2, <1>6 DEF Tells
  <2>2. w \notin t[k].routes
    BY <1>6, <2>1 DEF Tells
  <2>3. k = n
    BY <1>1, <2>1, <2>2
  <2>4. PICK f \in s2[n] : f.to = m /\ \E i \in ItemsOf(f.task) :
          SameKey(w, i) /\ i.action = "add"
    BY <1>2, <2>1, <2>2, <2>3 DEF UpdateBegun, Passes
  <2>5. PICK i \in ItemsOf(f.task) : SameKey(w, i) /\ i.action = "add"
    BY <2>4
  <2>6. SameKey(i, key)
    BY <2>1, <2>5, SameKeys
  <2>7. f \in Unrun(s2, r2, n, m)
    <3>1. Orderly(t, s, r) /\ Begun(t, s, r, n, task, t2, s2, r2)
      BY DEF UpdateBegun, Wave
    <3>2. Unrun(s2, r2, n, m) = {g \in s2[n] : g.to = m}
      BY <3>1, BeginUnrun
    <3> QED
      BY <2>4, <3>2
  <2> QED
    BY <2>3, <2>5, <2>6, <2>7 DEF Coming
<1> QED
  BY <1>5, <1>6

LEMMA BeginUpdateKeeps ==
  ASSUME NEW t, NEW s, NEW r, NEW n \in Node, NEW task, NEW t2, NEW s2, NEW r2,
         UpdateBegun(t, s, r, n, task, t2, s2, r2)
  PROVE  Wave(t2, s2, r2)
<1>1. /\ \A m \in Node : GoodTable(m, t[m]) /\ GoodTable(m, t2[m])
      /\ \A key : key.origin \in Node => (Offered(t2, key) <=> Offered(t, key))
      /\ Orderly(t2, s2, r2) /\ Acyclic(r2)
  BY UpdateFrame
<1>2. \A k \in Node \ {n} : t2[k] = t[k] /\ s2[k] = s[k] /\ r2[k] = r[k]
  BY DEF UpdateBegun, Begun
<1>3. /\ r2[n] = task /\ ItemsOf(task) = task.items
      /\ \A j \in task.items :
           j.origin \in Node /\ (j.action = "add" <=> Offered(t, j))
  <2>1. Wave(t, s, r) /\ IsUpdate(task) /\ Begun(t, s, r, n, task, t2, s2, r2)
    BY DEF UpdateBegun
  <2>2. ItemsOf(task) = task.items
    BY <2>1 DEF ItemsOf
  <2>3. \A j \in task.items : j.origin \in Node /\ (j.action = "add" <=> Offered(t, j))
    BY <2>1, UpdateItems
  <2> QED
    BY <2>1, <2>2, <2>3 DEF Begun
<1>4. ASSUME NEW f \in s2[n], NEW i \in ItemsOf(f.task)
      PROVE  \E j \in task.items :
               /\ SameKey(i, j) /\ i.action = j.action /\ i.origin = j.origin
               /\ i.action = "add" => \E w \in t2[n].routes :
                    SameKey(w, i) /\ i.path = <<n>> \o w.path /\ ~Crosses(f.to, w.path)
  BY <1>4 DEF UpdateBegun, Passes, SameKey
<1>5. Rooted(s2, r2)
  <2>1. ASSUME NEW m \in Node, NEW f \in s2[m], NEW i \in ItemsOf(f.task)
        PROVE  i.origin = m \/ \E j \in ItemsOf(r2[m]) : j.origin = i.origin
    <3>1. CASE m = n
      BY <1>3, <1>4, <3>1
    <3>2. CASE m # n
      BY <1>2, <3>2 DEF UpdateBegun, Wave, Rooted
    <3> QED
      BY <3>1, <3>2
  <2> QED
    BY <2>1 DEF Rooted
<1>6. ASSUME NEW m \in Node \ {n}, NEW f \in s2[m], NEW i \in ItemsOf(f.task)
      PROVE  i.origin \in Node /\ f \in s[m]
  <2>1. OrderlyCalls(m, s2[m])
    BY <1>1 DEF Orderly, OrderlyCalls
  <2> QED
    BY <1>2, <1>6, <2>1, ItemFields
<1>7. Truthful(t2, s2)
  <2>1. ASSUME NEW m \in Node, NEW f \in s2[m], NEW i \in ItemsOf(f.task)
        PROVE  i.action = "add" <=> Offered(t2, i)
    <3>1. CASE m = n
      <4>1. PICK j \in task.items : SameKey(i, j) /\ i.action = j.action
        BY <1>4, <3>1
      <4> QED
        BY <1>1, <1>3, <4>1, SameOffer
    <3>2. CASE m # n
      <4>1. i.action = "add" <=> Offered(t, i)
        BY <1>6, <3>2 DEF UpdateBegun, Wave, Truthful
      <4> QED
        BY <1>1, <1>6, <3>2, <4>1
    <3> QED
      BY <3>1, <3>2
  <2> QED
    BY <2>1 DEF Truthful
<1>8. Held(t2, s2)
  <2>1. ASSUME NEW m \in Node, NEW f \in s2[m], NEW i \in ItemsOf(f.task), i.action = "add"
        PROVE  /\ f.to # m => ~Crosses(f.to, i.path)
               /\ \/ i.origin = m /\ i.path = <<m>>
                  \/ \E q \in t2[m].routes : SameKey(q, i) /\ i.path = <<m>> \o q.path
    <3>1. CASE m = n
      <4>1. PICK w \in t2[n].routes :
              SameKey(w, i) /\ i.path = <<n>> \o w.path /\ ~Crosses(f.to, w.path)
        BY <1>4, <2>1, <3>1
      <4>2. w.path \in Seq(Node)
        BY <1>1, RouteFields
      <4>3. f.to # n => ~Crosses(f.to, i.path)
        BY <4>1, <4>2 DEF Crosses
      <4> QED
        BY <3>1, <4>1, <4>3
    <3>2. CASE m # n
      <4>1. f \in s[m] /\ t2[m] = t[m]
        BY <1>2, <1>6, <3>2
      <4>2. Held(t, s)
        BY DEF UpdateBegun, Wave
      <4> QED
        BY <2>1, <4>1, <4>2 DEF Held
    <3> QED
      BY <3>1, <3>2
  <2> QED
    BY <2>1 DEF Held
<1>9. Shrinking(t2) /\ Supported(t2, s2, r2) /\ Spread(t2, s2, r2)
  BY UpdateShrinking, UpdateSupported, UpdateSpread
<1> QED
  BY <1>1, <1>5, <1>7, <1>8, <1>9 DEF Wave

-----------------------------------------------------------------------------
(* What the tasks of a fleet with fixed peers do. *)

\* The sessions of n are up with the nodes it is linked to, and with no others.
Peered(n, t) ==
  \A m \in Node : IF <<n, m>> \in Linked
                  THEN t.peers[m].status = "connected" /\ t.peers[m].lastReceived = Clock
                  ELSE t.peers[m].status = "absent"

SteadyCommand(task) ==
  task \in Dispatchable /\ task.type \notin {"LocalPeerCreate", "LocalPeerDelete"}

\* The calls of a stage, whether or not they are delivered.
Flights(st) == IF st = <<>> THEN {} ELSE {Flight(c.to, c.task) : c \in st[1]}

LEMMA StageFlights ==
  ASSUME NEW calls
  PROVE  Flights(Stage(calls)) = {Flight(c.to, c.task) : c \in calls} /\ Len(Stage(calls)) <= 1
BY DEF Flights, Stage

LEMMA ConnectedLinked ==
  ASSUME NEW n, NEW t, Peered(n, t)
  PROVE  \A m \in Node : m \in connectedPeers(t) <=> <<n, m>> \in Linked
BY DEF Peered, connectedPeers

\* The items of the updates after a change.
LEMMA NewsItems ==
  ASSUME NEW n, NEW m, NEW changes
  PROVE  \A i : i \in buildUpdatesForPeer(n, m, changes) <=>
           \E c \in changes : /\ MayTell(m, c.route)
                              /\ i = ItemFor(n, IF c.type = "removed" THEN "remove" ELSE "add", c.route)
BY DEF buildUpdatesForPeer

\* Who is sent what.
Informs(n, changes, fl) ==
  \A f : f \in fl <=>
    \E m \in Node : /\ <<n, m>> \in Linked
                    /\ buildUpdatesForPeer(n, m, changes) # {}
                    /\ f = Flight(m, Update(n, buildUpdatesForPeer(n, m, changes)))

LEMMA NewsFlights ==
  ASSUME NEW n, NEW task, task.type # "InternalProtocolConnected", NEW plan, Peered(n, plan.table)
  PROVE  Informs(n, plan.changes, {Flight(c.to, c.task) : c \in UpdateCalls(n, task, plan)})
<1> DEFINE items(m) == buildUpdatesForPeer(n, m, plan.changes)
           to == {k \in connectedPeers(plan.table) : items(k) # {}}
<1>1. UpdateCalls(n, task, plan) = {Call(m, Update(n, items(m))) : m \in to}
  BY DEF UpdateCalls, Told
<1>2. \A m, x : Call(m, x).to = m /\ Call(m, x).task = x
  BY DEF Call
<1>3. \A m : m \in to <=> m \in Node /\ <<n, m>> \in Linked /\ items(m) # {}
  BY ConnectedLinked DEF connectedPeers
<1> HIDE DEF items, to
<1>4. {Flight(c.to, c.task) : c \in UpdateCalls(n, task, plan)}
        = {Flight(m, Update(n, items(m))) : m \in to}
  BY <1>1, <1>2
<1>5. \A f : f \in {Flight(m, Update(n, items(m))) : m \in to} <=>
               \E m \in Node : /\ <<n, m>> \in Linked /\ items(m) # {}
                               /\ f = Flight(m, Update(n, items(m)))
  BY <1>3
<1> QED
  BY <1>4, <1>5 DEF items, Informs

\* The items of a flight of updates.
LEMMA FlightItems ==
  ASSUME NEW n, NEW m, NEW items
  PROVE  /\ Flight(m, Update(n, items)).to = m
         /\ ItemsOf(Flight(m, Update(n, items)).task) = items
BY DEF Flight, Update, ItemsOf, IsUpdate

LEMMA UpdateTakes ==
  ASSUME NEW n, NEW t, GoodTable(n, t), \A w \in t.routes : ~w.stale, NEW p \in Node,
         NEW items \in Sendable(p)
  PROVE  Takes(n, p, items, t.routes,
               PlanInternalProtocolUpdate(n, t, p, items, Clock).table.routes)
<1> DEFINE R == t.routes
           R2 == PlanInternalProtocolUpdate(n, t, p, items, Clock).table.routes
<1>1. t \in Table /\ UniqueIn(R) /\ DistinctKeys(items)
  BY DEF GoodTable, SoundTable, Sendable
<1>2. R2 = (R \ Replaced(n, R, items)) \cup {Learned(p, i) : i \in Accepted(n, R, items)}
  BY <1>1, UpdateRoutes
<1>3. \A w \in R : ~w.stale
  OBVIOUS
<1> HIDE DEF R, R2
<1>4. ASSUME NEW w \in R2
      PROVE  w \in R \/ \E i \in items : i.action = "add" /\ w = Learned(p, i)
  BY <1>2 DEF Accepted, Accepts
<1>5. ASSUME NEW w \in R \ R2
      PROVE  \E i \in items :
               SameKey(w, i) /\ \/ i.action = "remove"
                                \/ /\ i.action = "add" /\ Learned(p, i) \in R2
                                   /\ Len(i.path) < Len(w.path)
  <2>1. PICK i \in items : SameKey(w, i) /\ (i.action = "remove" \/ Accepts(n, R, i))
    BY <1>2, <1>5 DEF Replaced
  <2>2. CASE i.action = "remove"
    BY <2>1, <2>2
  <2>3. CASE Accepts(n, R, i)
    <3>1. i.action = "add" /\ Len(i.path) < Len(w.path)
      BY <1>3, <2>1, <2>3 DEF Accepts
    <3>2. Learned(p, i) \in R2
      BY <1>2, <2>3 DEF Accepted
    <3> QED
      BY <2>1, <3>1, <3>2
  <2> QED
    BY <2>1, <2>2, <2>3
<1>6. ASSUME NEW i \in items, i.action = "remove", NEW w \in R2
      PROVE  ~SameKey(w, i)
  <2>1. CASE w \in R /\ w \notin Replaced(n, R, items)
    BY <1>6, <2>1 DEF Replaced
  <2>2. CASE \E j \in Accepted(n, R, items) : w = Learned(p, j)
    <3>1. PICK j \in items : Accepts(n, R, j) /\ w = Learned(p, j)
      BY <2>2 DEF Accepted
    <3>2. j # i
      BY <1>6, <3>1 DEF Accepts
    <3>3. ~SameKey(j, i)
      BY <1>1, <3>2 DEF DistinctKeys
    <3> QED
      BY <3>1, <3>3 DEF SameKey, Learned
  <2> QED
    BY <1>2, <2>1, <2>2
<1>7. ASSUME NEW i \in items, i.action = "add", ~Crosses(n, i.path)
      PROVE  \E w \in R2 : SameKey(w, i) /\ Len(w.path) <= Len(i.path)
  <2>0. i.path \in Seq(Node) /\ \A w \in R : w.path \in Seq(Node)
    BY <1>1 DEF Sendable, UpdateItem, Table, InternalRoute, R
  <2>1. CASE Accepts(n, R, i)
    <3>1. Learned(p, i) \in R2 /\ SameKey(Learned(p, i), i) /\ Learned(p, i).path = i.path
      BY <1>2, <2>1 DEF Accepted, SameKey, Learned
    <3>2. Len(i.path) <= Len(i.path)
      BY <2>0
    <3> QED
      BY <3>1, <3>2
  <2>2. CASE ~Accepts(n, R, i)
    <3>1. PICK w \in R : SameKey(w, i) /\ ~(Len(i.path) < Len(w.path))
      BY <1>7, <2>2 DEF Accepts
    <3>2. w \notin Replaced(n, R, items)
      <4>1. ASSUME NEW j \in items, SameKey(w, j)
            PROVE  j = i
        <5>1. SameKey(i, j)
          BY <3>1, <4>1 DEF SameKey
        <5> QED
          BY <1>1, <5>1 DEF DistinctKeys
      <4> QED
        BY <1>7, <2>2, <4>1 DEF Replaced
    <3>3. Len(w.path) <= Len(i.path)
      BY <2>0, <3>1
    <3> QED
      BY <1>2, <3>1, <3>2, <3>3
  <2> QED
    BY <2>1, <2>2
<1> QED
  BY <1>4, <1>5, <1>6, <1>7 DEF Takes, R, R2

\* The changes an update announces.
LEMMA ChangesOfUpdate ==
  ASSUME NEW n, NEW R, NEW p, NEW items
  PROVE  /\ \A c \in UpdateChanges(n, R, p, items) :
              \/ c.type = "removed" /\ c.route \in Withdrawn(R, items)
              \/ /\ c.type # "removed"
                 /\ \E i \in Accepted(n, R, items) : c.route = Learned(p, i)
         /\ \A i \in Accepted(n, R, items) : \E c \in UpdateChanges(n, R, p, items) :
              c.type # "removed" /\ c.route = Learned(p, i)
         /\ \A w \in Withdrawn(R, items) : \E c \in UpdateChanges(n, R, p, items) :
              c.type = "removed" /\ c.route = w
<1> DEFINE new == {i \in Accepted(n, R, items) : ~\E r \in R : SameKey(r, i)}
           better == Accepted(n, R, items) \ new
           A == Announce("added", {Learned(p, i) : i \in new})
           B == Announce("updated", {Learned(p, i) : i \in better})
           C == Announce("removed", Withdrawn(R, items))
<1>1. UpdateChanges(n, R, p, items) = A \cup B \cup C
  BY DEF UpdateChanges
<1>2. \A c \in A : c.type = "added" /\ \E i \in new : c.route = Learned(p, i)
  BY DEF Announce
<1>3. \A c \in B : c.type = "updated" /\ \E i \in better : c.route = Learned(p, i)
  BY DEF Announce
<1>4. \A c \in C : c.type = "removed" /\ c.route \in Withdrawn(R, items)
  BY DEF Announce
<1>5. ASSUME NEW i \in new
      PROVE  \E c \in A : c.type # "removed" /\ c.route = Learned(p, i)
  <2>1. [type |-> "added", route |-> Learned(p, i)] \in A
    BY DEF Announce
  <2> QED
    BY <2>1
<1>6. ASSUME NEW i \in better
      PROVE  \E c \in B : c.type # "removed" /\ c.route = Learned(p, i)
  <2>1. [type |-> "updated", route |-> Learned(p, i)] \in B
    BY DEF Announce
  <2> QED
    BY <2>1
<1>7. ASSUME NEW w \in Withdrawn(R, items)
      PROVE  \E c \in C : c.type = "removed" /\ c.route = w
  <2>1. [type |-> "removed", route |-> w] \in C
    BY DEF Announce
  <2> QED
    BY <2>1
<1>8. Accepted(n, R, items) = new \cup better /\ new \subseteq Accepted(n, R, items)
  OBVIOUS
<1> HIDE DEF A, B, C, new, better
<1> QED
  BY <1>1, <1>2, <1>3, <1>4, <1>5, <1>6, <1>7, <1>8

LEMMA UpdatePasses ==
  ASSUME NEW n \in Node, NEW t, GoodTable(n, t), \A w \in t.routes : ~w.stale,
         NEW p \in Node, NEW items \in Sendable(p), NEW task, task = Update(p, items),
         NEW plan, plan = PlanInternalProtocolUpdate(n, t, p, items, Clock), plan.changed,
         GoodTable(n, plan.table), Peered(n, plan.table)
  PROVE  Passes(n, items, t.routes, plan.table.routes, Flights(Notify(n, task, plan)))
<1> DEFINE R == t.routes
           R2 == plan.table.routes
           chs == UpdateChanges(n, R, p, items)
           news(m) == buildUpdatesForPeer(n, m, plan.changes)
           fl == Flights(Notify(n, task, plan))
<1>1. t \in Table /\ R2 = (R \ Replaced(n, R, items)) \cup {Learned(p, i) : i \in Accepted(n, R, items)}
  <2>1. t \in Table
    BY DEF GoodTable, SoundTable
  <2> QED
    BY <2>1, UpdateRoutes
<1>2. plan.changes = chs
  BY DEF PlanInternalProtocolUpdate, NoChange, Changed
<1>3. \A f : f \in fl <=>
         \E m \in Node : <<n, m>> \in Linked /\ news(m) # {} /\ f = Flight(m, Update(n, news(m)))
  <2>1. Notify(n, task, plan) = Stage(UpdateCalls(n, task, plan))
        /\ task.type # "InternalProtocolConnected"
    BY DEF Notify, Update
  <2>2. fl = {Flight(c.to, c.task) : c \in UpdateCalls(n, task, plan)}
    BY <2>1, StageFlights
  <2> HIDE DEF fl
  <2>3. Informs(n, plan.changes, fl)
    BY <2>1, <2>2, NewsFlights
  <2> QED
    BY <2>3 DEF Informs
<1>4. \A m, i : i \in news(m) <=>
        \E c \in chs : /\ MayTell(m, c.route)
                       /\ i = ItemFor(n, IF c.type = "removed" THEN "remove" ELSE "add", c.route)
  BY <1>2, NewsItems
<1> HIDE DEF news, fl, chs
<1>5. /\ \A w \in R : w \in InternalRoute /\ Walk(w.peer, w)
      /\ \A w \in R2 : w \in InternalRoute /\ Walk(w.peer, w)
  BY DEF GoodTable, SoundTable, Table, WalksIn
<1>6. ASSUME NEW m \in Node, <<n, m>> \in Linked, NEW i \in news(m)
      PROVE  \E f \in fl : f.to = m /\ i \in ItemsOf(f.task)
  <2>1. Flight(m, Update(n, news(m))) \in fl
    BY <1>3, <1>6
  <2> QED
    BY <1>6, <2>1, FlightItems
<1>7. /\ \A c \in chs : \/ c.type = "removed" /\ c.route \in Withdrawn(R, items)
                        \/ /\ c.type # "removed"
                           /\ \E i \in Accepted(n, R, items) : c.route = Learned(p, i)
      /\ \A i \in Accepted(n, R, items) : \E c \in chs :
           c.type # "removed" /\ c.route = Learned(p, i)
      /\ \A w \in Withdrawn(R, items) : \E c \in chs : c.type = "removed" /\ c.route = w
  BY ChangesOfUpdate DEF chs
<1>8. \A w \in Withdrawn(R, items) : w \in R
  BY DEF Withdrawn
<1> HIDE DEF R, R2
<1>9. ASSUME NEW w \in R \cup R2, NEW act
      PROVE  LET i == ItemFor(n, act, w)
             IN  /\ i.action = act /\ SameKey(w, i) /\ SameKey(i, w) /\ i.path = <<n>> \o w.path
                 /\ Len(i.path) = Len(w.path) + 1
  <2>1. isInternalRoute(w) /\ w.path \in Seq(Node)
    BY <1>5, InternalIsInternal DEF InternalRoute
  <2> QED
    BY <2>1 DEF ItemFor, SameKey
<1>10. ASSUME NEW w \in R \cup R2, NEW m, ~Crosses(m, w.path)
       PROVE  MayTell(m, w)
  <2>1. w.path[1] = w.peer /\ 1 \in 1..Len(w.path)
    BY <1>5 DEF Walk, InternalRoute
  <2> QED
    BY <1>10, <2>1 DEF MayTell, Crosses
\* What is told is news.
<1>11. ASSUME NEW f \in fl, NEW i \in ItemsOf(f.task)
       PROVE  \E j \in items :
                /\ SameKey(i, j) /\ i.action = j.action
                /\ i.action = "add" => \E w \in R2 :
                     SameKey(w, i) /\ i.path = <<n>> \o w.path /\ ~Crosses(f.to, w.path)
  <2>1. PICK m \in Node : f = Flight(m, Update(n, news(m)))
    BY <1>3
  <2>2. f.to = m /\ i \in news(m)
    BY <1>11, <2>1, FlightItems
  <2>3. PICK c \in chs :
          /\ MayTell(m, c.route)
          /\ i = ItemFor(n, IF c.type = "removed" THEN "remove" ELSE "add", c.route)
    BY <1>4, <2>2
  <2>4. CASE c.type = "removed"
    <3>1. c.route \in Withdrawn(R, items) /\ c.route \in R
      BY <1>7, <1>8, <2>4
    <3>2. PICK j \in items : SameKey(c.route, j) /\ j.action = "remove"
      BY <3>1 DEF Withdrawn
    <3>3. i.action = "remove" /\ SameKey(i, c.route)
      BY <1>9, <2>3, <2>4, <3>1
    <3>4. SameKey(i, j)
      BY <3>2, <3>3, SameKeys
    <3> QED
      BY <3>2, <3>3, <3>4
  <2>5. CASE c.type # "removed"
    <3>1. PICK j \in Accepted(n, R, items) : c.route = Learned(p, j)
      BY <1>7, <2>5
    <3>2. j \in items /\ j.action = "add" /\ c.route \in R2 /\ SameKey(c.route, j)
      BY <1>1, <3>1, SameKeys DEF Accepted, Accepts, R2, R
    <3>3. i.action = "add" /\ SameKey(c.route, i) /\ SameKey(i, c.route)
          /\ i.path = <<n>> \o c.route.path
      BY <1>9, <2>3, <2>5, <3>2
    <3>4. ~Crosses(m, c.route.path)
      BY <1>5, <2>3, <3>2, InternalIsInternal DEF MayTell
    <3>5. SameKey(i, j)
      BY <3>2, <3>3, SameKeys
    <3> QED
      BY <2>2, <3>2, <3>3, <3>4, <3>5
  <2> QED
    BY <2>4, <2>5
\* News is told.
<1>12. ASSUME NEW w \in R2 \ R, NEW m \in Node, <<n, m>> \in Linked, ~Crosses(m, w.path)
       PROVE  \E f \in fl : f.to = m /\ \E i \in ItemsOf(f.task) :
                SameKey(w, i) /\ i.action = "add" /\ Len(i.path) = Len(w.path) + 1
  <2>1. PICK j \in Accepted(n, R, items) : w = Learned(p, j)
    BY <1>1 DEF R, R2
  <2>2. PICK c \in chs : c.type # "removed" /\ c.route = w
    BY <1>7, <2>1
  <2>3. MayTell(m, w)
    BY <1>10, <1>12
  <2>4. ItemFor(n, "add", w) \in news(m)
    BY <1>4, <2>2, <2>3
  <2>5. PICK f \in fl : f.to = m /\ ItemFor(n, "add", w) \in ItemsOf(f.task)
    BY <1>6, <1>12, <2>4
  <2> QED
    BY <1>9, <2>5
<1>13. ASSUME NEW w \in R, NEW j \in items, SameKey(w, j), j.action = "remove",
              NEW m \in Node, <<n, m>> \in Linked, ~Crosses(m, w.path)
       PROVE  \E f \in fl : f.to = m /\ \E i \in ItemsOf(f.task) :
                SameKey(w, i) /\ i.action = "remove"
  <2>1. w \in Withdrawn(R, items)
    BY <1>13 DEF Withdrawn
  <2>2. PICK c \in chs : c.type = "removed" /\ c.route = w
    BY <1>7, <2>1
  <2>3. MayTell(m, w)
    BY <1>10, <1>13
  <2>4. ItemFor(n, "remove", w) \in news(m)
    BY <1>4, <2>2, <2>3
  <2>5. PICK f \in fl : f.to = m /\ ItemFor(n, "remove", w) \in ItemsOf(f.task)
    BY <1>6, <1>13, <2>4
  <2> QED
    BY <1>9, <2>5
<1> QED
  BY <1>11, <1>12, <1>13 DEF Passes, R, R2, fl

\* The calls of a task are as they have to be.
LEMMA FlightsOrderly ==
  ASSUME NEW n \in Node, NEW t, GoodTable(n, t), NEW task \in Task,
         task.type \notin {"LocalPeerDelete", "InternalProtocolConnected"},
         NEW plan, GoodPlan(n, t, plan), Peered(n, plan.table)
  PROVE  /\ OrderlyCalls(n, Flights(Notify(n, task, plan)))
         /\ Len(Notify(n, task, plan)) <= 1
<1> DEFINE notify == Notify(n, task, plan)
           alive == {Call(m, Keepalive(n)) : m \in task.due \cap connectedPeers(plan.table)}
           news == UpdateCalls(n, task, plan)
           some == IF task.type = "Tick" THEN alive ELSE IF plan.changed THEN news ELSE {}
<1>1. notify = Stage(some)
  BY DEF Notify, Stage
<1>2. \A m, x : Call(m, x).to = m /\ Call(m, x).task = x
  BY DEF Call
<1>3. \A c \in some : c.to \in connectedPeers(plan.table) /\ IsCall(c.task)
  <2>1. \A c \in alive : c.to \in connectedPeers(plan.table) /\ IsCall(c.task)
    BY <1>2 DEF IsCall, Keepalive
  <2>2. \A c \in news : c.to \in connectedPeers(plan.table) /\ IsCall(c.task)
    BY <1>2, KindsOfTasks DEF UpdateCalls
  <2> QED
    BY <2>1, <2>2
<1>4. some \subseteq Calls(n) /\ OnePerTarget(some)
  <2>1. CASE some = {}
    BY <2>1 DEF OnePerTarget
  <2>2. CASE some # {}
    <3>1. notify = <<some>> /\ Len(notify) = 1 /\ notify[1] = some
      <4> HIDE DEF notify, some
      <4>1. notify = <<some>>
        BY <1>1, <2>2 DEF Stage
      <4> QED
        BY <4>1
    <3>2. notify \in GoodStages(n)
      BY NotifyGood
    <3> HIDE DEF notify, some
    <3> QED
      BY <3>1, <3>2 DEF GoodStages
  <2> QED
    BY <2>1, <2>2
<1> DEFINE fl == {Flight(c.to, c.task) : c \in some}
<1> HIDE DEF notify, some
<1>5. Flights(notify) = fl /\ Len(notify) <= 1
  BY <1>1, StageFlights
<1>6. ASSUME NEW f \in fl
      PROVE  /\ <<n, f.to>> \in Linked /\ f = Flight(f.to, f.task)
             /\ f.task \in CallTask(n) /\ IsCall(f.task) /\ f.task.peer = n
             /\ \E c \in some : c.to = f.to /\ c.task = f.task
  <2>1. PICK c \in some : f = Flight(c.to, c.task)
    OBVIOUS
  <2>2. f.to = c.to /\ f.task = c.task
    BY <2>1 DEF Flight
  <2>3. c.to \in Node /\ c.task \in CallTask(n)
    BY <1>4 DEF Calls
  <2>4. <<n, c.to>> \in Linked /\ IsCall(c.task)
    BY <1>3, <2>3, ConnectedLinked
  <2> QED
    BY <2>1, <2>2, <2>3, <2>4, CallTaskFields
<1>7. ASSUME NEW f \in fl, NEW g \in fl, f.to = g.to
      PROVE  f = g
  <2>1. PICK c \in some : c.to = f.to /\ c.task = f.task
    BY <1>6
  <2>2. PICK d \in some : d.to = g.to /\ d.task = g.task
    BY <1>6
  <2>3. c = d
    BY <1>4, <1>7, <2>1, <2>2 DEF OnePerTarget
  <2>4. f = Flight(f.to, f.task) /\ g = Flight(g.to, g.task)
    BY <1>6
  <2> QED
    BY <1>7, <2>1, <2>2, <2>3, <2>4
<1> HIDE DEF fl
<1>8. OrderlyCalls(n, fl)
  BY <1>6, <1>7 DEF OrderlyCalls
<1> QED
  BY <1>5, <1>8 DEF notify

\* Sessions stay as they are.
LEMMA PeeredBy ==
  ASSUME NEW n, NEW t \in Table, Peered(n, t), NEW t2,
         \A m \in Node : t2.peers[m].status = t.peers[m].status
                         /\ t2.peers[m].lastReceived \in {t.peers[m].lastReceived, Clock}
  PROVE  Peered(n, t2)
BY DEF Peered

LEMMA CommandPeers ==
  ASSUME NEW n, NEW t \in Table, Peered(n, t), NEW task, SteadyCommand(task)
  PROVE  /\ Peered(n, Plan(n, t, task, Clock).table)
         /\ task.type = "Tick" => Plan(n, t, task, Clock) = NoChange(t)
<1> DEFINE plan == Plan(n, t, task, Clock)
<1>1. \A m \in Node : t.peers[m] \in PeerRecord
  BY DEF Table
<1>2. ASSUME NEW p \in Node, NEW i \in Info, task = PeerUpdate(p, i)
      PROVE  Peered(n, plan.table) /\ task.type # "Tick"
  <2>1. plan = PlanLocalPeerUpdate(t, p, i) /\ task.type # "Tick"
    BY <1>2 DEF Plan, PeerUpdate
  <2>2. \A m \in Node : /\ plan.table.peers[m].status = t.peers[m].status
                        /\ plan.table.peers[m].lastReceived = t.peers[m].lastReceived
    BY <1>1, <2>1 DEF PlanLocalPeerUpdate, NoChange, Changed, Table, PeerRecord
  <2> QED
    BY <2>1, <2>2, PeeredBy
<1>3. ASSUME NEW s \in Name, NEW d \in Data, task = RouteCreate(s, d) \/ task = RouteHealth(s, d)
      PROVE  Peered(n, plan.table) /\ task.type # "Tick"
  <2>1. /\ task.type # "Tick"
        /\ plan = PlanLocalRouteCreate(t, s, d) \/ plan = PlanLocalRouteHealthUpdate(t, s, d)
    <3>1. CASE task = RouteCreate(s, d)
      BY <3>1 DEF Plan, RouteCreate
    <3>2. CASE task = RouteHealth(s, d)
      BY <3>2 DEF Plan, RouteHealth
    <3> QED
      BY <1>3, <3>1, <3>2
  <2>2. plan.table.peers = t.peers
    BY <2>1 DEF PlanLocalRouteCreate, PlanLocalRouteHealthUpdate, NoChange, Changed, Table
  <2> QED
    BY <2>1, <2>2, PeeredBy
<1>4. ASSUME NEW s \in Name, task = RouteDelete(s)
      PROVE  Peered(n, plan.table) /\ task.type # "Tick"
  <2>1. plan = PlanLocalRouteDelete(t, s) /\ task.type # "Tick"
    BY <1>4 DEF Plan, RouteDelete
  <2>2. plan.table.peers = t.peers
    BY <2>1 DEF PlanLocalRouteDelete, NoChange, Changed, Table
  <2> QED
    BY <2>1, <2>2, PeeredBy
<1>5. ASSUME NEW due \in SUBSET Node, task = KeepaliveTick(due)
      PROVE  plan = NoChange(t) /\ plan.table = t
  <2>1. plan = PlanTick(t, Clock)
    BY <1>5 DEF Plan, KeepaliveTick
  <2>2. \A m \in Node : t.peers[m].status = "connected" => ~Overdue(t.peers[m], Clock)
    BY <1>1 DEF Peered, Overdue, PeerRecord, Clock
  <2>3. \A m \in Node : t.peers[m].status # "closed"
    BY DEF Peered
  <2>4. Expired(t, Clock) = {} /\ GraceOver(t, Clock) = {}
    BY <2>2, <2>3 DEF Expired, GraceOver
  <2> QED
    BY <2>1, <2>4 DEF PlanTick, NoChange
<1> HIDE DEF plan
<1>6. Peered(n, plan.table) /\ (task.type = "Tick" => plan = NoChange(t))
  <2>1. task \in Dispatchable /\ task.type \notin {"LocalPeerCreate", "LocalPeerDelete"}
    BY DEF SteadyCommand
  <2>2. \A p, i : PeerCreate(p, i).type = "LocalPeerCreate"
    BY DEF PeerCreate
  <2>3. \A p : PeerDelete(p).type = "LocalPeerDelete"
    BY DEF PeerDelete
  <2> QED
    BY <1>2, <1>3, <1>4, <1>5, <2>1, <2>2, <2>3, DispatchableCases
<1> QED
  BY <1>6 DEF plan

LEMMA CallPeers ==
  ASSUME NEW n \in Node, NEW t \in Table, Peered(n, t), NEW p \in Node,
         NEW task \in CallTask(p), IsCall(task), <<n, p>> \in Linked
  PROVE  LET plan == Plan(n, t, task, Clock) IN Peered(n, plan.table) /\ plan.changed
<1> DEFINE plan == Plan(n, t, task, Clock)
<1>1. Known(t, p) /\ \A m \in Node : t.peers[m] \in PeerRecord
  BY DEF Peered, Known, Table
<1>2. CASE task = Keepalive(p)
  <2>1. plan = PlanInternalProtocolKeepalive(t, p, Clock)
    BY <1>2 DEF Plan, Keepalive
  <2>2. plan = Changed([t EXCEPT !.peers[p].lastReceived = Clock], {})
    BY <1>1, <2>1 DEF PlanInternalProtocolKeepalive
  <2>3. plan.changed /\ plan.table = [t EXCEPT !.peers[p].lastReceived = Clock]
    BY <2>2 DEF Changed
  <2> HIDE DEF plan
  <2>4. \A m \in Node : /\ plan.table.peers[m].status = t.peers[m].status
                        /\ plan.table.peers[m].lastReceived \in {t.peers[m].lastReceived, Clock}
    BY <1>1, <2>3 DEF Table, PeerRecord
  <2>5. Peered(n, plan.table)
    BY <2>4, PeeredBy
  <2> QED
    BY <2>3, <2>5 DEF plan
<1>3. ASSUME NEW items \in Sendable(p), task = Update(p, items)
      PROVE  Peered(n, plan.table) /\ plan.changed
  <2>1. plan = PlanInternalProtocolUpdate(n, t, p, items, Clock)
    BY <1>3 DEF Plan, Update
  <2> DEFINE rts == (t.routes \ Replaced(n, t.routes, items))
                      \cup {Learned(p, i) : i \in Accepted(n, t.routes, items)}
  <2>2. plan.changed /\ plan.table = [t EXCEPT !.routes = rts,
           !.peers[p].lastReceived = IF Known(t, p) THEN Clock ELSE t.peers[p].lastReceived]
    BY <1>1, <2>1 DEF PlanInternalProtocolUpdate, Changed
  <2> HIDE DEF plan, rts
  <2>3. plan.table = [t EXCEPT !.routes = rts, !.peers[p].lastReceived = Clock]
    BY <1>1, <2>2
  <2>4. plan.table.peers = [t.peers EXCEPT ![p].lastReceived = Clock]
    BY <2>3 DEF Table
  <2>5. \A m \in Node : /\ plan.table.peers[m].status = t.peers[m].status
                        /\ plan.table.peers[m].lastReceived \in {t.peers[m].lastReceived, Clock}
    BY <1>1, <2>4 DEF Table, PeerRecord
  <2> QED
    BY <2>2, <2>5, PeeredBy
<1>4. task # Close(p, "NORMAL")
  BY DEF IsCall, Close
<1> QED
  BY <1>2, <1>3, <1>4 DEF CallTask

\* A task that says nothing.
LEMMA QuietNews ==
  ASSUME NEW n, NEW t, NEW t2, t2[n].routes = t[n].routes, t2[n].local = t[n].local,
         NEW calls, \A f \in calls : ItemsOf(f.task) = {}
  PROVE  OwnNews(n, {}, t, t2, calls)
BY DEF OwnNews

\* A task that changes one service of its own and says so.
LEMMA ServiceNews ==
  ASSUME NEW n \in Node, NEW t, NEW t2, NEW x \in Name, NEW d, NEW type, NEW task, NEW plan,
         task.type \notin {"Tick", "LocalPeerDelete", "InternalProtocolConnected"},
         plan.changed, plan.changes = {[type |-> type, route |-> AsLocal(x, d)]},
         plan.table = t2[n], Peered(n, t2[n]),
         t2[n].routes = t[n].routes,
         \A y \in Name \ {x} : t2[n].local[y] = t[n].local[y],
         type = "removed" <=> t2[n].local[x] = NoRoute
  PROVE  OwnNews(n, {x}, t, t2, Flights(Notify(n, task, plan)))
<1> DEFINE act == IF type = "removed" THEN "remove" ELSE "add"
           item == ItemFor(n, act, AsLocal(x, d))
           fl == Flights(Notify(n, task, plan))
<1>1. /\ item.name = x /\ item.origin = n /\ item.path = <<n>> /\ item.action = act
      /\ \A m : MayTell(m, AsLocal(x, d))
  <2>1. ~isInternalRoute(AsLocal(x, d))
    BY DEF AsLocal, isInternalRoute
  <2> QED
    BY <2>1 DEF ItemFor, AsLocal, MayTell
<1>2. \A m : buildUpdatesForPeer(n, m, plan.changes) = {item}
  <2>1. ASSUME NEW m, NEW i
        PROVE  i \in buildUpdatesForPeer(n, m, plan.changes) <=> i = item
    <3>1. i \in buildUpdatesForPeer(n, m, plan.changes) <=>
            \E c \in plan.changes :
              /\ MayTell(m, c.route)
              /\ i = ItemFor(n, IF c.type = "removed" THEN "remove" ELSE "add", c.route)
      BY DEF buildUpdatesForPeer
    <3>2. \A c \in plan.changes : c.type = type /\ c.route = AsLocal(x, d)
      OBVIOUS
    <3>3. \E c \in plan.changes : c.type = type /\ c.route = AsLocal(x, d)
      OBVIOUS
    <3> QED
      BY <1>1, <3>1, <3>2, <3>3
  <2> QED
    BY <2>1
<1>3. Informs(n, plan.changes, fl)
  <2>1. Notify(n, task, plan) = Stage(UpdateCalls(n, task, plan))
    BY DEF Notify
  <2>2. fl = {Flight(c.to, c.task) : c \in UpdateCalls(n, task, plan)}
    BY <2>1, StageFlights
  <2>3. task.type # "InternalProtocolConnected" /\ Peered(n, plan.table)
    OBVIOUS
  <2> HIDE DEF fl, item, act
  <2>4. Informs(n, plan.changes, {Flight(c.to, c.task) : c \in UpdateCalls(n, task, plan)})
    BY <2>3, NewsFlights
  <2> QED
    BY <2>2, <2>4
<1> HIDE DEF item, fl
<1>4. \A f : f \in fl <=> \E m \in Node : <<n, m>> \in Linked /\ f = Flight(m, Update(n, {item}))
  BY <1>2, <1>3 DEF Informs
<1>5. \A m : Flight(m, Update(n, {item})).to = m
             /\ ItemsOf(Flight(m, Update(n, {item})).task) = {item}
  BY FlightItems
<1>6. item.action = "add" <=> Offered(t2, item)
  BY <1>1 DEF Offered
<1>7. ASSUME NEW f \in fl, NEW i \in ItemsOf(f.task)
      PROVE  i = item
  <2>1. PICK m \in Node : f = Flight(m, Update(n, {item}))
    BY <1>4
  <2>2. ItemsOf(f.task) = {item}
    BY <1>5, <2>1
  <2> QED
    BY <2>2
<1>8. \A m \in Node : <<n, m>> \in Linked => \E f \in fl : f.to = m /\ item \in ItemsOf(f.task)
  BY <1>4, <1>5
<1>9. OwnNews(n, {x}, t, t2, fl)
  BY <1>1, <1>6, <1>7, <1>8 DEF OwnNews
<1> QED
  BY <1>9 DEF fl

LEMMA CommandNews ==
  ASSUME NEW n \in Node, NEW t, GoodTable(n, t[n]), Peered(n, t[n]), NEW task, SteadyCommand(task),
         NEW plan, plan = Plan(n, t[n], task, Clock), NEW t2, t2[n] = plan.table
  PROVE  \E X : OwnNews(n, X, t, t2, Flights(Notify(n, task, plan)))
<1>1. t[n] \in Table /\ t[n].local \in [Name -> Data \cup {NoRoute}]
  BY DEF GoodTable, SoundTable, Table
<1>2. Peered(n, t2[n])
  BY <1>1, CommandPeers
<1>3. ASSUME plan = NoChange(t[n]), task.type # "Tick"
      PROVE  OwnNews(n, {}, t, t2, Flights(Notify(n, task, plan)))
  <2>1. plan.table = t[n] /\ ~plan.changed
    BY <1>3 DEF NoChange
  <2>2. Notify(n, task, plan) = <<>>
    BY <1>3, <2>1 DEF Notify
  <2>3. Flights(Notify(n, task, plan)) = {}
    BY <2>2 DEF Flights
  <2> QED
    BY <2>1, <2>3, QuietNews
<1>4. ASSUME NEW p \in Node, NEW i \in Info, task = PeerUpdate(p, i)
      PROVE  OwnNews(n, {}, t, t2, Flights(Notify(n, task, plan)))
  <2>1. /\ plan = PlanLocalPeerUpdate(t[n], p, i)
        /\ task.type \notin {"Tick", "LocalPeerDelete", "InternalProtocolConnected"}
    BY <1>4 DEF Plan, PeerUpdate
  <2>2. CASE Known(t[n], p)
    <3>1. /\ plan.changes = {} /\ plan.changed
          /\ plan.table.routes = t[n].routes /\ plan.table.local = t[n].local
      BY <1>1, <2>1, <2>2 DEF PlanLocalPeerUpdate, Changed, Table
    <3>2. UpdateCalls(n, task, plan) = {}
      BY <2>1, <3>1 DEF UpdateCalls, Told, buildUpdatesForPeer
    <3>3. Flights(Notify(n, task, plan)) = {}
      BY <2>1, <3>1, <3>2 DEF Notify, Flights, Stage
    <3> QED
      BY <3>1, <3>3, QuietNews
  <2>3. CASE ~Known(t[n], p)
    BY <1>3, <2>1, <2>3 DEF PlanLocalPeerUpdate
  <2> QED
    BY <2>2, <2>3
<1>5. ASSUME NEW x \in Name, NEW d \in Data, task = RouteCreate(x, d)
      PROVE  \E X : OwnNews(n, X, t, t2, Flights(Notify(n, task, plan)))
  <2>1. /\ plan = PlanLocalRouteCreate(t[n], x, d)
        /\ task.type \notin {"Tick", "LocalPeerDelete", "InternalProtocolConnected"}
    BY <1>5 DEF Plan, RouteCreate
  <2>2. CASE t[n].local[x] = NoRoute
    <3>1. plan = Changed([t[n] EXCEPT !.local[x] = d], Announce("added", {AsLocal(x, d)}))
      BY <2>1, <2>2 DEF PlanLocalRouteCreate
    <3>2. /\ plan.changed /\ plan.changes = {[type |-> "added", route |-> AsLocal(x, d)]}
          /\ t2[n].routes = t[n].routes /\ t2[n].local = [t[n].local EXCEPT ![x] = d]
      BY <1>1, <3>1 DEF Changed, Announce, Table
    <3>3. d # NoRoute
      BY NameAssumption DEF NoRoute
    <3>4. t2[n].local[x] # NoRoute /\ \A y \in Name \ {x} : t2[n].local[y] = t[n].local[y]
      BY <1>1, <3>2, <3>3
    <3>5. "added" # "removed" /\ "updated" # "removed"
      OBVIOUS
    <3> QED
      BY <1>2, <2>1, <3>2, <3>4, <3>5, ServiceNews
  <2>3. CASE t[n].local[x] # NoRoute
    BY <1>3, <2>1, <2>3 DEF PlanLocalRouteCreate
  <2> QED
    BY <2>2, <2>3
<1>6. ASSUME NEW x \in Name, NEW d \in Data, task = RouteHealth(x, d)
      PROVE  \E X : OwnNews(n, X, t, t2, Flights(Notify(n, task, plan)))
  <2>1. /\ plan = PlanLocalRouteHealthUpdate(t[n], x, d)
        /\ task.type \notin {"Tick", "LocalPeerDelete", "InternalProtocolConnected"}
    BY <1>6 DEF Plan, RouteHealth
  <2>2. CASE t[n].local[x] \notin {NoRoute, d}
    <3>1. plan = Changed([t[n] EXCEPT !.local[x] = d], Announce("updated", {AsLocal(x, d)}))
      BY <2>1, <2>2 DEF PlanLocalRouteHealthUpdate
    <3>2. /\ plan.changed /\ plan.changes = {[type |-> "updated", route |-> AsLocal(x, d)]}
          /\ t2[n].routes = t[n].routes /\ t2[n].local = [t[n].local EXCEPT ![x] = d]
      BY <1>1, <3>1 DEF Changed, Announce, Table
    <3>3. d # NoRoute
      BY NameAssumption DEF NoRoute
    <3>4. t2[n].local[x] # NoRoute /\ \A y \in Name \ {x} : t2[n].local[y] = t[n].local[y]
      BY <1>1, <3>2, <3>3
    <3>5. "added" # "removed" /\ "updated" # "removed"
      OBVIOUS
    <3> QED
      BY <1>2, <2>1, <3>2, <3>4, <3>5, ServiceNews
  <2>3. CASE t[n].local[x] \in {NoRoute, d}
    BY <1>3, <2>1, <2>3 DEF PlanLocalRouteHealthUpdate
  <2> QED
    BY <2>2, <2>3
<1>7. ASSUME NEW x \in Name, task = RouteDelete(x)
      PROVE  \E X : OwnNews(n, X, t, t2, Flights(Notify(n, task, plan)))
  <2>1. /\ plan = PlanLocalRouteDelete(t[n], x)
        /\ task.type \notin {"Tick", "LocalPeerDelete", "InternalProtocolConnected"}
    BY <1>7 DEF Plan, RouteDelete
  <2>2. CASE t[n].local[x] # NoRoute
    <3> DEFINE d == t[n].local[x]
    <3>1. plan = Changed([t[n] EXCEPT !.local[x] = NoRoute], Announce("removed", {AsLocal(x, d)}))
      BY <2>1, <2>2 DEF PlanLocalRouteDelete
    <3> HIDE DEF d
    <3>2. /\ plan.changed /\ plan.changes = {[type |-> "removed", route |-> AsLocal(x, d)]}
          /\ t2[n].routes = t[n].routes /\ t2[n].local = [t[n].local EXCEPT ![x] = NoRoute]
      BY <1>1, <3>1 DEF Changed, Announce, Table
    <3>3. t2[n].local[x] = NoRoute /\ \A y \in Name \ {x} : t2[n].local[y] = t[n].local[y]
      BY <1>1, <3>2
    <3> QED
      BY <1>2, <2>1, <3>2, <3>3, ServiceNews
  <2>3. CASE t[n].local[x] = NoRoute
    BY <1>3, <2>1, <2>3 DEF PlanLocalRouteDelete
  <2> QED
    BY <2>2, <2>3
<1>8. ASSUME NEW due \in SUBSET Node, task = KeepaliveTick(due)
      PROVE  OwnNews(n, {}, t, t2, Flights(Notify(n, task, plan)))
  <2>1. task.type = "Tick"
    BY <1>8 DEF KeepaliveTick
  <2>2. plan.table = t[n]
    BY <1>1, <2>1, CommandPeers DEF NoChange
  <2>3. \A f \in Flights(Notify(n, task, plan)) : f.task = Keepalive(n)
    <3> DEFINE alive == {Call(m, Keepalive(n)) : m \in task.due \cap connectedPeers(plan.table)}
    <3>1. Notify(n, task, plan) = Stage(alive)
      BY <2>1 DEF Notify
    <3>2. \A c \in alive : c.task = Keepalive(n)
      BY DEF Call
    <3>3. Flights(Notify(n, task, plan)) = {Flight(c.to, c.task) : c \in alive}
      BY <3>1, StageFlights
    <3> HIDE DEF alive
    <3> QED
      BY <3>2, <3>3 DEF Flight
  <2> QED
    BY <2>2, <2>3, KindsOfTasks, QuietNews
<1>9. task \in Dispatchable /\ task.type \notin {"LocalPeerCreate", "LocalPeerDelete"}
  BY DEF SteadyCommand
<1>10. \A p, i : PeerCreate(p, i).type = "LocalPeerCreate" /\ PeerDelete(p).type = "LocalPeerDelete"
  BY DEF PeerCreate, PeerDelete
<1> QED
  BY <1>4, <1>5, <1>6, <1>7, <1>8, <1>9, <1>10, DispatchableCases

-----------------------------------------------------------------------------
(* The invariant of a fleet with fixed peers, as long as no call fails. *)

Sends == [n \in Node |-> Flights(stages[n])]
Runs == [n \in Node |-> IF stages[n] = <<>> THEN Nothing ELSE Head(queue[n]).task]

SteadyEntry(e) ==
  \/ e.reply = "none" /\ SteadyCommand(e.task)
  \/ e.reply = "call" /\ IsCall(e.task)

Undisturbed ==
  /\ \A n, m \in Node : dials[n][m] = 0 /\ timer[n][m] = 0
  /\ \A n \in Node : \A i \in 1..Len(queue[n]) : SteadyEntry(queue[n][i])
  /\ \A n \in Node : Len(stages[n]) <= 1 /\ Peered(n, table[n])
  /\ Wave(table, Sends, Runs)

SettleInv == failures = 0 => Undisturbed

LEMMA SteadyKinds ==
  ASSUME NEW task, SteadyCommand(task)
  PROVE  ~IsCall(task) /\ task # Nothing
         /\ task.type \notin {"LocalPeerDelete", "InternalProtocolConnected"}
<1>1. task \in Dispatchable /\ task.type \notin {"LocalPeerCreate", "LocalPeerDelete"}
  BY DEF SteadyCommand
<1>2. task.type \in {"LocalPeerCreate", "LocalPeerUpdate", "LocalPeerDelete", "LocalRouteCreate",
                     "LocalRouteHealthUpdate", "LocalRouteDelete", "Tick"}
  BY <1>1, DispatchableCases DEF PeerCreate, PeerUpdate, PeerDelete, RouteCreate, RouteHealth,
     RouteDelete, KeepaliveTick
<1>3. Nothing.type = "nothing"
  BY DEF Nothing
<1> QED
  BY <1>1, <1>2, <1>3 DEF IsCall

\* What a node that is about to begin a task knows.
LEMMA HeadFacts ==
  ASSUME FleetInv, Undisturbed, NEW n \in Node, queue[n] # <<>>
  PROVE  LET head == Head(queue[n])
             task == head.task
         IN  /\ GoodTable(n, table[n]) /\ table[n] \in Table /\ Peered(n, table[n])
             /\ head \in QueueEntry /\ task \in Task /\ SteadyEntry(head)
             /\ \A w \in table[n].routes : ~w.stale /\ <<n, w.peer>> \in Linked
             /\ head.reply = "call" =>
                  /\ task.peer \in Node /\ task \in CallTask(task.peer) /\ IsCall(task)
                  /\ Awaited(task.peer, n, task)
                  /\ Flight(n, task) \in Sends[task.peer] /\ <<task.peer, n>> \in Linked
<1> DEFINE head == Head(queue[n])
           task == head.task
<1>1. /\ table \in [Node -> Table] /\ GoodTable(n, table[n]) /\ QueuesGood /\ EntriesAwaited
  BY DEF FleetInv, TablesGood, Exchange
<1>2. head \in QueueEntry /\ task \in Task /\ head = queue[n][1] /\ 1 \in 1..Len(queue[n])
  <2>1. queue[n] \in Seq(QueueEntry)
    BY <1>1 DEF QueuesGood
  <2> QED
    BY <1>1, <2>1, TailEntries, HeadOfQueue
<1>3. SteadyEntry(head) /\ Peered(n, table[n]) /\ Orderly(table, Sends, Runs)
  BY <1>2 DEF Undisturbed, Wave
<1>4. \A w \in table[n].routes : ~w.stale /\ <<n, w.peer>> \in Linked
  BY <1>3 DEF Orderly
<1>5. ASSUME head.reply = "call"
      PROVE  /\ task.peer \in Node /\ task \in CallTask(task.peer) /\ IsCall(task)
             /\ Awaited(task.peer, n, task)
             /\ Flight(n, task) \in Sends[task.peer] /\ <<task.peer, n>> \in Linked
  <2>1. task.peer \in Node /\ task \in CallTask(task.peer)
    BY <1>2, <1>5, EntryFields
  <2>2. IsCall(task)
    BY <1>3, <1>5 DEF SteadyEntry
  <2>3. Awaited(task.peer, n, task)
    BY <1>1, <1>2, <1>5 DEF EntriesAwaited
  <2>4. PICK c \in stages[task.peer][1] : c.to = n /\ c.task = task
    BY <2>3 DEF Awaited
  <2>5. stages[task.peer] # <<>>
    BY <2>3 DEF Awaited
  <2> HIDE DEF task, head
  <2>6. Flight(n, task) \in Sends[task.peer]
    BY <2>1, <2>4, <2>5 DEF Sends, Flights
  <2>7. Flight(n, task).to = n
    BY DEF Flight
  <2> QED
    BY <1>3, <2>1, <2>2, <2>3, <2>6, <2>7 DEF Orderly
<1> QED
  BY <1>1, <1>2, <1>3, <1>4, <1>5

LEMMA CallPlans ==
  ASSUME NEW n, NEW t, NEW p
  PROVE  /\ Plan(n, t, Keepalive(p), Clock) = PlanInternalProtocolKeepalive(t, p, Clock)
         /\ \A items : Plan(n, t, Update(p, items), Clock)
                        = PlanInternalProtocolUpdate(n, t, p, items, Clock)
BY DEF Plan, Keepalive, Update

LEMMA UpdateLocal ==
  ASSUME NEW self, NEW t \in Table, NEW p \in Node, NEW items, NEW at
  PROVE  PlanInternalProtocolUpdate(self, t, p, items, at).table.local = t.local
BY DEF PlanInternalProtocolUpdate, NoChange, Changed, Table

LEMMA StartKeeps ==
  ASSUME FleetInv, Undisturbed, NEW n \in Node, queue[n] # <<>>, stages[n] = <<>>,
         NEW task, task = Head(queue[n]).task,
         NEW plan, plan = Plan(n, table[n], task, Clock),
         NEW t2, t2 = [table EXCEPT ![n] = plan.table],
         NEW s2, s2 = [Sends EXCEPT ![n] = Flights(Notify(n, task, plan))],
         NEW r2, r2 = [Runs EXCEPT ![n] = task]
  PROVE  /\ Wave(t2, s2, r2) /\ Peered(n, plan.table)
         /\ Len(Notify(n, task, plan)) <= 1
<1> DEFINE calls == Flights(Notify(n, task, plan))
           head == Head(queue[n])
<1>1. /\ GoodTable(n, table[n]) /\ table[n] \in Table /\ Peered(n, table[n])
      /\ task \in Task /\ SteadyEntry(head)
      /\ \A w \in table[n].routes : ~w.stale /\ <<n, w.peer>> \in Linked
      /\ head.reply = "call" =>
           /\ task.peer \in Node /\ task \in CallTask(task.peer) /\ IsCall(task)
           /\ Flight(n, task) \in Sends[task.peer] /\ <<task.peer, n>> \in Linked
  BY HeadFacts
<1>2. Wave(table, Sends, Runs) /\ Runs[n] = Nothing
  BY DEF Undisturbed, Runs
<1>3. GoodPlan(n, table[n], plan)
  BY <1>1, TaskGood
<1>4. GoodTable(n, plan.table)
  BY <1>3 DEF GoodPlan, SoundPlan, GoodTable
<1>5. /\ t2[n] = plan.table /\ s2[n] = calls /\ r2[n] = task
      /\ \A m \in Node \ {n} : t2[m] = table[m] /\ s2[m] = Sends[m] /\ r2[m] = Runs[m]
  <2>1. table \in [Node -> Table]
    BY DEF FleetInv
  <2> QED
    BY <2>1 DEF Sends, Runs
<1> HIDE DEF calls, head
<1>6. ASSUME task # Nothing, task.type \notin {"LocalPeerDelete", "InternalProtocolConnected"},
             IsCall(task) => task.peer \in Node /\ Flight(n, task) \in Sends[task.peer],
             Peered(n, plan.table),
             \A w \in plan.table.routes : ~w.stale /\ <<n, w.peer>> \in Linked
      PROVE  /\ Begun(table, Sends, Runs, n, task, t2, s2, r2)
             /\ Len(Notify(n, task, plan)) <= 1
  <2>1. OrderlyCalls(n, calls) /\ Len(Notify(n, task, plan)) <= 1
    BY <1>1, <1>3, <1>6, FlightsOrderly DEF calls
  <2> QED
    BY <1>2, <1>4, <1>5, <1>6, <2>1 DEF Begun
<1>7. CASE head.reply = "none" /\ SteadyCommand(task)
  <2>1. /\ ~IsCall(task) /\ task # Nothing
        /\ task.type \notin {"LocalPeerDelete", "InternalProtocolConnected"}
    BY <1>7, SteadyKinds
  <2>2. Peered(n, plan.table)
    BY <1>1, <1>7, CommandPeers
  <2>3. PICK X : OwnNews(n, X, table, t2, calls)
    BY <1>1, <1>5, <1>7, CommandNews DEF calls
  <2>4. \A w \in plan.table.routes : ~w.stale /\ <<n, w.peer>> \in Linked
    BY <1>1, <1>5, <2>3 DEF OwnNews
  <2>5. Begun(table, Sends, Runs, n, task, t2, s2, r2) /\ Len(Notify(n, task, plan)) <= 1
    BY <1>6, <2>1, <2>2, <2>4
  <2>6. ItemsOf(task) = {} /\ OwnNews(n, X, table, t2, s2[n])
    BY <1>5, <2>1, <2>3, KindsOfTasks
  <2> QED
    BY <1>2, <2>2, <2>5, <2>6, BeginOwnKeeps
<1>8. CASE head.reply = "call"
  <2> DEFINE p == task.peer
  <2>1. /\ p \in Node /\ task \in CallTask(p) /\ IsCall(task) /\ <<p, n>> \in Linked
        /\ <<n, p>> \in Linked /\ Flight(n, task) \in Sends[p]
    BY <1>1, <1>8, BothLinked
  <2>2. Peered(n, plan.table) /\ plan.changed
    BY <1>1, <2>1, CallPeers
  <2>3. task # Nothing /\ task.type \notin {"LocalPeerDelete", "InternalProtocolConnected"}
    BY <2>1, KindsOfTasks DEF IsCall
  <2> HIDE DEF p
  <2>4. CASE task = Keepalive(p)
    <3>1. /\ plan.changes = {} /\ plan.table.routes = table[n].routes
          /\ plan.table.local = table[n].local
      <4>1. plan = PlanInternalProtocolKeepalive(table[n], p, Clock)
        BY <2>4, CallPlans
      <4> QED
        BY <1>1, <4>1 DEF PlanInternalProtocolKeepalive, NoChange, Changed, Table
    <3>2. calls = {}
      <4>1. UpdateCalls(n, task, plan) = {}
        <5>1. \A m : Told(n, task, plan, m) = {}
          BY <2>3, <3>1 DEF Told, buildUpdatesForPeer
        <5> QED
          BY <5>1 DEF UpdateCalls
      <4>2. Notify(n, task, plan) = <<>>
        BY <2>2, <2>3, <2>4, <4>1 DEF Notify, Stage, Keepalive
      <4> QED
        BY <4>2 DEF calls, Flights
    <3>3. OwnNews(n, {}, table, t2, s2[n])
      BY <1>5, <3>1, <3>2, QuietNews
    <3>4. ItemsOf(task) = {}
      BY <2>4, KindsOfTasks
    <3>5. Begun(table, Sends, Runs, n, task, t2, s2, r2) /\ Len(Notify(n, task, plan)) <= 1
      BY <1>1, <1>6, <2>1, <2>2, <2>3, <3>1 DEF p
    <3> QED
      BY <1>2, <2>2, <3>3, <3>4, <3>5, BeginOwnKeeps
  <2>5. ASSUME NEW items \in Sendable(p), task = Update(p, items)
        PROVE  Wave(t2, s2, r2) /\ Len(Notify(n, task, plan)) <= 1
    <3>1. plan = PlanInternalProtocolUpdate(n, table[n], p, items, Clock)
      BY <2>5, CallPlans
    <3>2. task.items = items /\ IsUpdate(task)
      BY <2>5, KindsOfTasks DEF Update
    <3>3. Takes(n, p, items, table[n].routes, t2[n].routes)
      <4>1. \A w \in table[n].routes : ~w.stale
        BY <1>1
      <4> QED
        BY <1>1, <1>5, <2>1, <3>1, <4>1, UpdateTakes
    <3>4. Passes(n, items, table[n].routes, t2[n].routes, s2[n])
      <4>1. \A w \in table[n].routes : ~w.stale
        BY <1>1
      <4> QED
        BY <1>1, <1>4, <1>5, <2>1, <2>2, <2>5, <3>1, <4>1, UpdatePasses DEF calls
    <3>5. \A w \in plan.table.routes : ~w.stale /\ <<n, w.peer>> \in Linked
      <4>1. \A i : Learned(p, i).stale = FALSE /\ Learned(p, i).peer = p
        BY DEF Learned
      <4> QED
        BY <1>1, <1>5, <2>1, <3>3, <4>1 DEF Takes
    <3>6. t2[n].local = table[n].local
      BY <1>1, <1>5, <2>1, <3>1, UpdateLocal
    <3>7. Begun(table, Sends, Runs, n, task, t2, s2, r2) /\ Len(Notify(n, task, plan)) <= 1
      BY <1>6, <2>1, <2>2, <2>3, <3>5 DEF p
    <3>8. UpdateBegun(table, Sends, Runs, n, task, t2, s2, r2)
      BY <1>2, <3>2, <3>3, <3>4, <3>6, <3>7 DEF UpdateBegun, p
    <3> QED
      BY <3>7, <3>8, BeginUpdateKeeps
  <2>6. task # Close(p, "NORMAL")
    BY <2>1 DEF IsCall, Close
  <2> QED
    BY <2>1, <2>2, <2>4, <2>5, <2>6 DEF CallTask
<1> QED
  BY <1>1, <1>7, <1>8 DEF SteadyEntry, head

\* What the end of a task does to the calls under way.
LEMMA EndStages ==
  ASSUME StagesGood, NEW n \in Node, NEW changed, End(n, changed),
         NEW head, head = Head(queue[n]), NEW p, p = head.task.peer,
         head.reply = "call" => p \in Node /\ p # n /\ stages[p] # <<>>
  PROVE  /\ stages'[n] = <<>>
         /\ \A k \in Node \ {n} :
              /\ stages'[k] # <<>> <=> stages[k] # <<>>
              /\ Len(stages'[k]) = Len(stages[k])
              /\ stages[k] # <<>> => stages'[k][1] =
                   {c \in stages[k][1] : ~(head.reply = "call" /\ k = p /\ c.to = n /\ c.delivered)}
<1>1. stages \in [Node -> Seq(SUBSET AnyCall)]
  BY DEF StagesGood
<1>2. stages' = IF head.reply = "call" THEN [stages EXCEPT ![n] = <<>>, ![p][1] = Answered(p, n)]
                ELSE [stages EXCEPT ![n] = <<>>]
  BY DEF End
<1>3. /\ stages'[n] = <<>>
      /\ \A k \in Node \ {n} :
           IF head.reply = "call" /\ k = p
           THEN stages'[k] = [stages[k] EXCEPT ![1] = Answered(p, n)]
           ELSE stages'[k] = stages[k]
  BY <1>1, <1>2
<1>4. ASSUME NEW k \in Node \ {n}
      PROVE  /\ stages'[k] # <<>> <=> stages[k] # <<>>
             /\ Len(stages'[k]) = Len(stages[k])
             /\ stages[k] # <<>> => stages'[k][1] =
                  {c \in stages[k][1] : ~(head.reply = "call" /\ k = p /\ c.to = n /\ c.delivered)}
  <2>1. CASE head.reply = "call" /\ k = p
    <3> DEFINE x == Answered(p, n)
    <3>1. stages[k] # <<>> /\ stages[k] \in Seq(SUBSET AnyCall) /\ Len(stages[k]) > 0
      BY <1>1, <2>1
    <3>2. x = {c \in stages[k][1] : ~(c.to = n /\ c.delivered)}
      BY <2>1, <3>1 DEF Answered
    <3>3. stages'[k] = [stages[k] EXCEPT ![1] = x]
      BY <1>3, <2>1
    <3> HIDE DEF x
    <3>4. Len(stages'[k]) = Len(stages[k]) /\ stages'[k][1] = x
      BY <3>1, <3>3
    <3>5. stages'[k] # <<>>
      BY <3>1, <3>4
    <3> QED
      BY <2>1, <3>1, <3>2, <3>4, <3>5
  <2>2. CASE ~(head.reply = "call" /\ k = p)
    BY <1>3, <2>2
  <2> QED
    BY <2>1, <2>2
<1> QED
  BY <1>3, <1>4

\* A task of a steady fleet ends.
LEMMA EndFinishes ==
  ASSUME FleetInv, Undisturbed, NEW n \in Node, queue[n] # <<>>,
         stages[n] = <<>> \/ stages[n][1] = {}, NEW changed, End(n, changed),
         NEW s, s = [Sends EXCEPT ![n] = {}],
         NEW r, r = [Runs EXCEPT ![n] = Head(queue[n]).task]
  PROVE  /\ Finished(s, r, n, Sends', Runs') /\ UNCHANGED <<dials, timer>>
         /\ \A m \in Node : /\ \A i \in 1..Len(queue'[m]) : SteadyEntry(queue'[m][i])
                            /\ Len(stages'[m]) <= 1
<1> DEFINE head == Head(queue[n])
           task == head.task
           p == task.peer
           called == head.reply = "call"
<1>1. /\ QueuesGood /\ StagesGood /\ queue \in [Node -> Seq(QueueEntry)]
  BY DEF FleetInv, Exchange, QueuesGood
<1>2. /\ SteadyEntry(head) /\ head \in QueueEntry
      /\ called => p \in Node /\ IsCall(task) /\ Awaited(p, n, task) /\ Flight(n, task) \in Sends[p]
  BY HeadFacts
<1>3. /\ called <=> IsCall(task)
      /\ head.reply # "dial" /\ task.type # "LocalPeerCreate" /\ task # Nothing
  <2>1. SteadyCommand(task) => ~IsCall(task) /\ task # Nothing /\ task.type # "LocalPeerCreate"
    BY SteadyKinds DEF SteadyCommand
  <2>2. IsCall(task) => task # Nothing /\ task.type # "LocalPeerCreate"
    BY KindsOfTasks DEF IsCall
  <2> QED
    BY <1>2, <2>1, <2>2 DEF SteadyEntry
<1>4. called => p # n /\ stages[p] # <<>>
  BY <1>2 DEF Awaited
<1>5. queue' = [queue EXCEPT ![n] = Tail(@)] /\ UNCHANGED <<dials, timer>>
  BY <1>3 DEF End, DialCreated
<1>6. /\ stages'[n] = <<>>
      /\ \A k \in Node \ {n} :
           /\ stages'[k] # <<>> <=> stages[k] # <<>>
           /\ Len(stages'[k]) = Len(stages[k])
           /\ stages[k] # <<>> => stages'[k][1] =
                {c \in stages[k][1] : ~(called /\ k = p /\ c.to = n /\ c.delivered)}
  <2> HIDE DEF head
  <2> QED
    BY <1>1, <1>2, <1>4, EndStages DEF head
\* The call of n's caller is the only one it makes to n, and it is delivered.
<1>7. ASSUME called, NEW c \in stages[p][1], c.to = n
      PROVE  c.delivered
  <2>1. PICK d \in stages[p][1] : d.to = n /\ d.delivered
    BY <1>2, <1>7 DEF Awaited
  <2>2. OnePerTarget(stages[p][1])
    BY <1>1, <1>2, <1>4, <1>7, CallFields
  <2>3. c = d
    BY <1>7, <2>1, <2>2 DEF OnePerTarget
  <2> QED
    BY <2>1, <2>3
<1> HIDE DEF p, called, task, head
<1>8. ASSUME NEW m \in Node
      PROVE  Sends'[m] = {f \in s[m] : ~(IsCall(task) /\ m = p /\ f.to = n)}
  <2>1. Sends'[m] = (IF stages'[m] = <<>> THEN {}
                     ELSE {Flight(c.to, c.task) : c \in stages'[m][1]})
    BY DEF Sends, Flights
  <2>2. Sends[m] = (IF stages[m] = <<>> THEN {}
                    ELSE {Flight(c.to, c.task) : c \in stages[m][1]})
    BY DEF Sends, Flights
  <2>3. CASE m = n
    <3>1. s[m] = {}
      BY <2>3 DEF Sends
    <3> QED
      BY <1>6, <2>1, <2>3, <3>1
  <2>4. CASE m # n /\ stages[m] = <<>>
    <3>1. s[m] = Sends[m]
      BY <2>4 DEF Sends
    <3> QED
      BY <1>6, <2>1, <2>2, <2>4, <3>1
  <2>5. CASE m # n /\ stages[m] # <<>>
    <3>1. s[m] = Sends[m]
      BY <2>5 DEF Sends
    <3>2. stages'[m][1] = {c \in stages[m][1] : ~(IsCall(task) /\ m = p /\ c.to = n)}
      BY <1>3, <1>6, <1>7, <2>5
    <3>3. \A c : Flight(c.to, c.task).to = c.to
      BY DEF Flight
    <3> QED
      BY <1>6, <2>1, <2>2, <2>5, <3>1, <3>2, <3>3
  <2> QED
    BY <2>3, <2>4, <2>5
<1>9. ASSUME NEW m \in Node \ {n}
      PROVE  Runs'[m] = r[m]
  <2>1. queue'[m] = queue[m] /\ (stages'[m] = <<>> <=> stages[m] = <<>>)
    BY <1>1, <1>5, <1>6
  <2>2. Runs'[m] = Runs[m]
    BY <2>1 DEF Runs
  <2> QED
    BY <2>2 DEF Runs
<1>10. r[n] = task /\ Runs'[n] = Nothing /\ s[n] = {}
  BY <1>6 DEF Runs, Sends, task, head
<1>11. Finished(s, r, n, Sends', Runs')
  BY <1>3, <1>8, <1>9, <1>10 DEF Finished, p
<1>12. ASSUME NEW m \in Node
       PROVE  /\ \A i \in 1..Len(queue'[m]) : SteadyEntry(queue'[m][i])
              /\ Len(stages'[m]) <= 1
  <2>1. Len(stages'[m]) <= 1
    <3>1. Len(<<>>) = 0
      OBVIOUS
    <3> QED
      BY <1>6, <3>1 DEF Undisturbed
  <2>2. CASE m # n
    BY <1>1, <1>5, <2>1, <2>2 DEF Undisturbed
  <2>3. CASE m = n
    <3>1. queue[n] \in Seq(QueueEntry) /\ queue'[n] = Tail(queue[n])
      BY <1>1, <1>5
    <3>2. /\ Len(queue[n]) \in Nat \ {0} /\ Len(queue'[n]) = Len(queue[n]) - 1
          /\ \A i \in 1..Len(queue'[n]) : queue'[n][i] = queue[n][i + 1]
      BY <3>1, TailEntries
    <3>3. ASSUME NEW i \in 1..Len(queue'[n])
          PROVE  SteadyEntry(queue'[n][i])
      <4>1. i + 1 \in 1..Len(queue[n])
        BY <3>2
      <4> QED
        BY <3>2, <4>1 DEF Undisturbed
    <3> QED
      BY <2>1, <2>3, <3>3
  <2> QED
    BY <2>2, <2>3
<1> QED
  BY <1>5, <1>11, <1>12

LEMMA InitSettled ==
  ASSUME Init
  PROVE  SettleInv
<1>1. /\ \A n \in Node : /\ stages[n] = <<>> /\ queue[n] = <<>>
                         /\ table[n] = EstablishedTable(n)
      /\ \A n, m \in Node : dials[n][m] = 0 /\ timer[n][m] = 0
  BY DEF Init
<1>2. \A n \in Node : Sends[n] = {} /\ Runs[n] = Nothing
  BY <1>1 DEF Sends, Runs, Flights
<1>3. \A n \in Node : table[n].routes = {} /\ (\A x \in Name : table[n].local[x] = NoRoute)
                      /\ Peered(n, table[n])
  <2>1. ASSUME NEW n \in Node
        PROVE  /\ EstablishedTable(n).routes = {}
               /\ EstablishedTable(n).local = [x \in Name |-> NoRoute]
               /\ EstablishedTable(n).peers =
                    [m \in Node |-> IF <<n, m>> \in Linked
                                    THEN [status |-> "connected", info |-> Conf,
                                          hold |-> DefaultHold, lastReceived |-> Clock]
                                    ELSE AbsentPeer]
    BY DEF EstablishedTable, newRouteTable
  <2>2. ASSUME NEW n \in Node
        PROVE  Peered(n, EstablishedTable(n))
    <3>1. \A m \in Node : EstablishedTable(n).peers[m] =
            IF <<n, m>> \in Linked
            THEN [status |-> "connected", info |-> Conf, hold |-> DefaultHold,
                  lastReceived |-> Clock]
            ELSE AbsentPeer
      BY <2>1
    <3>2. AbsentPeer.status = "absent"
      BY DEF AbsentPeer
    <3> HIDE DEF Clock, Conf
    <3> QED
      BY <3>1, <3>2 DEF Peered
  <2>3. \A n \in Node : \A x \in Name : EstablishedTable(n).local[x] = NoRoute
    BY <2>1
  <2>4. \A n \in Node : EstablishedTable(n).routes = {}
    BY <2>1
  <2> QED
    BY <1>1, <2>2, <2>3, <2>4
<1>4. \A n \in Node : GoodTable(n, table[n])
  BY InitFleet DEF FleetInv, TablesGood
<1>5. Orderly(table, Sends, Runs)
  BY <1>2, <1>3, <1>4, KindsOfTasks DEF Orderly
<1>6. Acyclic(Runs)
  BY <1>2, KindsOfTasks DEF Acyclic
<1>7. Rooted(Sends, Runs) /\ Truthful(table, Sends) /\ Held(table, Sends)
  BY <1>2 DEF Rooted, Truthful, Held
<1>8. Shrinking(table) /\ Supported(table, Sends, Runs)
  BY <1>3 DEF Shrinking, Supported
<1>9. Spread(table, Sends, Runs)
  BY <1>3 DEF Spread, Offered, Key
<1>10. \A n \in Node : Len(stages[n]) <= 1 /\ Len(queue[n]) = 0
  BY <1>1
<1>11. \A n \in Node : \A i \in 1..Len(queue[n]) : SteadyEntry(queue[n][i])
  BY <1>10
<1>12. Wave(table, Sends, Runs)
  BY <1>5, <1>6, <1>7, <1>8, <1>9 DEF Wave
<1> QED
  BY <1>1, <1>3, <1>10, <1>11, <1>12 DEF SettleInv, Undisturbed

\* A task joins a queue.
LEMMA AppendSteady ==
  ASSUME QueuesGood, BusyQueued, Undisturbed, NEW k \in Node, NEW e \in QueueEntry,
         SteadyEntry(e), queue' = [queue EXCEPT ![k] = Append(@, e)],
         \A m \in Node : stages'[m] = <<>> <=> stages[m] = <<>>
  PROVE  /\ Runs' = Runs
         /\ \A m \in Node : \A i \in 1..Len(queue'[m]) : SteadyEntry(queue'[m][i])
<1>1. /\ queue \in [Node -> Seq(QueueEntry)] /\ queue[k] \in Seq(QueueEntry)
  BY DEF QueuesGood
<1>2. queue'[k] = Append(queue[k], e) /\ \A m \in Node \ {k} : queue'[m] = queue[m]
  BY <1>1
<1>3. ASSUME NEW m \in Node, NEW i \in 1..Len(queue'[m])
      PROVE  SteadyEntry(queue'[m][i])
  <2>1. CASE m # k
    BY <1>2, <1>3, <2>1 DEF Undisturbed
  <2>2. CASE m = k
    <3>1. /\ Len(queue'[k]) = Len(queue[k]) + 1 /\ Len(queue[k]) \in Nat
          /\ \A j \in 1..Len(queue[k]) : queue'[k][j] = queue[k][j]
          /\ queue'[k][Len(queue[k]) + 1] = e
      BY <1>1, <1>2, AppendEntries
    <3>2. i \in 1..Len(queue[k]) \/ i = Len(queue[k]) + 1
      BY <1>3, <2>2, <3>1
    <3> QED
      BY <2>2, <3>1, <3>2 DEF Undisturbed
  <2> QED
    BY <2>1, <2>2
<1>4. ASSUME NEW m \in Node, stages[m] # <<>>
      PROVE  Head(queue'[m]) = Head(queue[m])
  <2>1. CASE m # k
    BY <1>2, <2>1
  <2>2. CASE m = k
    <3>1. queue[k] # <<>>
      BY <1>4, <2>2 DEF BusyQueued
    <3> QED
      BY <1>1, <1>2, <2>2, <3>1
  <2> QED
    BY <2>1, <2>2
<1>5. Runs' = Runs
  <2>1. \A m \in Node : (IF stages'[m] = <<>> THEN Nothing ELSE Head(queue'[m]).task)
                        = (IF stages[m] = <<>> THEN Nothing ELSE Head(queue[m]).task)
    BY <1>4
  <2> QED
    BY <2>1 DEF Runs
<1> QED
  BY <1>3, <1>5

LEMMA IssueSettled ==
  ASSUME FixedPeers, FleetInv, Undisturbed, NEW c \in Command, Issue(c)
  PROVE  Undisturbed'
<1>1. /\ queue' = [queue EXCEPT ![c.at] = Append(@, Entry(c.task, "none"))]
      /\ UNCHANGED <<table, stages, dials, timer, failures>>
  BY DEF Issue
<1>2. c.at \in Node /\ c.task \in Dispatchable /\ SteadyCommand(c.task)
  BY CommandAssumption DEF FixedPeers, SteadyCommand
<1>3. Entry(c.task, "none") \in QueueEntry /\ SteadyEntry(Entry(c.task, "none"))
  BY <1>2 DEF QueueEntry, Task, Entry, SteadyEntry
<1>4. QueuesGood /\ BusyQueued
  BY DEF FleetInv, Exchange
<1>5. /\ Runs' = Runs
      /\ \A m \in Node : \A i \in 1..Len(queue'[m]) : SteadyEntry(queue'[m][i])
  BY <1>1, <1>2, <1>3, <1>4, AppendSteady
<1>6. Sends' = Sends
  BY <1>1 DEF Sends
<1> QED
  BY <1>1, <1>5, <1>6 DEF Undisturbed

LEMMA DeliverSettled ==
  ASSUME FleetInv, Undisturbed, NEW n \in Node, Deliver(n)
  PROVE  Undisturbed'
<1>1. PICK c \in Head(stages[n]) :
        /\ stages[n] # <<>>
        /\ stages' = [stages EXCEPT ![n][1] = (@ \ {c}) \cup {[c EXCEPT !.delivered = TRUE]}]
        /\ queue' = [queue EXCEPT ![c.to] = Append(@, Entry(c.task, "call"))]
        /\ UNCHANGED <<table, dials, timer>>
  BY DEF Deliver, Busy
<1> DEFINE d == [c EXCEPT !.delivered = TRUE]
           x == (stages[n][1] \ {c}) \cup {d}
           e == Entry(c.task, "call")
<1>2. QueuesGood /\ BusyQueued /\ StagesGood /\ stages \in [Node -> Seq(SUBSET AnyCall)]
  BY DEF FleetInv, Exchange, StagesGood
<1>3. /\ c \in stages[n][1] /\ c \in Calls(n) /\ c.to \in Node /\ c.task \in CallTask(n)
  BY <1>1, <1>2, CallFields
<1>4. d.to = c.to /\ d.task = c.task
  BY <1>3 DEF Calls
<1>5. /\ stages'[n] = [stages[n] EXCEPT ![1] = x]
      /\ \A k \in Node \ {n} : stages'[k] = stages[k]
  BY <1>1, <1>2
<1> HIDE DEF x, d
<1>6. stages'[n] # <<>> /\ Len(stages'[n]) = Len(stages[n]) /\ stages'[n][1] = x
  <2>1. stages[n] \in Seq(SUBSET AnyCall) /\ Len(stages[n]) > 0
    BY <1>1, <1>2
  <2>2. Len(stages'[n]) = Len(stages[n]) /\ stages'[n][1] = x
    BY <1>5, <2>1
  <2> QED
    BY <2>1, <2>2
<1>7. {Flight(b.to, b.task) : b \in x} = {Flight(b.to, b.task) : b \in stages[n][1]}
  BY <1>3, <1>4 DEF x
<1>8. Sends' = Sends
  <2>1. ASSUME NEW k \in Node
        PROVE  Flights(stages'[k]) = Flights(stages[k])
    <3>1. CASE k = n
      BY <1>1, <1>6, <1>7, <3>1 DEF Flights
    <3>2. CASE k # n
      BY <1>5, <3>2
    <3> QED
      BY <3>1, <3>2
  <2> QED
    BY <2>1 DEF Sends
<1>9. e \in QueueEntry /\ SteadyEntry(e)
  <2>1. Flight(c.to, c.task) \in Sends[n] /\ Flight(c.to, c.task).task = c.task
    BY <1>1, <1>3 DEF Sends, Flights, Flight
  <2>2. Orderly(table, Sends, Runs)
    BY DEF Undisturbed, Wave
  <2>3. IsCall(c.task)
    BY <2>1, <2>2 DEF Orderly
  <2>4. e \in {Entry(task, "call") : task \in UNION {CallTask(p) : p \in Node}}
    BY <1>3
  <2> QED
    BY <2>3, <2>4 DEF QueueEntry, SteadyEntry, Entry
<1>10. \A m \in Node : stages'[m] = <<>> <=> stages[m] = <<>>
  BY <1>1, <1>5, <1>6
<1> HIDE DEF e
<1>11. /\ Runs' = Runs
       /\ \A m \in Node : \A i \in 1..Len(queue'[m]) : SteadyEntry(queue'[m][i])
  <2>1. queue' = [queue EXCEPT ![c.to] = Append(@, e)]
    BY <1>1 DEF e
  <2> QED
    BY <1>2, <1>3, <1>9, <1>10, <2>1, AppendSteady
<1>12. \A m \in Node : Len(stages'[m]) <= 1
  BY <1>5, <1>6 DEF Undisturbed
<1> QED
  BY <1>1, <1>8, <1>11, <1>12 DEF Undisturbed

LEMMA StartSettled ==
  ASSUME FleetInv, Undisturbed, NEW n \in Node, Start(n)
  PROVE  Undisturbed'
<1> DEFINE task == Head(queue[n]).task
           plan == Plan(n, table[n], task, Clock)
           calls == Notify(n, task, plan)
           s2 == [Sends EXCEPT ![n] = Flights(calls)]
           r2 == [Runs EXCEPT ![n] = task]
<1>1. /\ queue[n] # <<>> /\ stages[n] = <<>>
      /\ table' = [table EXCEPT ![n] = plan.table]
      /\ IF calls = <<>> THEN End(n, plan.changed)
         ELSE stages' = [stages EXCEPT ![n] = calls] /\ UNCHANGED <<queue, dials, timer>>
  BY DEF Start, Busy
<1>2. Wave(table', s2, r2) /\ Peered(n, plan.table) /\ Len(calls) <= 1
  BY <1>1, StartKeeps
<1>3. table \in [Node -> Table] /\ stages \in [Node -> Seq(SUBSET AnyCall)]
  BY DEF FleetInv, Exchange, StagesGood
<1> HIDE DEF plan, calls
<1>4. \A m \in Node : Peered(m, table'[m])
  <2>1. table'[n] = plan.table /\ \A m \in Node \ {n} : table'[m] = table[m]
    BY <1>1, <1>3
  <2> QED
    BY <1>2, <2>1 DEF Undisturbed
<1>5. CASE calls # <<>>
  <2>1. /\ stages'[n] = calls /\ \A m \in Node \ {n} : stages'[m] = stages[m]
        /\ UNCHANGED <<queue, dials, timer>>
    BY <1>1, <1>3, <1>5
  <2>2. Sends' = s2
    <3>1. \A m \in Node : Flights(stages'[m]) = IF m = n THEN Flights(calls) ELSE Flights(stages[m])
      BY <2>1
    <3> QED
      BY <3>1 DEF Sends
  <2>3. Runs' = r2
    <3>1. \A m \in Node : (IF stages'[m] = <<>> THEN Nothing ELSE Head(queue'[m]).task)
             = IF m = n THEN task ELSE IF stages[m] = <<>> THEN Nothing ELSE Head(queue[m]).task
      BY <1>5, <2>1
    <3> QED
      BY <3>1 DEF Runs
  <2>4. \A m \in Node : /\ \A i \in 1..Len(queue'[m]) : SteadyEntry(queue'[m][i])
                        /\ Len(stages'[m]) <= 1
    BY <1>2, <2>1 DEF Undisturbed
  <2> QED
    BY <1>2, <1>4, <2>1, <2>2, <2>3, <2>4 DEF Undisturbed
<1>6. CASE calls = <<>>
  <2>1. End(n, plan.changed)
    BY <1>1, <1>6
  <2>2. s2 = [Sends EXCEPT ![n] = {}]
    BY <1>6 DEF Flights
  <2>3. /\ Finished(s2, r2, n, Sends', Runs') /\ UNCHANGED <<dials, timer>>
        /\ \A m \in Node : /\ \A i \in 1..Len(queue'[m]) : SteadyEntry(queue'[m][i])
                           /\ Len(stages'[m]) <= 1
    <3> HIDE DEF s2
    <3> QED
      BY <1>1, <2>1, <2>2, EndFinishes
  <2>4. Wave(table', Sends', Runs')
    <3> HIDE DEF s2, r2
    <3> QED
      BY <1>2, <2>3, FinishKeeps
  <2> QED
    BY <1>4, <2>3, <2>4 DEF Undisturbed
<1> QED
  BY <1>5, <1>6

LEMMA AdvanceSettled ==
  ASSUME FleetInv, Undisturbed, NEW n \in Node, Advance(n)
  PROVE  Undisturbed'
<1> DEFINE s == [Sends EXCEPT ![n] = {}]
           r == [Runs EXCEPT ![n] = Head(queue[n]).task]
<1>1. /\ stages[n] # <<>> /\ queue[n] # <<>> /\ Head(stages[n]) = {} /\ StagesGood
      /\ UNCHANGED table
  BY DEF Advance, Busy, FleetInv, Exchange, BusyQueued
<1>2. stages[n][1] = {}
  BY <1>1, CallFields
<1>3. End(n, TRUE)
  <2>1. stages[n] \in Seq(SUBSET AnyCall)
    BY <1>1 DEF StagesGood
  <2>2. ~(Len(stages[n]) > 1)
    BY <2>1 DEF Undisturbed
  <2> QED
    BY <2>2 DEF Advance
<1>4. /\ Finished(s, r, n, Sends', Runs') /\ UNCHANGED <<dials, timer>>
      /\ \A m \in Node : /\ \A i \in 1..Len(queue'[m]) : SteadyEntry(queue'[m][i])
                         /\ Len(stages'[m]) <= 1
  BY <1>1, <1>2, <1>3, EndFinishes
<1>5. s = Sends /\ r = Runs
  <2>1. Sends[n] = {}
    BY <1>2 DEF Sends, Flights
  <2>2. Runs[n] = Head(queue[n]).task
    BY <1>1 DEF Runs
  <2>3. Sends = [m \in Node |-> Sends[m]] /\ Runs = [m \in Node |-> Runs[m]]
    BY DEF Sends, Runs
  <2> QED
    BY <2>1, <2>2, <2>3
<1> HIDE DEF s, r
<1>6. Wave(table', Sends', Runs')
  BY <1>1, <1>4, <1>5, FinishKeeps DEF Undisturbed
<1> QED
  BY <1>1, <1>4, <1>6 DEF Undisturbed

LEMMA StepSettled ==
  ASSUME FixedPeers, FleetInv, SettleInv, [Next]_vars
  PROVE  SettleInv'
<1>1. SUFFICES ASSUME failures' = 0
               PROVE  Undisturbed'
  BY DEF SettleInv
<1>2. failures \in Nat
  BY FleetBounds DEF FleetInv, CountersGood
<1>3. ASSUME failures' = failures + 1
      PROVE  FALSE
  BY <1>1, <1>2, <1>3
<1>4. failures' = failures => Undisturbed
  BY <1>1 DEF SettleInv
<1>5. ASSUME NEW c \in Command, Issue(c)
      PROVE  Undisturbed'
  BY <1>4, <1>5, IssueSettled DEF Issue
<1>6. ASSUME NEW n \in Node, Start(n)
      PROVE  Undisturbed'
  BY <1>4, <1>6, StartSettled DEF Start
<1>7. ASSUME NEW n \in Node, Deliver(n)
      PROVE  Undisturbed'
  BY <1>4, <1>7, DeliverSettled DEF Deliver
<1>8. ASSUME NEW n \in Node, Advance(n)
      PROVE  Undisturbed'
  BY <1>4, <1>8, AdvanceSettled DEF Advance
<1>9. ASSUME NEW n \in Node, Fail(n)
      PROVE  FALSE
  BY <1>3, <1>9 DEF Fail
\* Nobody is dialled.
<1>10. ASSUME NEW n \in Node, NEW m \in Node, Dial(n, m) \/ DialFails(n, m) \/ Redial(n, m)
       PROVE  FALSE
  <2>1. failures' = failures /\ (dials[n][m] > 0 \/ timer[n][m] > 0)
    BY <1>3, <1>10 DEF Dial, DialFails, Redial
  <2>2. dials[n][m] = 0 /\ timer[n][m] = 0
    BY <1>4, <2>1 DEF Undisturbed
  <2> QED
    BY <2>1, <2>2
<1>11. CASE UNCHANGED vars
  <2>1. Undisturbed
    BY <1>4, <1>11 DEF vars
  <2> QED
    BY <1>11, <2>1 DEF vars, Undisturbed, Sends, Runs
<1> QED
  BY <1>5, <1>6, <1>7, <1>8, <1>9, <1>10, <1>11 DEF Next

LEMMA SettledInvariant == FixedPeers => (Spec => [](FleetInv /\ SettleInv))
<1> SUFFICES ASSUME FixedPeers PROVE Spec => [](FleetInv /\ SettleInv)
  OBVIOUS
<1>1. Init => FleetInv /\ SettleInv
  BY InitFleet, InitSettled
<1>2. FleetInv /\ SettleInv /\ [Next]_vars => (FleetInv /\ SettleInv)'
  BY StepFleet, StepSettled
<1> QED
  BY <1>1, <1>2, PTL DEF Spec

\* When the queues are empty nothing is under way.
LEMMA QuietWave ==
  ASSUME FleetInv, SettleInv, Quiet, failures = 0
  PROVE  /\ Wave(table, Sends, Runs)
         /\ \A n \in Node : Sends[n] = {} /\ Runs[n] = Nothing /\ Peered(n, table[n])
<1>1. \A n \in Node : stages[n] = <<>>
  BY DEF FleetInv, Exchange, BusyQueued, Quiet
<1> QED
  BY <1>1 DEF SettleInv, Undisturbed, Sends, Runs, Flights

LEMMA QuietFacts ==
  ASSUME FleetInv, SettleInv, Quiet, failures = 0
  PROVE  /\ \A n \in Node : \A w \in table[n].routes : Carried(table, w)
         /\ \A n, m \in Node : \A key \in Key :
              <<n, m>> \in Linked /\ Offered(table, key) /\ Tells(table, n, m, key) =>
                Has(table, m, key)
         /\ \A o \in Node : \A x : table[o].local[x] = NoRoute =>
              \A n \in Node : \A w \in table[n].routes : ~(w.name = x /\ w.origin = o)
<1>1. /\ Wave(table, Sends, Runs)
      /\ \A n \in Node : Sends[n] = {} /\ Runs[n] = Nothing
  BY QuietWave
<1>2. \A n, m \in Node : Unrun(Sends, Runs, n, m) = {}
  BY <1>1 DEF Unrun
<1>3. ASSUME NEW n \in Node, NEW w \in table[n].routes
      PROVE  Carried(table, w)
  <2>1. w.peer \in Node
    BY <1>1, RouteFields DEF Wave, Orderly
  <2>2. ~Doomed(Sends, Runs, n, w)
    BY <1>2, <2>1 DEF Doomed
  <2> QED
    BY <1>1, <2>2 DEF Wave, Supported
<1>4. ASSUME NEW n \in Node, NEW m \in Node, NEW key \in Key,
             <<n, m>> \in Linked, Offered(table, key), Tells(table, n, m, key)
      PROVE  Has(table, m, key)
  <2>1. ~Coming(Sends, Runs, n, m, key)
    BY <1>2 DEF Coming
  <2> QED
    BY <1>1, <1>4, <2>1 DEF Wave, Spread
<1>5. \A o \in Node : \A x : table[o].local[x] = NoRoute =>
        \A n \in Node : \A w \in table[n].routes : ~(w.name = x /\ w.origin = o)
  BY <1>1, NoZombies
<1> QED
  BY <1>3, <1>4, <1>5

\* Among nodes whose peers are fixed, for any links between them: once every
\* queue is empty and no call has failed, a node knows every service that a
\* peer of it offers (bus.ts handleBGPNotify).  The peers have to be fixed:
\* with a peer that is deleted and created again, TLC finds the property
\* violated (MCFleetRejoin).
THEOREM SettledPeersReach == FixedPeers => (Spec => []SettledReach)
<1> SUFFICES ASSUME FixedPeers PROVE Spec => []SettledReach
  OBVIOUS
<1>1. FleetInv /\ SettleInv => SettledReach
  <2>1. SUFFICES ASSUME FleetInv, SettleInv, Quiet, failures = 0,
                        NEW n \in Node, NEW m \in Node, Up(n, m),
                        NEW x \in Name, Offers(m, x)
                 PROVE  Reaches(n, x, m)
    BY DEF SettledReach, PeersReach, Settled
  <2> DEFINE key == [name |-> x, origin |-> m]
  <2>2. <<m, n>> \in Linked
    <3>1. Peered(m, table[m])
      BY <2>1, QuietWave
    <3> QED
      BY <2>1, <3>1 DEF Peered, Up
  <2>3. key \in Key /\ key.name = x /\ key.origin = m
    BY DEF Key
  <2> HIDE DEF key
  <2>4. Offered(table, key) /\ Tells(table, m, n, key)
    BY <2>1, <2>3 DEF Offered, Offers, Tells
  <2>5. Has(table, n, key)
    BY <2>1, <2>2, <2>3, <2>4, QuietFacts
  <2> QED
    BY <2>3, <2>5 DEF Has, SameKey, Reaches
<1> QED
  BY <1>1, SettledInvariant, PTL

\* Among nodes whose peers are fixed, for any links between them: once every
\* queue is empty and no call has failed, every route leads to a peer that
\* offers the service itself or holds the rest of the path, so that no
\* withdrawal was lost on its way (bus.ts buildUpdatesForPeer, rib.ts
\* planInternalProtocolUpdate).
THEOREM SettledPathsSupported == FixedPeers => (Spec => []SettledSupported)
<1> SUFFICES ASSUME FixedPeers PROVE Spec => []SettledSupported
  OBVIOUS
<1>1. FleetInv /\ SettleInv => SettledSupported
  <2>1. SUFFICES ASSUME FleetInv, SettleInv, Quiet, failures = 0,
                        NEW n \in Node, NEW w \in table[n].routes
                 PROVE  IF Len(w.path) = 1 THEN Offers(w.origin, w.name)
                        ELSE \E q \in table[w.peer].routes :
                               SameKey(w, q) /\ q.path = Tail(w.path)
    BY DEF SettledSupported, Settled
  <2>2. Carried(table, w)
    BY <2>1, QuietFacts
  <2> QED
    BY <2>2, SameKeys DEF Carried, Offered, Offers
<1> QED
  BY <1>1, SettledInvariant, PTL

-----------------------------------------------------------------------------
(* What a settled fleet knows over any number of hops. *)

Walks(n, o, k, walk) ==
  /\ walk[0] = n /\ walk[k] = o
  /\ \A i \in 0..(k - 1) : <<walk[i], walk[i + 1]>> \in Linked
Joined(n, o) == \E k \in Nat : \E walk \in [0..k -> Node] : Walks(n, o, k, walk)

LEMMA JoinedBy ==
  ASSUME NEW n \in Node, NEW m \in Node, NEW o \in Node, <<n, m>> \in Linked, Joined(m, o)
  PROVE  Joined(n, o)
<1>1. PICK k \in Nat : \E walk \in [0..k -> Node] : Walks(m, o, k, walk)
  BY DEF Joined
<1>2. PICK walk \in [0..k -> Node] : Walks(m, o, k, walk)
  BY <1>1
<1> DEFINE longer == [i \in 0..(k + 1) |-> IF i = 0 THEN n ELSE walk[i - 1]]
<1>3. longer \in [0..(k + 1) -> Node]
  OBVIOUS
<1>4. longer[0] = n /\ longer[k + 1] = o
  BY <1>2 DEF Walks
<1>5. ASSUME NEW i \in 0..((k + 1) - 1)
      PROVE  <<longer[i], longer[i + 1]>> \in Linked
  <2>1. CASE i = 0
    <3>1. longer[0] = n /\ longer[1] = walk[0]
      OBVIOUS
    <3>2. walk[0] = m
      BY <1>2 DEF Walks
    <3>3. longer[i] = longer[0] /\ longer[i + 1] = longer[1]
      BY <2>1
    <3> HIDE DEF longer
    <3> QED
      BY <3>1, <3>2, <3>3
  <2>2. CASE i # 0
    <3> DEFINE j == i - 1
    <3>1. j \in 0..(k - 1) /\ longer[i] = walk[j] /\ longer[i + 1] = walk[j + 1]
      BY <2>2
    <3> HIDE DEF longer, j
    <3> QED
      BY <1>2, <3>1 DEF Walks
  <2> QED
    BY <2>1, <2>2
<1> HIDE DEF longer
<1>6. Walks(n, o, k + 1, longer) /\ k + 1 \in Nat
  BY <1>4, <1>5 DEF Walks
<1> QED
  BY <1>3, <1>6 DEF Joined

\* Who holds a path is joined to its origin.
LEMMA HoldersJoined ==
  ASSUME FleetInv, SettleInv, Quiet, failures = 0,
         NEW n \in Node, NEW w \in table[n].routes
  PROVE  Joined(n, w.origin)
<1> DEFINE T == {k \in Nat : \A m \in Node : \A v \in table[m].routes :
                   Len(v.path) = k => Joined(m, v.origin)}
<1>1. ASSUME NEW m \in Node, NEW v \in table[m].routes
      PROVE  /\ v.path \in Seq(Node) /\ Len(v.path) \in Nat \ {0} /\ v.peer \in Node
             /\ v.origin \in Node /\ v.path[1] = v.peer /\ v.path[Len(v.path)] = v.origin
             /\ <<m, v.peer>> \in Linked /\ Carried(table, v)
  <2>1. Orderly(table, Sends, Runs)
    BY QuietWave DEF Wave
  <2>2. GoodTable(m, table[m]) /\ <<m, v.peer>> \in Linked
    BY <2>1 DEF Orderly
  <2> QED
    BY <2>2, RouteFields, QuietFacts
<1>2. 0 \in T
  BY <1>1
<1>3. ASSUME NEW k \in Nat, k \in T
      PROVE  k + 1 \in T
  <2>1. SUFFICES ASSUME NEW m \in Node, NEW v \in table[m].routes, Len(v.path) = k + 1
                 PROVE  Joined(m, v.origin)
    OBVIOUS
  <2>2. CASE k = 0
    <3> DEFINE walk == [i \in 0..0 |-> v.origin]
    <3>1. v.peer = v.origin /\ <<m, v.peer>> \in Linked /\ v.origin \in Node
      BY <1>1, <2>1, <2>2
    <3>2. walk \in [0..0 -> Node] /\ Walks(v.origin, v.origin, 0, walk)
      BY <3>1 DEF Walks
    <3>3. Joined(v.origin, v.origin)
      BY <3>2 DEF Joined
    <3> QED
      BY <3>1, <3>3, JoinedBy
  <2>3. CASE k # 0
    <3> HIDE DEF T
    <3>6. k + 1 # 1
      BY <2>3
    <3>7. Carried(table, v)
      BY <1>1
    <3>1. Len(v.path) # 1 /\ Carried(table, v)
      BY <2>1, <3>6, <3>7
    <3>2. PICK q \in table[v.peer].routes : SameKey(q, v) /\ q.path = Tail(v.path)
      BY <3>1 DEF Carried
    <3>3. v.path \in Seq(Node) /\ v.peer \in Node /\ v.origin \in Node /\ <<m, v.peer>> \in Linked
      BY <1>1
    <3>4. Len(q.path) = k /\ q.origin = v.origin
      BY <2>1, <3>2, <3>3 DEF SameKey
    <3>8. \A a \in Node : \A u \in table[a].routes : Len(u.path) = k => Joined(a, u.origin)
      BY <1>3 DEF T
    <3>5. Joined(v.peer, v.origin)
      BY <3>2, <3>3, <3>4, <3>8
    <3> QED
      BY <3>3, <3>5, JoinedBy
  <2> QED
    BY <2>2, <2>3
<1>4. Nat \subseteq T
  <2> HIDE DEF T
  <2> QED
    BY <1>2, <1>3, NatSetInduction
<1> QED
  BY <1>1, <1>4

\* What one node of a link knows or offers, the other one knows or offers.
LEMMA KnownNextDoor ==
  ASSUME FleetInv, SettleInv, Quiet, failures = 0,
         NEW a \in Node, NEW m \in Node, <<a, m>> \in Linked,
         NEW key \in Key, Offered(table, key), a = key.origin \/ Has(table, a, key)
  PROVE  m = key.origin \/ Has(table, m, key)
<1>1. CASE Tells(table, a, m, key)
  BY <1>1, QuietFacts
<1>2. CASE ~Tells(table, a, m, key)
  <2>1. PICK w \in table[a].routes : SameKey(w, key) /\ Crosses(m, w.path)
    BY <1>2 DEF Tells, Has
  <2>2. Orderly(table, Sends, Runs) /\ Shrinking(table)
    BY QuietWave DEF Wave
  <2>3. w.path \in Seq(Node) /\ Len(w.path) \in Nat \ {0} /\ w.path[Len(w.path)] = w.origin
    BY <2>2, RouteFields DEF Orderly
  <2>4. PICK j \in 1..Len(w.path) : w.path[j] = m
    BY <2>1 DEF Crosses
  <2>5. CASE j = Len(w.path)
    BY <2>1, <2>3, <2>4, <2>5 DEF SameKey
  <2>6. CASE j # Len(w.path)
    <3>1. j \in 1..(Len(w.path) - 1)
      BY <2>3, <2>4, <2>6
    <3>2. Offered(table, w)
      BY <2>1, SameOffer
    <3>3. \E q \in table[w.path[j]].routes : SameKey(q, w)
      BY <2>2, <3>1, <3>2 DEF Shrinking
    <3>4. PICK q \in table[m].routes : SameKey(q, w)
      BY <2>4, <3>3
    <3> QED
      BY <2>1, <3>4, SameKeys DEF Has
  <2> QED
    BY <2>5, <2>6
<1> QED
  BY <1>1, <1>2

\* Among nodes whose peers are fixed, for any links between them: once every
\* queue is empty and no call has failed, a node knows a service of another
\* node if and only if that node offers it and links lead to it, over however
\* many hops (bus.ts handleBGPNotify, buildUpdatesForPeer; rib.ts
\* planInternalProtocolUpdate).  It is what Converges says of the end of every
\* fair run, here of every settled state.
SettledKnowledge ==
  (Settled /\ failures = 0) =>
    \A n, o \in Node : n # o => \A x \in Name :
      Reaches(n, x, o) <=> Offers(o, x) /\ Joined(n, o)
THEOREM SettledFleetAgrees == FixedPeers => (Spec => []SettledKnowledge)
<1> SUFFICES ASSUME FixedPeers PROVE Spec => []SettledKnowledge
  OBVIOUS
<1>1. FleetInv /\ SettleInv => SettledKnowledge
  <2>1. SUFFICES ASSUME FleetInv, SettleInv, Quiet, failures = 0,
                        NEW n \in Node, NEW o \in Node, n # o, NEW x \in Name
                 PROVE  Reaches(n, x, o) <=> Offers(o, x) /\ Joined(n, o)
    BY DEF SettledKnowledge, Settled
  <2>2. ASSUME Reaches(n, x, o)
        PROVE  Offers(o, x) /\ Joined(n, o)
    <3>1. PICK w \in table[n].routes : w.name = x /\ w.origin = o
      BY <2>2 DEF Reaches
    <3>2. table[o].local[x] # NoRoute
      BY <2>1, <3>1, QuietFacts
    <3> QED
      BY <2>1, <3>1, <3>2, HoldersJoined DEF Offers
  <2>3. ASSUME Offers(o, x), Joined(n, o)
        PROVE  Reaches(n, x, o)
    <3> DEFINE key == [name |-> x, origin |-> o]
               Knows(m) == m = o \/ Has(table, m, key)
    <3>1. key \in Key /\ key.name = x /\ key.origin = o
      BY DEF Key
    <3>2. Offered(table, key)
      BY <2>3, <3>1 DEF Offered, Offers
    <3>3. PICK k \in Nat : \E walk \in [0..k -> Node] : Walks(n, o, k, walk)
      BY <2>3 DEF Joined
    <3>4. PICK walk \in [0..k -> Node] : Walks(n, o, k, walk)
      BY <3>3
    <3> DEFINE T == {i \in Nat : i <= k => Knows(walk[k - i])}
    <3>5. 0 \in T
      <4>1. k - 0 = k /\ walk[k] = o
        BY <3>4 DEF Walks
      <4> QED
        BY <4>1
    <3>6. ASSUME NEW i \in Nat, i \in T
          PROVE  i + 1 \in T
      <4>1. SUFFICES ASSUME i + 1 <= k
                     PROVE  Knows(walk[k - (i + 1)])
        OBVIOUS
      <4> DEFINE j == k - (i + 1)
      <4>2. j \in 0..(k - 1) /\ j \in 0..k /\ j + 1 \in 0..k /\ j + 1 = k - i /\ i <= k
        BY <4>1
      <4>3. Knows(walk[j + 1])
        BY <3>6, <4>2
      <4>4. <<walk[j + 1], walk[j]>> \in Linked /\ walk[j] \in Node /\ walk[j + 1] \in Node
        <5> HIDE DEF j
        <5>1. <<walk[j], walk[j + 1]>> \in Linked
          BY <3>4, <4>2 DEF Walks
        <5> QED
          BY <4>2, <5>1, BothLinked
      <4> HIDE DEF j, key
      <4>5. walk[j] = o \/ Has(table, walk[j], key)
        BY <2>1, <3>1, <3>2, <4>3, <4>4, KnownNextDoor
      <4> QED
        BY <4>5 DEF j
    <3>7. Nat \subseteq T
      <4> HIDE DEF T
      <4> QED
        BY <3>5, <3>6, NatSetInduction
    <3>8. Knows(walk[k - k]) /\ k - k = 0 /\ walk[0] = n
      <4>1. k \in T /\ k - k = 0 /\ k <= k
        BY <3>7
      <4>2. walk[0] = n
        BY <3>4 DEF Walks
      <4> QED
        BY <4>1, <4>2
    <3>9. Has(table, n, key)
      BY <2>1, <3>8
    <3> HIDE DEF key
    <3> QED
      BY <3>1, <3>9 DEF Has, SameKey, Reaches
  <2> QED
    BY <2>2, <2>3
<1> QED
  BY <1>1, SettledInvariant, PTL
===============================================================================
