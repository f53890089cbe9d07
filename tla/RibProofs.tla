------------------------------- MODULE RibProofs -------------------------------
(***************************************************************************)
(* Proofs about the RoutingInformationBase, for every set of nodes, names, *)
(* paths and hold times and without a bound on time.                       *)
(*                                                                         *)
(* The invariants: the table stays sound, because every planner keeps it   *)
(* so (PlanProofs).  The action properties, what one dispatched action may *)
(* never do to a sound table: most planners are calm, they leave the       *)
(* learned routes alone, announce none and end no session; only the        *)
(* deletion of a peer, the close of its session, an update and a tick are  *)
(* not.  Each property is proved for those four, and once for all calm     *)
(* steps.                                                                  *)
(***************************************************************************)
EXTENDS Rib, PlanProofs

(* The inductive invariant of the specification, and the theorems. *)

SoundRib == SoundTable(Self, table) /\ changes \subseteq Change /\ now \in Nat \ {0}

LEMMA CommitSound ==
  ASSUME SoundRib, NEW plan, SoundPlan(Self, plan), Commit(plan)
  PROVE  SoundRib'
BY DEF SoundRib, SoundPlan, Commit, SoundTable, UniqueIn, LoopFreeIn,
       StaleOwnedIn

LEMMA ItemType ==
  ASSUME NEW p \in Node, NEW items \in UpdatesFrom(p)
  PROVE  items \subseteq UpdateItem /\ DistinctKeys(items)
<1>1. \A q \in Path : q \in Seq(Node) /\ q[Len(q)] \in Node
  BY PathAssumption
<1>2. ItemsFrom(p) \subseteq UpdateItem
  BY <1>1 DEF ItemsFrom, UpdateItem
<1> QED
  BY <1>2 DEF UpdatesFrom

LEMMA InitSound == Init => SoundRib
BY DEF Init, SoundRib, SoundTable, newRouteTable, Table, AbsentPeer,
       PeerRecord, Status, UniqueIn, LoopFreeIn, StaleOwnedIn

LEMMA NextSound == SoundRib /\ [Next]_vars => SoundRib'
<1> SUFFICES ASSUME SoundRib, [Next]_vars PROVE SoundRib'
  OBVIOUS
<1> USE SelfAssumption DEF SoundRib
<1>1. ASSUME NEW p \in Peer, NEW info \in Info,
             LocalPeerCreate(p, info) \/ LocalPeerUpdate(p, info)
      PROVE  SoundRib'
  BY <1>1, LocalPeerCreateSound, LocalPeerUpdateSound, CommitSound
     DEF LocalPeerCreate, LocalPeerUpdate, Dispatch
<1>2. ASSUME NEW p \in Peer, LocalPeerDelete(p)
      PROVE  SoundRib'
  BY <1>2, LocalPeerDeleteSound, CommitSound DEF LocalPeerDelete, Dispatch
<1>3. ASSUME NEW p \in Peer, NEW hold \in Hold \cup {NoHold},
             InternalProtocolOpen(p, hold)
      PROVE  SoundRib'
  BY <1>3, HoldAssumption, InternalProtocolOpenSound, CommitSound
     DEF InternalProtocolOpen, Dispatch
<1>4. ASSUME NEW p \in Peer, InternalProtocolConnected(p)
      PROVE  SoundRib'
  BY <1>4, InternalProtocolConnectedSound, CommitSound
     DEF InternalProtocolConnected, Dispatch
<1>5. ASSUME NEW p \in Peer, NEW code \in CloseCodes,
             InternalProtocolClose(p, code)
      PROVE  SoundRib'
  BY <1>5, InternalProtocolCloseSound, CommitSound
     DEF InternalProtocolClose, Dispatch
<1>6. ASSUME NEW p \in Peer, NEW items \in UpdatesFrom(p),
             InternalProtocolUpdate(p, items)
      PROVE  SoundRib'
  BY <1>6, ItemType, InternalProtocolUpdateSound, CommitSound
     DEF InternalProtocolUpdate, Dispatch
<1>7. ASSUME NEW p \in Peer, InternalProtocolKeepalive(p)
      PROVE  SoundRib'
  BY <1>7, InternalProtocolKeepaliveSound, CommitSound
     DEF InternalProtocolKeepalive, Dispatch
<1>8. ASSUME NEW n \in Name, NEW d \in Data,
             \/ LocalRouteCreate(n, d) \/ LocalRouteHealthUpdate(n, d)
      PROVE  SoundRib'
  BY <1>8, LocalRouteSound, CommitSound
     DEF LocalRouteCreate, LocalRouteHealthUpdate, Dispatch
<1>9. ASSUME NEW n \in Name, LocalRouteDelete(n)
      PROVE  SoundRib'
  BY <1>9, LocalRouteSound, CommitSound DEF LocalRouteDelete, Dispatch
<1>10. ASSUME NEW at \in 1..now, Tick(at)
       PROVE  SoundRib'
  BY <1>10, TickSound, CommitSound DEF Tick
<1>11. CASE PassTime
  BY <1>11 DEF PassTime, SoundTable, UniqueIn, LoopFreeIn, StaleOwnedIn
<1>12. CASE UNCHANGED vars
  BY <1>12 DEF vars, SoundTable, UniqueIn, LoopFreeIn, StaleOwnedIn
<1> QED
  BY <1>1, <1>2, <1>3, <1>4, <1>5, <1>6, <1>7, <1>8, <1>9, <1>10, <1>11, <1>12
     DEF Next

LEMMA SoundImplies ==
  SoundRib => TypeOK /\ OneRoutePerKey /\ LoopFree /\ StaleHasPeer
BY DEF SoundRib, SoundTable, TypeOK, Change, OneRoutePerKey, UniqueIn,
       LoopFree, LoopFreeIn, StaleHasPeer, StaleOwnedIn

\* The table, the announced changes and the clock keep their types, whatever
\* the bus dispatches.
THEOREM TypeCorrect == Spec => []TypeOK
BY InitSound, NextSound, SoundImplies, PTL DEF Spec

\* Best-path selection keeps one route per service and origin.
THEOREM RoutesUnique == Spec => []OneRoutePerKey
BY InitSound, NextSound, SoundImplies, PTL DEF Spec

\* No learned route crosses this node.
THEOREM NoRoutingLoop == Spec => []LoopFree
BY InitSound, NextSound, SoundImplies, PTL DEF Spec

\* Stale routes belong to peers that have had a session.
THEOREM StaleRoutesOwned == Spec => []StaleHasPeer
BY InitSound, NextSound, SoundImplies, PTL DEF Spec

-----------------------------------------------------------------------------
(* The kinds of steps. *)


CalmStep == \E plan : Calm(table, plan) /\ Commit(plan)

\* What a step of the specification can be.
LEMMA StepKinds ==
  ASSUME SoundRib, [Next]_vars
  PROVE  \/ CalmStep
         \/ \E p \in Peer : Commit(PlanLocalPeerDelete(table, p))
         \/ \E p \in Peer, code \in CloseCodes :
              Commit(PlanInternalProtocolClose(table, p, code))
         \/ \E p \in Peer : \E items \in UpdatesFrom(p) :
              Commit(PlanInternalProtocolUpdate(Self, table, p, items, now))
         \/ \E at \in 1..now : Tick(at)
         \/ UNCHANGED <<table, changes>>
<1> USE SelfAssumption
<1>0. table \in Table
  BY DEF SoundRib, SoundTable
<1>1. ASSUME NEW p \in Peer, NEW info \in Info,
             LocalPeerCreate(p, info) \/ LocalPeerUpdate(p, info)
      PROVE  CalmStep
  BY <1>0, <1>1, LocalPeerCalm
     DEF LocalPeerCreate, LocalPeerUpdate, Dispatch, CalmStep
<1>2. ASSUME NEW p \in Peer, NEW hold \in Hold \cup {NoHold},
             \/ InternalProtocolOpen(p, hold)
             \/ InternalProtocolConnected(p) \/ InternalProtocolKeepalive(p)
      PROVE  CalmStep
  BY <1>0, <1>2, SessionCalm
     DEF InternalProtocolOpen, InternalProtocolConnected,
         InternalProtocolKeepalive, Dispatch, CalmStep
<1>3. ASSUME NEW n \in Name, NEW d \in Data,
             \/ LocalRouteCreate(n, d) \/ LocalRouteHealthUpdate(n, d)
      PROVE  CalmStep
  BY <1>0, <1>3, LocalRouteCalm
     DEF LocalRouteCreate, LocalRouteHealthUpdate, Dispatch, CalmStep
<1>4. ASSUME NEW n \in Name, LocalRouteDelete(n)
      PROVE  CalmStep
  BY <1>0, <1>4, LocalRouteCalm DEF LocalRouteDelete, Dispatch, CalmStep
<1> QED
  BY <1>1, <1>2, <1>3, <1>4
     DEF Next, LocalPeerDelete, InternalProtocolClose, InternalProtocolUpdate,
         PassTime, Dispatch, vars

-----------------------------------------------------------------------------
(* Paths only improve. *)

LEMMA StepImproves ==
  ASSUME SoundRib, [Next]_vars
  PROVE  Improves(table.routes, table'.routes)
<1> USE SelfAssumption
<1>1. SoundTable(Self, table) /\ table \in Table /\ UniqueIn(table.routes)
  BY DEF SoundRib, SoundTable
<1>2. CASE CalmStep
  BY <1>1, <1>2, KeptImproves DEF CalmStep, Calm, Commit
<1>3. ASSUME NEW p \in Peer, Commit(PlanLocalPeerDelete(table, p))
      PROVE  Improves(table.routes, table'.routes)
  BY <1>1, <1>3, KeptImproves, DeleteRoutes DEF Commit
<1>4. ASSUME NEW p \in Peer, NEW code \in CloseCodes,
             Commit(PlanInternalProtocolClose(table, p, code))
      PROVE  Improves(table.routes, table'.routes)
  BY <1>1, <1>4, CloseImproves DEF Commit
<1>5. ASSUME NEW p \in Peer, NEW items \in UpdatesFrom(p),
             Commit(PlanInternalProtocolUpdate(Self, table, p, items, now))
      PROVE  Improves(table.routes, table'.routes)
  BY <1>1, <1>5, UpdateImproves DEF Commit
<1>6. ASSUME NEW at \in 1..now, Tick(at)
      PROVE  Improves(table.routes, table'.routes)
  <2>1. table'.routes \subseteq table.routes
    BY <1>1, <1>6, TickRoutes DEF Tick, Commit
  <2> QED
    BY <1>1, <2>1, KeptImproves
<1>7. CASE UNCHANGED <<table, changes>>
  BY <1>1, <1>7, KeptImproves
<1> QED
  BY <1>2, <1>3, <1>4, <1>5, <1>6, <1>7, StepKinds

\* The path to a service that stays in the table and is fresh is only ever
\* replaced by a strictly shorter one, whatever the bus dispatches.
THEOREM PathsImprove == Spec => PathOnlyImproves
<1>1. SoundRib /\ [Next]_vars =>
        [\A r \in table.routes, s \in table'.routes :
           (SameKey(r, s) /\ ~r.stale /\ r.path # s.path)
             => Len(s.path) < Len(r.path)]_table
  BY StepImproves DEF Improves
<1> QED
  BY <1>1, InitSound, NextSound, PTL DEF Spec, PathOnlyImproves

-----------------------------------------------------------------------------
(* Expiry and loss. *)

\* A peer heard from within its hold time is not overdue for any tick: a tick
\* carries the time it was created, which is never ahead of the clock.
LEMMA HeardNotOverdue ==
  ASSUME SoundRib, NEW p \in Node, HeardFrom(p), NEW at \in 1..now
  PROVE  p \notin Expired(table, at) \cup GraceOver(table, at)
<1>1. table.peers[p] \in PeerRecord /\ now \in Nat
  BY DEF SoundRib, SoundTable, Table
<1>2. /\ table.peers[p].lastReceived \in Nat
      /\ table.peers[p].hold \in Nat
  BY <1>1 DEF PeerRecord
<1>3. ~Overdue(table.peers[p], at)
  BY <1>1, <1>2 DEF HeardFrom, Overdue
<1> QED
  BY <1>3 DEF Expired, GraceOver

LEMMA TickSparesHeard ==
  ASSUME SoundRib, NEW at \in 1..now, Tick(at), NEW p \in Node, HeardFrom(p)
  PROVE  /\ table'.peers[p] = table.peers[p]
         /\ RoutesVia(table', p) = RoutesVia(table, p)
<1>1. table \in Table
  BY DEF SoundRib, SoundTable
<1>2. p \notin Expired(table, at) \cup GraceOver(table, at)
  BY HeardNotOverdue
<1>3. table'.peers[p] = table.peers[p]
  BY <1>1, <1>2, TickPeers DEF Tick, Commit
<1>4. table'.routes =
        {r \in table.routes : r.peer \notin Expired(table, at) \cup GraceOver(table, at)}
  BY <1>1, TickRoutes DEF Tick, Commit
<1> QED
  BY <1>2, <1>3, <1>4 DEF RoutesVia

\* However late a tick is processed, it neither times out nor purges a peer
\* that has been heard from within its hold time.
THEOREM NoPeerExpiredEarly == Spec => NoEarlyExpiry
<1>1. SoundRib /\ [Next]_vars =>
        [(\E at \in 1..now : Tick(at)) =>
           \A p \in Node : HeardFrom(p) =>
             /\ table'.peers[p] = table.peers[p]
             /\ RoutesVia(table', p) = RoutesVia(table, p)]_table
  BY TickSparesHeard
<1> QED
  BY <1>1, InitSound, NextSound, PTL DEF Spec, NoEarlyExpiry

\* What the loss of one peer's session may cost of the others' routes.
Isolated ==
  \A p \in Node :
    ( /\ table.peers[p].status # table'.peers[p].status
      /\ table'.peers[p].status \in {"closed", "absent"} ) =>
      \A r \in table.routes :
        (r.peer # p /\ r \notin table'.routes) =>
          Known(table, r.peer) /\ ~HeardFrom(r.peer)

LEMMA StepIsolated ==
  ASSUME SoundRib, [Next]_vars
  PROVE  Isolated
<1> USE SelfAssumption
<1>1. /\ SoundTable(Self, table) /\ table \in Table /\ now \in Nat
      /\ \A r \in table.routes : r.peer \in Node
  BY DEF SoundRib, SoundTable, Table, InternalRoute
<1>2. CASE CalmStep
  BY <1>2 DEF CalmStep, Calm, Commit, Ended, Isolated
<1>3. ASSUME NEW p \in Peer,
             \/ Commit(PlanLocalPeerDelete(table, p))
             \/ \E code \in CloseCodes :
                  Commit(PlanInternalProtocolClose(table, p, code))
      PROVE  Isolated
  <2>1. /\ \A q \in Node \ {p} : table'.peers[q] = table.peers[q]
        /\ table.routes \ RoutesVia(table, p) \subseteq table'.routes
    BY <1>1, <1>3, EndOfOne DEF Commit
  <2> QED
    BY <2>1 DEF RoutesVia, Isolated
<1>4. ASSUME NEW p \in Peer, NEW items \in UpdatesFrom(p),
             Commit(PlanInternalProtocolUpdate(Self, table, p, items, now))
      PROVE  Isolated
  BY <1>1, <1>4, UpdatePeers DEF Commit, Isolated
<1>5. ASSUME NEW at \in 1..now, Tick(at)
      PROVE  Isolated
  <2>1. ASSUME NEW r \in table.routes, r \notin table'.routes
        PROVE  Known(table, r.peer) /\ ~HeardFrom(r.peer)
    <3>1. r.peer \in Expired(table, at) \cup GraceOver(table, at)
      BY <1>1, <1>5, <2>1, TickRoutes DEF Tick, Commit
    <3>2. Known(table, r.peer)
      BY <3>1 DEF Known, Expired, GraceOver
    <3>3. ~HeardFrom(r.peer)
      BY <1>1, <3>1, HeardNotOverdue
    <3> QED
      BY <3>2, <3>3
  <2> QED
    BY <2>1 DEF Isolated
<1>6. CASE UNCHANGED <<table, changes>>
  BY <1>6 DEF Isolated
<1> QED
  BY <1>2, <1>3, <1>4, <1>5, <1>6, StepKinds

\* Losing one peer's session never costs a route learned from another peer
\* that is still being heard from.
THEOREM LossStaysLocal == Spec => LossIsIsolated
<1>1. SoundRib /\ [Next]_vars =>
        [\A p \in Node :
           ( /\ table.peers[p].status # table'.peers[p].status
             /\ table'.peers[p].status \in {"closed", "absent"} ) =>
             \A r \in table.routes :
               (r.peer # p /\ r \notin table'.routes) =>
                 Known(table, r.peer) /\ ~HeardFrom(r.peer)]_table
  BY StepIsolated DEF Isolated
<1> QED
  BY <1>1, InitSound, NextSound, PTL DEF Spec, LossIsIsolated

-----------------------------------------------------------------------------
(* The announced changes describe what happened to the table. *)

LEMMA StepFollows ==
  ASSUME SoundRib, [Next]_vars, ~UNCHANGED <<table, changes>>
  PROVE  Follows(table.routes, changes', table'.routes)
<1> USE SelfAssumption
<1>1. SoundTable(Self, table) /\ table \in Table
  BY DEF SoundRib, SoundTable
<1>2. CASE CalmStep
  BY <1>2, CalmFollows DEF CalmStep, Commit
<1>3. ASSUME NEW p \in Peer, Commit(PlanLocalPeerDelete(table, p))
      PROVE  Follows(table.routes, changes', table'.routes)
  BY <1>1, <1>3, DeleteFollows DEF Commit
<1>4. ASSUME NEW p \in Peer, NEW code \in CloseCodes,
             Commit(PlanInternalProtocolClose(table, p, code))
      PROVE  Follows(table.routes, changes', table'.routes)
  BY <1>1, <1>4, CloseFollows DEF Commit
<1>5. ASSUME NEW p \in Peer, NEW items \in UpdatesFrom(p),
             Commit(PlanInternalProtocolUpdate(Self, table, p, items, now))
      PROVE  Follows(table.routes, changes', table'.routes)
  BY <1>1, <1>5, UpdateFollows, ItemType DEF Commit
<1>6. ASSUME NEW at \in 1..now, Tick(at)
      PROVE  Follows(table.routes, changes', table'.routes)
  BY <1>1, <1>6, TickFollows DEF Tick, Commit
<1> QED
  BY <1>2, <1>3, <1>4, <1>5, <1>6, StepKinds

\* The changes a dispatch announces are what happened to the routes: whoever
\* applies them to the routes before holds the routes after.
THEOREM ChangesSuffice == Spec => ChangesDescribeDelta
<1> DEFINE removed == Internal(ChangeOf("removed"))
           put == Internal(ChangeOf("added") \cup ChangeOf("updated"))
<1>1. SoundRib /\ [Next]_vars =>
        [ /\ removed \subseteq table.routes
          /\ \A r \in Internal(ChangeOf("added")) :
               \A s \in table.routes : ~SameKey(r, s)
          /\ table'.routes =
               {r \in table.routes \ removed : \A s \in put : ~SameKey(r, s)}
                 \cup put ]_<<table, changes>>
  BY StepFollows DEF Follows, ChangeOf, Of
<1> QED
  BY <1>1, InitSound, NextSound, PTL DEF Spec, ChangesDescribeDelta
===============================================================================
