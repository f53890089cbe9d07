-------------------------------- MODULE Fleet --------------------------------
(***************************************************************************)
(* Orchestrators that peer with each other: the bus of every node          *)
(* (apps/orchestrator/src/v2/bus.ts), its action queue (action-queue.ts),  *)
(* the dialling of peers (service.ts, reconnect.ts) and the iBGP calls     *)
(* between nodes (ws-transport.ts, rpc.ts).                                *)
(*                                                                         *)
(* A node runs one task of its queue at a time.  A task plans and commits  *)
(* in one step; the calls its post-commit phase makes to peers then go out *)
(* in stages, and the task ends, letting the next one start, only when     *)
(* every call has been answered: handlePostCommit is awaited inside the    *)
(* queued function, and a peer answers an update when its own dispatch of  *)
(* that update has ended.  No call has a timeout; a call fails only when    *)
(* its connection does, before the peer has it or after.                   *)
(*                                                                         *)
(* A node dials a peer when the peer is created, and again by timer while  *)
(* the peer refuses.  Time does not appear: every peer record is written   *)
(* at one instant, so no session expires here.                             *)
(***************************************************************************)
EXTENDS BusActions

CONSTANTS
  Linked,       \* pairs of nodes whose sessions are up at the start
  Command,      \* who may dispatch what: records [at, task]
  OneAtATime,   \* commands wait until every queue is empty
  MaxCommands,  \* bound: commands dispatched
  MaxFailures   \* bound: calls that fail

ASSUME LinkedAssumption ==
  Linked \subseteq Node \X Node /\ \A l \in Linked : <<l[2], l[1]>> \in Linked
ASSUME InfoAssumption == Info # {}
ASSUME FleetBounds == MaxCommands \in Nat /\ MaxFailures \in Nat

VARIABLES
  table,     \* table[n]: the route table of n
  queue,     \* queue[n]: tasks of n, the first one running if stages[n] # <<>>
  stages,    \* stages[n]: sets of calls the running task of n still has to make
  dials,     \* dials[n][m]: openPeer calls of n that have not reached m yet
  timer,     \* timer[n][m]: reconnect timers of n for m
  commands,  \* commands dispatched so far
  failures   \* calls failed so far

vars == <<table, queue, stages, dials, timer, commands, failures>>

Clock == 1
Conf == CHOOSE i \in Info : TRUE

-----------------------------------------------------------------------------
(* A queue holds actions of the bus, each with who waits for its end: a    *)
(* running task of the peer ("call"), its openPeer ("dial") or nobody.     *)

Entry(task, reply) == [task |-> task, reply |-> reply]

\* A tick at which keepalives are due to some peers; no hold timer has run out.
KeepaliveTick(due) == [type |-> "Tick", at |-> Clock, due |-> due]

\* What operators, the health checker and the tick timer may dispatch (rpc.ts).
Dispatchable ==
  {PeerCreate(p, i) : p \in Node, i \in Info} \cup {PeerUpdate(p, i) : p \in Node, i \in Info}
    \cup {PeerDelete(p) : p \in Node}
    \cup {RouteCreate(s, d) : s \in Name, d \in Data}
    \cup {RouteHealth(s, d) : s \in Name, d \in Data}
    \cup {RouteDelete(s) : s \in Name}
    \cup {KeepaliveTick(due) : due \in SUBSET Node}

ASSUME CommandAssumption == Command \subseteq [at : Node, task : Dispatchable]

-----------------------------------------------------------------------------
(* What a node tells its peers.                                            *)

\* Faulty: a transit node forwards the path it received as it is.
ItemUnprefixed(n, action, r) ==
  IF isInternalRoute(r)
  THEN [action |-> action, name |-> r.name, origin |-> r.origin,
        path |-> r.path, data |-> r.data]
  ELSE [action |-> action, name |-> r.name, origin |-> n,
        path |-> <<n>>, data |-> r.data]

ItemFor(n, action, r) ==
  IF isInternalRoute(r)
  THEN [action |-> action, name |-> r.name, origin |-> r.origin,
        path |-> <<n>> \o r.path, data |-> r.data]
  ELSE [action |-> action, name |-> r.name, origin |-> n,
        path |-> <<n>>, data |-> r.data]

\* Faulty: no split horizon and no loop guard.
TellsAnyone(m, r) == TRUE

\* Split horizon and loop guard: not to the peer it came from, nor to one the
\* path already crosses.
MayTell(m, r) ==
  isInternalRoute(r) => r.peer # m /\ ~Crosses(m, r.path)

\* Faulty: learned routes are forwarded when they come, not when they go.
ForwardsAddsOnly(n, m, changes) ==
  {ItemFor(n, IF c.type = "removed" THEN "remove" ELSE "add", c.route) :
     c \in {d \in changes : /\ MayTell(m, d.route)
                            /\ isInternalRoute(d.route) => d.type # "removed"}}

\* Faulty: a node's own services go out with the sync only.
ForwardsLearnedOnly(n, m, changes) ==
  {ItemFor(n, IF c.type = "removed" THEN "remove" ELSE "add", c.route) :
     c \in {d \in changes : isInternalRoute(d.route) /\ MayTell(m, d.route)}}

buildUpdatesForPeer(n, m, changes) ==
  {ItemFor(n, IF c.type = "removed" THEN "remove" ELSE "add", c.route) :
     c \in {d \in changes : MayTell(m, d.route)}}

\* Faulty: what this node offers itself is not synced.
SyncsLearnedOnly(n, m, t) ==
  {ItemFor(n, "add", r) : r \in {s \in t.routes : ~s.stale /\ MayTell(m, s)}}

syncRoutesToPeer(n, m, t) ==
  LET own     == {AsLocal(s, t.local[s]) : s \in {x \in Name : t.local[x] # NoRoute}}
      learned == {r \in t.routes : ~r.stale}
  IN  {ItemFor(n, "add", r) : r \in {s \in own \cup learned : MayTell(m, s)}}

\* A call that has not reached its target yet.
Call(m, task) == [to |-> m, task |-> task, delivered |-> FALSE]

\* What task has n tell m: all it knows when the session is new, else what the
\* task changed.
Told(n, task, plan, m) ==
  IF task.type = "InternalProtocolConnected"
  THEN syncRoutesToPeer(n, m, plan.table)
  ELSE buildUpdatesForPeer(n, m, plan.changes)

connectedPeers(t) == {m \in Node : t.peers[m].status = "connected"}

UpdateCalls(n, task, plan) ==
  {Call(m, Update(n, Told(n, task, plan, m))) :
     m \in {k \in connectedPeers(plan.table) :
             /\ task.type = "InternalProtocolConnected" => k = task.peer
             /\ Told(n, task, plan, k) # {}}}

Stage(calls) == IF calls = {} THEN <<>> ELSE <<calls>>

\* The stages of calls a task makes after its plan.
Notify(n, task, plan) ==
  IF task.type = "Tick"
  THEN Stage({Call(m, Keepalive(n)) : m \in task.due \cap connectedPeers(plan.table)})
  ELSE IF ~plan.changed THEN <<>>
  ELSE IF task.type = "LocalPeerDelete"
  THEN <<{Call(task.peer, Close(n, "NORMAL"))}>> \o Stage(UpdateCalls(n, task, plan))
  ELSE Stage(UpdateCalls(n, task, plan))

-----------------------------------------------------------------------------
(* Actions. *)

Busy(n) == stages[n] # <<>>
Quiet == \A n \in Node : queue[n] = <<>>
Settled == Quiet /\ \A n, m \in Node : dials[n][m] = 0 /\ timer[n][m] = 0

EstablishedTable(n) ==
  [newRouteTable EXCEPT !.peers =
     [m \in Node |-> IF <<n, m>> \in Linked
                     THEN [status |-> "connected", info |-> Conf,
                           hold |-> DefaultHold, lastReceived |-> Clock]
                     ELSE AbsentPeer]]

Init ==
  /\ table = [n \in Node |-> EstablishedTable(n)]
  /\ queue = [n \in Node |-> <<>>]
  /\ stages = [n \in Node |-> <<>>]
  /\ dials = [n \in Node |-> [m \in Node |-> 0]]
  /\ timer = [n \in Node |-> [m \in Node |-> 0]]
  /\ commands = 0
  /\ failures = 0

\* An operator whose token was accepted (rpc.ts), a health check or the tick
\* timer dispatches an action.
Issue(c) ==
  /\ commands < MaxCommands
  /\ OneAtATime => Quiet
  /\ commands' = commands + 1
  /\ queue' = [queue EXCEPT ![c.at] = Append(@, Entry(c.task, "none"))]
  /\ UNCHANGED <<table, stages, dials, timer, failures>>

\* Faulty: a second timer is set beside a pending one.
RescheduleTwice(n, m) == timer' = [timer EXCEPT ![n][m] = @ + 1]

\* The pending timer, if there is one, is kept.
scheduleReconnect(n, m) ==
  timer' = [timer EXCEPT ![n][m] = IF @ = 0 THEN 1 ELSE @]

\* Faulty: a peer is dialled when it is known already, not when it is created.
DialKnown(n, task, changed) ==
  dials' = IF task.type = "LocalPeerCreate" /\ ~changed
           THEN [dials EXCEPT ![n][task.peer] = @ + 1] ELSE dials

\* A created peer is dialled.
DialCreated(n, task, changed) ==
  dials' = IF task.type = "LocalPeerCreate" /\ changed
           THEN [dials EXCEPT ![n][task.peer] = @ + 1] ELSE dials

\* What n's end of a task is to those who wait for it: the caller goes on; an
\* answered OPEN makes the dialling node dispatch Connected, a refused one is
\* tried again later.
Answered(k, n) == {c \in Head(stages[k]) : ~(c.to = n /\ c.delivered)}
End(n, changed) ==
  LET head == Head(queue[n])
      task == head.task
      rest == [queue EXCEPT ![n] = Tail(@)]
  IN  /\ stages' = IF head.reply = "call"
                   THEN [stages EXCEPT ![n] = <<>>, ![task.peer][1] = Answered(task.peer, n)]
                   ELSE [stages EXCEPT ![n] = <<>>]
      /\ queue' = IF head.reply = "dial" /\ changed
                  THEN [rest EXCEPT ![task.peer] = Append(@, Entry(Connected(n), "none"))]
                  ELSE rest
      /\ IF head.reply = "dial" /\ ~changed THEN scheduleReconnect(task.peer, n)
         ELSE UNCHANGED timer
      /\ DialCreated(n, task, changed)

\* The next task of n plans and commits, and starts the calls that follow.
Start(n) ==
  /\ queue[n] # <<>> /\ ~Busy(n)
  /\ LET task  == Head(queue[n]).task
         plan  == Plan(n, table[n], task, Clock)
         calls == Notify(n, task, plan)
     IN  /\ table' = [table EXCEPT ![n] = plan.table]
         /\ IF calls = <<>> THEN End(n, plan.changed)
            ELSE /\ stages' = [stages EXCEPT ![n] = calls]
                 /\ UNCHANGED <<queue, dials, timer>>
  /\ UNCHANGED <<commands, failures>>

\* A call reaches its peer and joins that peer's queue.
Deliver(n) ==
  /\ Busy(n)
  /\ \E c \in Head(stages[n]) :
       /\ ~c.delivered
       /\ stages' = [stages EXCEPT ![n][1] = (@ \ {c}) \cup {[c EXCEPT !.delivered = TRUE]}]
       /\ queue' = [queue EXCEPT ![c.to] = Append(@, Entry(c.task, "call"))]
  /\ UNCHANGED <<table, dials, timer, commands, failures>>

\* Faulty: the task goes on once its calls are sent, not when they are answered.
AdvanceUnanswered(n) ==
  /\ Busy(n) /\ \A c \in Head(stages[n]) : c.delivered
  /\ IF Len(stages[n]) > 1
     THEN stages' = [stages EXCEPT ![n] = Tail(@)] /\ UNCHANGED <<queue, dials, timer>>
     ELSE End(n, TRUE)
  /\ UNCHANGED <<table, commands, failures>>

\* Every call of a stage has been answered or has failed.
Advance(n) ==
  /\ Busy(n) /\ Head(stages[n]) = {}
  /\ IF Len(stages[n]) > 1
     THEN stages' = [stages EXCEPT ![n] = Tail(@)] /\ UNCHANGED <<queue, dials, timer>>
     ELSE End(n, TRUE)
  /\ UNCHANGED <<table, commands, failures>>

\* The connection under a call breaks, before the peer has the call or after;
\* the error is swallowed and the peer's answer, if any, goes nowhere.
Fail(n) ==
  /\ Busy(n) /\ failures < MaxFailures
  /\ failures' = failures + 1
  /\ \E c \in Head(stages[n]) :
       /\ stages' = [stages EXCEPT ![n][1] = @ \ {c}]
       /\ queue' = [queue EXCEPT ![c.to] =
            [i \in DOMAIN @ |->
               IF @[i] = Entry(c.task, "call") THEN Entry(c.task, "none") ELSE @[i]]]
  /\ UNCHANGED <<table, dials, timer, commands>>

\* openPeer reaches the peer, or fails and is tried again later.
Dial(n, m) ==
  /\ dials[n][m] > 0
  /\ dials' = [dials EXCEPT ![n][m] = @ - 1]
  /\ queue' = [queue EXCEPT ![m] = Append(@, Entry(Open(n, DefaultHold), "dial"))]
  /\ UNCHANGED <<table, stages, timer, commands, failures>>

DialFails(n, m) ==
  /\ dials[n][m] > 0 /\ failures < MaxFailures
  /\ failures' = failures + 1
  /\ dials' = [dials EXCEPT ![n][m] = @ - 1]
  /\ scheduleReconnect(n, m)
  /\ UNCHANGED <<table, queue, stages, commands>>

\* The reconnect timer fires, whether or not the peer is still configured.
Redial(n, m) ==
  /\ timer[n][m] > 0
  /\ timer' = [timer EXCEPT ![n][m] = @ - 1]
  /\ dials' = [dials EXCEPT ![n][m] = @ + 1]
  /\ UNCHANGED <<table, queue, stages, commands, failures>>

Next ==
  \/ \E c \in Command : Issue(c)
  \/ \E n \in Node : Start(n) \/ Deliver(n) \/ Advance(n) \/ Fail(n)
  \/ \E n, m \in Node : Dial(n, m) \/ DialFails(n, m) \/ Redial(n, m)

Spec == Init /\ [][Next]_vars

\* Every node keeps running its queue, calls reach their peers, timers fire.
FairSpec ==
  /\ Spec
  /\ \A n \in Node : WF_vars(Start(n)) /\ WF_vars(Deliver(n)) /\ WF_vars(Advance(n))
  /\ \A n, m \in Node : WF_vars(Dial(n, m)) /\ WF_vars(Redial(n, m))

-----------------------------------------------------------------------------
(* Invariants. *)

InFlight ==
  UNION {{[from |-> n, to |-> c.to, task |-> c.task] :
            c \in UNION {stages[n][i] : i \in DOMAIN stages[n]}} : n \in Node}

\* The parts of the state have their types; there is at most one reconnect
\* timer per peer (reconnect.ts scheduleReconnect).
TypeOK ==
  /\ table \in [Node -> Table]
  /\ \A n, m \in Node : dials[n][m] \in Nat /\ timer[n][m] \in 0..1
  /\ \A n \in Node : \A i \in DOMAIN queue[n] :
       queue[n][i].reply \in {"none", "call", "dial"}
  /\ \A c \in InFlight : c.to \in Node
  /\ commands \in 0..MaxCommands /\ failures \in 0..MaxFailures

\* Every path a node holds is a walk the advertisement really took: from the
\* peer that sent it to the origin, never through this node, and no node twice.
PathsAreWalks ==
  \A n \in Node : \A r \in table[n].routes :
    /\ r.path[1] = r.peer
    /\ r.path[Len(r.path)] = r.origin
    /\ \A i, j \in DOMAIN r.path : r.path[i] = r.path[j] => i = j
    /\ ~Crosses(n, r.path)

\* The tasks of m that n still waits for, or would wait for had the call not
\* been cut off.
CallsAt(n, m) ==
  {i \in DOMAIN queue[m] :
     /\ queue[m][i].task.type \in {"InternalProtocolUpdate", "InternalProtocolClose",
                                   "InternalProtocolKeepalive"}
     /\ queue[m][i].task.peer = n}

\* A delivered call that is still awaited has exactly one entry in its peer's
\* queue, and such an entry is awaited: no answer is lost or sent twice.
CallsMatched ==
  \A n, m \in Node :
    Cardinality({i \in CallsAt(n, m) : queue[m][i].reply = "call"}) =
    Cardinality({c \in IF Busy(n) THEN Head(stages[n]) ELSE {} :
                   c.to = m /\ c.delivered})

Up(n, m) ==
  table[n].peers[m].status = "connected" /\ table[m].peers[n].status = "connected"
Reaches(n, s, o) == \E r \in table[n].routes : r.name = s /\ r.origin = o
Offers(o, s) == table[o].local[s] # NoRoute

PeersReach ==
  \A n, m \in Node : Up(n, m) => \A s \in Name : Offers(m, s) => Reaches(n, s, m)

\* Once everything has settled without failures, a node whose session with a
\* peer is up on both sides knows every service that peer offers (bus.ts
\* handleBGPNotify: full sync when connected, deltas afterwards).
SettledReach == (Settled /\ failures = 0) => PeersReach

\* Once everything has settled without failures, no route is a zombie: the
\* peer it goes through offers the service itself or holds the rest of the path.
SettledSupported ==
  (Settled /\ failures = 0) =>
    \A n \in Node : \A r \in table[n].routes :
      IF Len(r.path) = 1 THEN Offers(r.origin, r.name)
      ELSE \E s \in table[r.peer].routes : SameKey(r, s) /\ s.path = Tail(r.path)

-----------------------------------------------------------------------------
(* Liveness. *)

\* Every node gets through its queue: nodes that call each other from inside
\* their queues do not end up waiting for each other.
QueueDrains == \A n \in Node : queue[n] # <<>> ~> queue[n] = <<>>

\* A chain of nodes configured as each other's peers leads from n to o.
Chained(n, o) ==
  \E k \in 2..Cardinality(Node) : \E walk \in [1..k -> Node] :
    /\ walk[1] = n /\ walk[k] = o
    /\ \A i \in 1..(k - 1) :
         Known(table[walk[i]], walk[i + 1]) /\ Known(table[walk[i + 1]], walk[i])

\* In the end every node knows exactly the services offered by the nodes it is
\* connected to, over however many hops.
Agreement ==
  \A n, o \in Node : n # o =>
    \A s \in Name : Reaches(n, s, o) <=> Offers(o, s) /\ Chained(n, o)
Converges == <>[]Agreement

\* In the end the copies of a service say what its origin says of it.
FreshData ==
  \A n \in Node : \A r \in table[n].routes : r.data = table[r.origin].local[r.name]
DataConverges == <>[]FreshData

\* Two nodes configured as each other's peers get their session up.
SessionsComeUp ==
  \A n, m \in Node :
    Known(table[n], m) /\ Known(table[m], n)
      ~> Up(n, m) \/ ~Known(table[n], m) \/ ~Known(table[m], n)
===============================================================================
