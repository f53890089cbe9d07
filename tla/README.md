# Verification of the Catalyst router control plane

TLA+ models of the Catalyst router: the v2 orchestrator, the node that keeps a
route table, exchanges routes with its peers over an internal protocol modelled
on BGP ("iBGP"), and configures envoy and a GraphQL gateway; the envoy service
and the gateway themselves; the auth service with its signing keys; and the life
of the processes they run in. Runs of TLC check the models on small instances;
TLAPS proves the theorems in the `*Proofs` modules for all of them. Source paths are relative to the repository;
`rib.ts` stands for `packages/routing/src/v2/rib/rib.ts`, `bus.ts` and its
neighbours for the files in `apps/orchestrator/src/v2`, `auth` for
`packages/authorization/src`, `service` for `packages/service/src`.

## 1. Inventory

| Part | State | Operations | Interacts with |
| --- | --- | --- | --- |
| Routing information base (`rib.ts`, `state.ts`) | the route table: peers, local routes, internal (learned) routes | twelve planners, one per action; `commit` | called by the bus only; appends to the journal |
| Action queue (`action-queue.ts`) | a chain of promises | `enqueue` | every dispatch goes through it, one task at a time |
| Bus (`bus.ts`) | time of the last keepalive to each peer | `dispatch`: validate, plan, allocate ports, commit, notify | peers through a transport, envoy and gateway through RPC |
| iBGP server and transports (`rpc.ts`, `ws-transport.ts`) | a socket stub per endpoint | open, close, update, keepalive; each dispatches at the receiver and answers when that ends | two buses, auth service |
| Service (`service.ts`), reconnection (`reconnect.ts`) | reconnect timers and attempt counters | recovery, dialling of new peers, retries, shutdown | bus, transport, journal |
| Tick manager (`tick-manager.ts`) | one interval timer | dispatches Tick at a third of the shortest hold time | bus |
| Journal (`journal/*.ts`), compaction (`compaction.ts`) | action log, one snapshot | append, replay, snapshot, prune | rib, service |
| Port allocator (`apps/envoy/src/port-allocator.ts`) | free ports, ports in use | allocate, release | bus (`planPortAllocations`) |
| Envoy xDS (`apps/envoy/src/xds`, `apps/envoy/src/rpc`) | a numbered snapshot, streams with the version last sent per type | build and number a snapshot, push it, answer subscriptions | bus, envoy |
| Adapter health checker (`adapter-health.ts`) | last status per service | concurrent probes, dispatches health changes | bus, services |
| GraphQL gateway (`apps/gateway`) | the schema served | validate, introspect all subgraphs, install | bus, subgraphs |
| Key manager (`auth/key-manager`) | current and retired signing keys, their row | initialize, sign, verify, rotate, persist | auth service |
| Token service and policy (`auth/service`, `auth/jwt`, `auth/policy`) | issued tokens, revocations | mint, validate, revoke, authorize | key manager, orchestrators |
| Node token refresh (`catalyst-service.ts`) | token and its times, timer, the validator's stub | mint at the start, refresh, validate a peer's token | auth service, bus |
| Service lifecycle (`service/catalyst-service.ts`, `service/catalyst-hono-server.ts`) | state of each service, the server, signal handlers | initialize, start, stop, shutdown, exit | clients, signals |

What is hard in it:

* **Waiting.** A node's queue is held until every peer has answered, and a peer
  answers from its own queue. Cycles of waiting nodes are one tick away; a
  silent peer or a subgraph that does not answer holds the queue for good.
* **Order.** Nothing in a route update is numbered. That deltas arrive in
  commit order, and that gateway reloads do not overtake each other, rests on
  the queue alone. Envoy's versions are numbered, but start anew with the
  process that counts.
* **Paths.** Best path, split horizon, loop guard and withdrawal by service and
  origin must together never make a loop, a duplicate or a zombie.
* **Sessions.** They are set up by two nodes dialling independently; the table
  goes to the other side only at that moment. Lost updates are not repaired.
* **Stubs.** Every connection is cached, and a stub that has broken stays
  broken: to peers, to envoy, to the gateway, to the auth service.
* **Time.** Hold timers, grace periods for stale routes, ticks delayed in a
  queue, keepalives sent with the tick, tokens renewed with an hourly check.
* **Crashes.** Recovery plans old actions again at another time, over a
  snapshot that holds what planning alone does not produce (ports). A rotation
  of keys spans three writes.
* **Limits.** Ports run out and come back.
* **The end.** A process is told to stop by signals, which come when they like,
  while clients hold connections that the server does not close.

What makes each part correct is stated by the properties below; the list of
hazards with their lines is in `PROJECT.json`.

## 2. Modules

```
RouteTable                planners as operators on one table
 ├─ UpdateLoop            the loop inside one planner
 ├─ Rib ── MCRib          one node, every action in any order, a clock
 └─ BusActions            actions as records, Plan
      ├─ Fleet ── MCFleet         several nodes: queues, calls, dialling
      ├─ Recovery ── MCRecovery   journal, compaction, crash, restart
      └─ Ports ── MCPorts         ports between plan and commit, what envoy
         (+ XdsResources)         is made to listen to
XdsResources              envoy resources of a route configuration
Feed                      abstract: numbered configurations, one is shown
Xds ── MCXds              how configurations reach envoy; implements Feed
Gateway                   reloads of the stitched schema
 └─ Adapters ── MCAdapters     bus queue, health checker and gateway together
Session ── MCSession      hold timers, keepalives, dialling and faults over time
KeyManager                signing keys of the auth service
 └─ Auth ── MCAuth        tokens, revocation, node token, validation
Lifecycle ── MCLifecycle  start and stop of one process

PlanProofs                lemmas about the planners, and about UpdateLoop
 ├─ RibProofs             about Rib
 ├─ FleetProofs           about Fleet
 ├─ RecoveryProofs        about Recovery
 └─ EnvoyProofs           about Xds and Ports
ServiceProofs             about Lifecycle and Adapters
SessionProofs             about Session
AuthProofs                about KeyManager and Auth
```

**RouteTable** translates `rib.ts` planner by planner. A table is a record of
`peers` (a function from nodes, "absent" when not configured), `local` (a
function from names) and `routes` (a set). A data channel is a name and one
member of `Data`, standing for endpoint, protocol, health and port. A planner
yields the new table, whether the code builds a new state object (`changed`;
the bus commits and journals then), and the announced route changes. Time
enters as an argument. Definitions commented "Faulty" are plausible bugs; they
are used by no specification, only to see that the properties notice them.

**Rib** is the specification of one node: a variable for the table, one for the
changes last announced, one for the clock; one action per bus action. Peers are
honest: a path starts with its sender (`rpc.ts` refuses others) and ends at the
origin. Otherwise any action may come at any moment, before a peer is
configured, after it was closed or deleted. A tick carries any earlier time,
because it may have waited in the queue.

**UpdateLoop** is the loop of `planInternalProtocolUpdate` over the items of an
update, as a function: `Take` is one turn, `Loop` what they come to. RouteTable
defines the result of an update at once; that the loop computes it is proved
(`LoopComputesPlan`) for updates of any length.

**BusActions** makes actions records, so that they can wait in a queue or be
journaled.

**Fleet** is a set of nodes with a table and a queue each. `Start` runs the
plan and commit of the first task and works out which calls follow
(`handlePostCommit`, `handleBGPNotify`, `handleKeepalives`): stages of calls,
each to one peer. `Deliver` puts a call into the peer's queue, `Advance` goes
on when a stage is answered, `End` answers the caller. `Fail` breaks a call
before or after delivery. `Dial`, `DialFails`, `Redial` set up sessions: the
peer's answer to an open makes the dialling node dispatch Connected, a refusal
sets the reconnect timer. Every peer record is written at one instant, so no
session expires in Fleet; expiry is Rib's and Session's subject.

**Recovery** is one node with the SQLite journal: rows with numbers that are
never reused (a function from numbers to actions), a snapshot row, compaction in
two writes, a crash between any two steps, and recovery at the time of the
restart (`Rebuilt`).

**Ports** is one node whose `Data` is the port a route carries. A dispatch is
plan, `planPortAllocations` phase by phase (`ReleaseRoutes`, `allocateAll`,
`StampRoute`), commit. The order in which routes are served, that of the code's
arrays, may be any; a service registers without a port. `recovered` is the table
that snapshot and journal lead to, which a restart takes together with an empty
allocator. `RouteConfig` is what the bus hands to the envoy service, and
`Snapshot` what that makes of it. Xds and Ports have theorems in one module, so
their names differ (`PortsInit`, `PortsNext`, `PortsSpec`); so with Lifecycle and
Adapters (`AdaptersSpec`).

**XdsResources** is `buildXdsSnapshot` with its builders: which routes get a
listener and a cluster, on which ports, with which filters. Only what differs
between resources is kept; filters and protocol options are what the builders
branch on, and no property speaks of them.

**Xds** is the way of a configuration to envoy. `Commit` is the bus calling
`updateRoutes` through the one stub it keeps. The service may refuse what it is
given, because its schema is stricter than what the bus lets into the table
(`apps/envoy/src/rpc/server.ts:85`) or because building the snapshot fails
(`:157`); it says so in its answer, at which the bus does not look. In
`CommitBreaks` the answer is lost with the connection, before or after the call
was carried out. A configuration that is taken becomes a numbered snapshot, the
cache tells the open stream, and `sendSnapshotForTypes` sends
every subscribed type whose last response had another version, clusters first.
Envoy connects, subscribes (late, or naming a version), accepts or rejects and
disconnects as it likes. Orchestrator and service restart. A configuration is
its place in the order of commits, so versions, which the service counts from
zero, and configurations are different things. `answered` is a history variable
for `EnvoyFollows`: the last configuration answered with success over the present
stub, if that has not broken and neither process has restarted since it was made.

**Feed** is the abstract specification Xds implements: configurations are
published, one is shown, it was published, and never goes back. The refinement
maps `published` to `committed` and `shown` to what envoy has accepted for its
listeners.

**Gateway** is `reload`: all subgraphs are asked at once, the result is
installed when the last one has answered, any failure keeps the old schema, and
nothing keeps two reloads apart. **Adapters** composes it with the queue of the
bus, whose task waits for the gateway's answer, and with the health checker. The
gateway is told of local services and of those `learned` from peers, whose
updates wait in the same queue. What one cycle of the checker finds joins the
queue in any order (`Enqueued`): `StartCycle` is `checkAll` up to its await,
`ProbeEnds` what `checkOne` does after its own. The gateway's stub may break at any time (whether a session made
by `newHttpBatchRpcSession`, as `gateway-client.ts` makes it, is good for more than
one batch is a matter of the library, and the model takes every possibility);
either process restarts.

**Session** is time: any set of nodes with tick timers that fire late, hold
timers, keepalives inside ticks, dialling with back-off, a stub per peer, and
lines that break, fall silent and come back; restarts and deletions of peers.
Times are kept as ages, because the code only ever compares them. A call takes
no time, unless its line is silent: then it hangs, and its caller's queue with
it. All hold times are the default, the only value any code path proposes.

**KeyManager** is `PersistentLocalKeyManager`. `rotate` and the two `persist`
calls in it await key generation and exports; an action is what runs between
two awaits: `rotate` takes the old key, `generateNewKey` installs the new one,
`Collect` and `Save` are a persist, `Retire` moves the old key to the previous
ones and persists again. `sign`, `shutdown` and `Crash` may come between any two
of them, and `Verifies` says what `verify` would answer. A key has the kid it is
filed under and the material it consists of, because persist reads the two
before and after an await. Expiry times are left out: the code gives retired
keys one and only logs it.

**Auth** puts the auth service and an orchestrator on top of it. The service
mints and logs a system token at every start; tokens are minted, recorded,
revoked and expire; an orchestrator mints its node token at the start, checks
every hour whether four fifths of its life are over, and ends when a mint
fails, as nobody awaits that promise. A validation is three calls (`CheckKey`,
`CheckRevocation`, `CheckPolicy`), and between any two of them anything else
may happen. The orchestrator's stub to the auth service is made once
(`catalyst-service.ts:121`) and broken for good when the service stops, so that
every later validation is refused. Whom the policy allows depends on the type of
the principal and on its trusted domains and nodes (`Permitted`). A mint that
hangs is left out. `doubt` records, for the property only, whether there was a moment
at which the token could be found wanting.

**Lifecycle** is one process with any services on one server. Services are
initialized one after the other, then the server binds, and the signal handlers
are there. `stop` is the handler up to its await of the server's end, `Closed`
what follows; a signal that comes in between runs `stopAgain`, which finds no
server and goes on to the services without an await. `shutdown` is the rest of a
service's shutdown, telemetry included, `Exit` the end of a handler, `Kill` a
signal that finds none. Clients connect, upgrade to a WebSocket and hang up as
they like; `closeAllConnections` drops the connections that are not upgraded,
which is what Node documents of it.

Composition: RouteTable is the common ground of the routing modules. Fleet
relies on UpdateLoop for updates as sets of items with distinct keys (a task
announces one change per key; `ChangesDescribeDelta` says so of Rib); Recovery
and Ports on the planners being functions of table, action and time. Session
abstracts Fleet's calls to their duration, Fleet abstracts Session's time to
nothing: crossing calls are Fleet's subject, delays are Session's. Adapters and
Xds keep of the bus only the order of commits and the stub.

## 3. Runs

Each run takes from seconds to two or three minutes. Times, versions and
counters are capped by the constants named "bound" in the modules.

| Run | Question | Bounds |
| --- | --- | --- |
| `rib` (MCRib) | Does any sequence of actions break the table? | two peers, five paths (direct, transit, looping), two items per update, clock 1..4; everything may happen up to time 2, later only ticks |
| `fleet_mesh` (MCFleet) | Do routes stay right when they arrive over two paths, and a session is torn down and set up meanwhile? | triangle, four commands, two failures |
| `fleet_join` (MCFleet) | Does a fleet that grows agree in the end? | three nodes, four commands, each given when the fleet is idle |
| `recovery` (MCRecovery) | What does a crash cost? | five journaled actions, clock 1..3, both tail sizes 0 and 1 |
| `ports` (MCPorts) | Are ports lost, shared or wrong, and does envoy listen to the right ones? | two ports, three names, six dispatches, one restart |
| `xds` (MCXds) | Does envoy end up with what its service accepted last, in the right order? | three commits, any of them refused, three streams, two restarts of either process |
| `adapters` (MCAdapters) | Do schema and health follow the table whatever is slow or fails? | two services, one perhaps without endpoint, and one learned from a peer; three registrations, removals, updates or restarts, two cycles of the checker |
| `session` (MCSession) | Do healthy sessions stay up and dead ones go down? | two nodes, hold time of three units, a tick every unit or one late, delays of at most two, one fault of any kind |
| `keys` (MCAuth) | Which tokens survive rotations, revocations, shutdowns and crashes? | one caller that awaits each rotation, three keys; a node token that lives five checks |
| `lifecycle` (MCLifecycle) | Does a process end, and in order, whenever signals come? | three services, three clients, any number of signals |
| `fleet_cross_ticks`, `session_expiry` | violations, see section 6 | two nodes |

Why the bounds are enough: the route table treats nodes, names and contents
alike, so two routes for one key, a second peer and a node behind them already
give every comparison a planner makes; a hold time of one unit and a clock of
four let a peer be heard from, fall silent, expire and have its grace period
run out. Four commands on a triangle register, withdraw and register again
while a session is down. In `ports` the pool is smaller than the number of
listeners. Three commits and two restarts let two configurations have one
version, and three streams let envoy reconnect to each of two services. A
session deals with one pair of nodes at a time; a hold time of three units is
the smallest in which a third of it, the tick and its delay are different
moments; `SessionProofs` covers any number of nodes, hold times and faults.
Three keys make two rotations, so a retired key and an immediate rotation come
together; `AuthProofs` covers any number. Five checks are the shortest life
the assumption allows, where the boundary of four fifths falls on a check.
Lifecycle has no bound but its sets: a third signal never finds a handler
(`ThirdSignalKills`).

What the properties say:

* `rib`: `TypeOK`; one route per service and origin (`OneRoutePerKey`); every
  stale route has a peer whose grace period can end (`StaleHasPeer`); the
  announced changes are the difference between the tables
  (`ChangesDescribeDelta`); losing a peer costs no other peer's routes
  (`LossIsIsolated`); nobody heard from within its hold time expires
  (`NoEarlyExpiry`); stale routes are purged in the end (`StalePurged`).
* `fleet_mesh`: `TypeOK` (with at most one reconnect timer per peer);
  `PathsAreWalks` about every route held and every update in flight;
  `CallsMatched`, no answer lost or sent twice, so that the next delta leaves
  only when the peer is through with the last one; and for settled states
  without failures `SettledReach` (direct peers know each
  other's services) and `SettledSupported` (no zombie routes).
* `fleet_join`: `QueueDrains`, `Converges`, `SessionsComeUp`.
* `recovery`: `ConfigDurable` (peers and services survive), `StateDurable`
  (everything but the time a peer was last heard from survives unless a tick
  expired something).
* `ports`: `PortsTypeOK`, `PoolIntact`, `RoutesServed` (envoy listens for a service on
  the port its route carries in the table), `AnnouncedAsCommitted` (a change that
  is announced carries that port; section 6 has the ports that never are).
* `xds`: `EnvoyFollows` (at rest envoy has been shown the last configuration that
  the service answered with success over the present stub, whatever it refused); `ClustersFirst` (no listener before its
  clusters); `ListenersNeverOlder` (the refinement of Feed).
* `adapters`: `SchemaFollows` (at rest the schema is that of the table's services,
  local and learned),
  `HealthAgrees` (at rest the table has the health found last), `QueueDrains`.
* `session`: `TypeOK`; `HealthyStaysUp` (a session nothing has happened to never
  expires); `DeadNoticed` (a node that ticks takes no peer as connected that it
  has not heard from); `HalfOpenEnds`.
* `keys`: `TokensHonoured` (a signed token verifies unless an immediate
  rotation dropped its key, a crash or shutdown cut a rotation of it short, or
  its key is just being replaced); `RestartLosesNothing` (between rotations the
  saved row is what is in memory); `RetiredStaysRetired` (no retired key signs
  again, whenever the process crashes); `NodeTokenFresh` (an orchestrator that
  is up has a token that has not expired); `ValidIsAccepted`
  and `RevokedIsRefused` (the verdict on a peer's token; the first one as long as
  the auth service has not stopped since the orchestrator started).
* `lifecycle`: `TypeOK` (with at most one call of `onShutdown` per service);
  `CleanEnd` (the clients go first, then the services, then the process, unless a
  second signal came; and no service is left untold); `StopEnds` (a second signal
  ends the process in any case, the first one if the WebSockets go away).

The type invariants of Xds and KeyManager are proved and not run.

**Fairness.** Rib's `FairSpec` has the clock run and the tick timer fire, which
the tick manager does as long as the process lives. Fleet's `FairSpec` has
every node go on with its queue (`Start`, `Advance`), every call that is not
cut off reach its peer (`Deliver`) and every dial and timer happen (`Dial`,
`Redial`): an event loop, a socket and `setTimeout`. Adapters' has the queue go
on and subgraphs answer in the end, with a schema or an error; the code itself
sets them no deadline, so this is an assumption about the subgraphs. Session's
has timers fire, calls that can end do so and time pass (`Automatic`), and every
broken line restored. Lifecycle's has an awaited shutdown end (telemetry gives up
after ten seconds, the xDS server after five, the other `onShutdown`s do not wait
for anybody), and a stop go on when it can; clients owe nothing, which is why
`StopEnds` has their hanging up as its condition. Nothing is assumed about commands; failures are bounded,
not fair. Weak fairness is enough because none of these steps, once possible,
is disabled for good by another without progress.

**Deadlock.** Fleet, Ports, Xds, Adapters, Session and Lifecycle switch TLC's
check off: when the commands, commits or faults are used up, the system may rest,
a process that has ended does nothing (and in Session two hanging queues stop the clock of nobody else, but may stop a node
for good). The others can always tick, restart or rotate.

## 4. Proofs

The theorems hold for every value of the constants under the assumptions of the
modules (hold times are natural numbers, the node is not its own peer, paths are
not empty, links go both ways, ...), and without any of the runs' bounds, which
may be any natural numbers. Every proof is of the same form:
an invariant that implies the property is shown to hold at the start and to be
kept by each action; `TypeOK` and the listed properties are seldom inductive by
themselves.

**PlanProofs** is about the planners as operators, and serves four of the other
modules. A table is sound (`SoundTable`) if it is well typed, has one route per
key, no route through the node itself, and a peer with a session for every stale
route; there is a lemma for each planner that it keeps tables sound, and a
planner that is "calm" (touches no learned route and ends no session) is shown
to be so. The planner of updates is the one that needs work: a displaced key
disappears before its replacement enters, and two accepted items never share a
key. `LoopComputesPlan` says that the loop of `planInternalProtocolUpdate`
(UpdateLoop) computes what RouteTable defines at once, for every table, every
update whose items have distinct keys and every order of the items. The proof is
an induction over the turns: `ReplacedGrows`, `AfterGrows` and `ChangesGrow` say
what one more item adds to a plan, `RoutesOfFreshItem` that earlier items do not
disturb it.

**RibProofs** proves `TypeCorrect` (`TypeOK`), `RoutesUnique` (`OneRoutePerKey`),
`NoRoutingLoop` (`LoopFree`: no path goes through the node itself) and
`StaleRoutesOwned` (`StaleHasPeer`), all from soundness; and, from the same
invariant, four action properties: `PathsImprove` (`PathOnlyImproves`: a fresh
path changes only to a shorter one), `NoPeerExpiredEarly` (`NoEarlyExpiry`),
`LossStaysLocal` (`LossIsIsolated`) and `ChangesSuffice`
(`ChangesDescribeDelta`). Deletion, close, update and tick are the steps that are
not calm; each property has a lemma for each of them. The invariant is needed
throughout: without one route per key, for instance, a stale copy would replace
more than the route it was made of. `LoopFree` and `PathOnlyImproves` are proved
and not run.

**FleetProofs** has two halves. The first proves for any nodes, links, commands,
failures and reconnects `TypeCorrect` (`TypeOK`), `PathsStayWalks`
(`PathsAreWalks`), `AnswersMatchCalls` (`CallsMatched`) and
`SentUpdatesAreSound`: whatever one node sends another, no update has two items
of one key and every path begins with its sender, ends at its origin and visits
no node twice. That is what UpdateLoop and Rib take for granted of their inputs.
The invariant `FleetInv` has every table sound with walks for paths
(`TablesGood`), and relates what is under way to what waits (`Exchange`): only
sound tasks are queued (`QueuesGood`) and sent (`StagesGood`), the task with
calls under way heads its queue (`BusyQueued`), a caller waits for every entry
that has one (`EntriesAwaited`) and for no other (`DeliveredQueued`), and no
caller has two entries in one queue (`OneEntry`). The last three need each other:
an answer may be given only because the one entry it is for is at the head.

The second half follows the news of a service through a fleet. It assumes
`FixedPeers`: no command creates or deletes a peer. Then, in any fleet of any
size with any links, whenever all queues are empty and no call has failed,

* `SettledPeersReach` (`SettledReach`): a node knows every service of its peers;
* `SettledPathsSupported` (`SettledSupported`): the next node on every path holds
  the rest of it, so no withdrawal got lost and no route is a zombie;
* `SettledFleetAgrees` (`SettledKnowledge`): a node knows a service of another one
  if and only if it is offered and links lead there, over any number of hops.

The argument is in the invariant `Wave`, about the tables, the calls under way
and the task each node runs. A node that runs an update holds up the node it
has it from, so the nodes that run updates about services of one origin form a
tree whose root is the origin (`Orderly`, `Acyclic`, `Rooted`), which therefore
does nothing else meanwhile; so what an update says of a service is true when it
arrives (`Truthful`), and what a node tells it still holds (`Held`). From there:
the nodes along a path have paths at least as short (`Shrinking`), the next node
on a path holds the rest of it or is about to correct it (`Supported`), and who
has a path has told its peers, or is telling them, except those on the path
(`Spread`). `Shrinking` closes the gap split horizon leaves: a peer on the path
has a route of its own. `FinishKeeps`, `BeginOwnKeeps` and `BeginUpdateKeeps`
are the steps of this argument; `SettleInv` connects it to Fleet's queues and
stages. With peers that come and go `SettledReach` is false (section 6); the run
`fleet_mesh`, whose commands delete and create one peer such that it holds, is
what shows the two properties there.

**RecoveryProofs** proves `ConfigSurvives` (`ConfigDurable`), `StateSurvives`
(`StateDurable`) and `RecoveryRebuildsSound`: at any moment, between the two
writes of a compaction too, what is in the database leads to a sound table, and
to the same configuration whenever it is read. Recovery plans old actions at a
new time on tables that may differ from those they were planned on first. So the
proof shows that planning respects two equivalences whatever the clock says,
tables with the same configuration and tables that differ in times only
(the second except for ticks), and the invariant says that the rows after the
snapshot are all there (`JournalGood`) and that any replay of them gives a sound
table equivalent to the one in memory (`RebuildsGood`). Replay is a recursive
function, so what a longer journal leads to follows by induction over its length.

**EnvoyProofs**, about Xds, proves `TypeCorrect`, `ClustersComeFirst`
(`ClustersFirst`), `EnvoyIsFed` (`EnvoyFollows`: envoy sees the last configuration
answered with success, whichever others the service refuses) and `ImplementsFeed`
(`ListenersNeverOlder`). The invariant orders everything on its way:
configurations get older the further they are from the bus (`AgeInv`,
`QueueInv`), an open stream knows the snapshot in the cache (`StreamInv`),
clusters are subscribed to first (`SubscriptionInv`); the rest says that what was
last sent of a type is either under way or seen. Versions need care: they are
compared only on one stream, and a stream never outlives the process that counts.

About Ports it proves, for any pool, any actions and any order in which routes
are served, `PortsTypeCorrect` (`PortsTypeOK`), `PoolStaysIntact` (`PoolIntact`),
`AnnouncementsMatch` (`AnnouncedAsCommitted`), and `ServedAsCommitted`
(`RoutesServed`) under the condition `NamesApart`: no service registers under a
name that peers announce. The condition is the code's, not the proof's: the
removal of a learned route releases the port of the local service of that name
(`bus.ts:412`), after which envoy does not listen where the table says. The
invariant `PortsInv` says that the allocator's ports are apart and complete
(`PoolGood`), that what is announced is in the table (`Announced`), and, until a
restart, that routes carry the ports of their listeners (`OwnPorted`,
`LearnedPorted`) and all have one unless the pool is empty (`AllPorted`).

**ServiceProofs**, about Lifecycle, proves `ShutdownOnce` (`TypeOK`),
`EndsInOrder` (`CleanEnd`) and `ThirdSignalKills` (`NoThirdStop`) for any services
and clients. The invariant says until when the handlers stand (`HandlersInv`)
and, for a stop that is alone, that it found every service ready and awaits them
all (`AloneInv`). `StopServicesKeeps` serves the two ways in which services are
told to stop.

About Adapters it proves `HealthStaysInStep` (`HealthAgrees`) and `SchemaIsCurrent`
(`SchemaFollows`) for any services and subgraphs. Both properties speak of a
drained queue; the invariant has to say what a queue that is not empty will come
to: the last task waiting about a service carries the health found last, or none
waits and the table has it (`LeadsTo`, over the tasks `Pending`), and the gateway
works on the table of the bus exactly while the queue awaits its answer
(`GatewayInv`).

**SessionProofs** proves for any number of nodes and faults: `TypeCorrect`;
`DeadIsNoticed` (`DeadNoticed`), from the invariant that at a node's last tick
its connected peers had been heard from in time; and `HealthyNeverExpires`
(`HealthyStaysUp`) under the assumption `Timely`: a third of the hold time, the
tick interval and the delay of a tick add up to no more than the hold time.
(The default, ninety seconds, gives thirty and thirty, so a tick may be thirty
seconds late.) Its invariant says that a keepalive counts as sent only if the
peer has it (`SentInv`), and that as long as any session is undisturbed no line
was ever silent, so that no node's ticks are held up.

**AuthProofs**, about KeyManager, proves `TypeCorrect` for any callers, and for one
caller (`Rotator = {r}`, the assumption of the theorems; with two they fail,
section 6) `TokensVerify` (`TokensHonoured`), `RowIsMemory`
(`RestartLosesNothing`) and `NoRetiredSigner` (`RetiredStaysRetired`), for any
number of keys, rotations, crashes and restarts. The invariant `KeyInv` has four
parts besides the types and phases: keys are genuine, so that a kid names one key
(`AllGenuine`); the key that signs, the one being retired and those retired are
apart (`Apart`); what memory, export and row have in common at each await
(`InStep`); and where the key of an unexcused token is, in memory and in the row,
should a crash come now (`Kept`). One lemma per action keeps it.

About Auth it proves that every behaviour of the service is one of the key
manager (`ServiceKeepsKeys`: `AuthSpec => Spec`), which carries the theorems about
keys over; `NodeTokenIsFresh` (`NodeTokenFresh`), whose invariant is that the life
left lasts at least until the next check, from the assumption that a check falls
into the last fifth; `RevokedStaysOut` (`RevokedIsRefused`); and, with one caller
of `rotate`, `SoundIsAccepted` (`ValidIsAccepted`), for which the keys are needed:
a token without doubt verifies because `TokensHonoured` holds. A token presented
over a stub that has broken is not without doubt.

**Only model-checked**: liveness (`StalePurged`, `QueueDrains`, `Converges`,
`SessionsComeUp`, `HalfOpenEnds`, `StopEnds`) with its fairness, because the prover
has no rules for ENABLED and fairness; and `SettledReach` and `SettledSupported`
where a command deletes or creates a peer, where they hold for the commands of
`fleet_mesh` and not in general. `SettledKnowledge` is the part of `Converges`
that is a safety property: it says that a fleet that comes to rest is right,
`Converges` that it comes to rest.

## 5. Plan

Done: all of the modules above, in the order RouteTable, Rib, UpdateLoop,
BusActions, Fleet, Recovery, Ports, KeyManager, XdsResources, Xds with Feed,
Gateway and Adapters, Session, Auth, Lifecycle; and a theorem for every invariant
and every action property that a run checks, under the conditions named above.

What would come next:

1. `SettledReach` and `SettledSupported` for fleets in which peers are deleted and
   created, under a condition that excludes only what section 6 describes.
2. An abstract route exchange (a table of who offers what, changed atomically)
   that Fleet implements when settled.
3. An abstract key ring that KeyManager implements.
4. Several orchestrators against one auth service, with `revokeBySan`.

## 6. Disagreements found

Two runs look for a violation of what the documentation says, and find it.

* `fleet_cross_ticks`: two nodes owe each other a keepalive. Each tick waits in
  its queue for the other node's answer, which waits behind the other tick. Both
  queues are blocked for good. The same happens to any two updates that cross,
  which is why `fleet_join` gives its commands one at a time and lets keepalives
  flow in one direction only. `v2-capabilities.md:1875` calls all side effects
  non-blocking.
* `session_expiry`: a session whose hold timer has run out is dialled by nobody:
  `planTick` closes it, and only a failed dial sets the reconnect timer.
  `docs/reference/test-catalog.md:373` lists "reconnects on hold timer expiry".

Eight more configurations show a disagreement when run by hand:

* `MCFleetHealth.cfg`, `DataConverges`: a change of health is sent over an
  unchanged path and dropped by the receiver, which only takes shorter ones.
* `MCFleetRejoin.cfg`, `SettledReach`: a node that deletes a peer and creates it
  again never gets the peer's table. In `fleet_mesh` the session that is deleted
  and created again joins two nodes that offer nothing themselves.
* `MCAuthBack.cfg`, `AcceptedAgain`: after the auth service has stopped, for
  however short a time, an orchestrator refuses every token until it is restarted
  itself, because it keeps the stub it made first.
* `MCXdsRefused.cfg`, `LastCommitShown`: a configuration that the envoy service
  refuses is lost without a word, as `bus.ts:516` drops the answer. Configurations
  hold the whole table, so one route the stricter schema refuses keeps every
  change from envoy until that route is gone.
* `MCPortsTold.cfg`, `PortsAreTold`: a learned route that waited for a port gets
  one when another is released, by a dispatch that plans no change of that route;
  peers keep the route without the port (`bus.ts:474` stamps planned changes only).
* `MCPortsRestart.cfg`, `RestartKeepsPorts`: the allocator forgets all ports on
  restart, the recovered routes keep theirs.
* `MCPortsTarget.cfg`, `TargetsAdvertised`: the port a peer advertised is
  overwritten by the port of the own egress listener, which the remote cluster
  then targets.
* `MCSessionSilent.cfg`, `HoldTimeKept`: a node whose keepalive hangs on a silent
  line does not tick any more, so the hold time of that peer, and of every other
  one, is not enforced (`docs/architecture/bgp-protocol.md:53`).

Known, not run, and excepted by the properties or left out of the runs:

* Routes. An append to the journal that throws leaves the action in memory only.
  An update queued behind the deletion of its sender leaves a route through an unknown peer. A failed update is not repeated. Stale routes are
  forwarded like fresh ones. A peer that returns within its grace period without
  a service leaves the stale route in place. A journaled tick replays without
  effect. The journal holds an action as it was before an inbound policy.
* Ports. A learned route's removal releases the port of a local service of the
  same name (the `ports` run keeps such names apart); egress ports of peers a
  route has moved away from are not released.
* Sessions. A first dial that fails leaves a broken stub, so that the retries
  fail as well; a restarted node dials nobody and its peers' stubs are broken;
  `stopAll` does not stop an `openPeer` under way. Keepalives go out with the
  first tick after a third of the hold time, so up to two thirds lie between them.
* Gateway and envoy. Nobody tells the gateway when the last GraphQL service goes
  away; a stub that has broken is never made anew; a subgraph request has no
  timeout. The table survives a restart only with the SQLite journal.
* Keys. Two rotations at once lose a key and can save a retired key as the
  current one: with two members in `Rotator`, `TokensHonoured`,
  `RestartLosesNothing` and `RetiredStaysRetired` fail. During a single rotation
  the old key verifies nowhere from the moment the new one is current until it
  is retired, while `key-manager/README.md` says it "remains valid for
  verification until the grace period expires"; a crash in that window loses it.
  An immediate rotation drops the key of every system token until the service
  starts again.
* Tokens. `mintNodeToken` never leaves its loop and mints five tokens, without
  the retry `v2-capabilities.md` describes; a refresh that fails ends the process
  by an unhandled rejection, where the document says errors are logged; the token
  it refreshes is used for no outbound call, which all use the token of the peer
  record.
  `revokeBySan` between the signature and the record of a token misses that token.
  Handlers handed out after a validation stay usable after a revocation.
* Processes. `catalyst-hono-server.ts:206` says that closing the active connections
  lets the server close "promptly"; it waits for every WebSocket, and two
  orchestrators hold one to each other. When two signals have come and the last
  client goes away, the first stop finds the services shutting down, waits for
  none of them and exits the process in the middle. The handlers are gone before
  the services shut down, so a later signal kills the process there.

## 7. Not modelled

The v1 orchestrator (legacy: the entry point exports v2 only), CLI, web UI, SDK,
configuration, telemetry and examples, which keep no shared state of the control
plane; starting a server again after `stop`, which only tests do; the encoding of xDS
resources into protobuf; the HTTP transport; operators whose token is refused;
route policies, which production never installs; length limits of fields, which no code path of v2 enforces on received messages;
lists of tokens, revocation lists and certificate bindings of the token service.
