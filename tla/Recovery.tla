------------------------------- MODULE Recovery -------------------------------
(***************************************************************************)
(* The journal of one orchestrator and recovery from it: every action that *)
(* changes the route table is appended (rib.ts commit), compaction writes  *)
(* a snapshot and prunes the log (compaction.ts, sqlite-action-log.ts),    *)
(* and a restarted process loads the snapshot and plans the later actions  *)
(* again (service.ts).                                                     *)
(*                                                                         *)
(* A dispatch and its append are one synchronous step, as is everything    *)
(* compaction does up to its writes to the database; the process may crash *)
(* between those writes.  What reached the database survives.              *)
(***************************************************************************)
EXTENDS BusActions, FiniteSetsExt, Functions

CONSTANTS
  Self,        \* this node
  Happens,     \* the actions dispatched to it, ticks aside
  MinEntries,  \* entries since the last snapshot before compaction runs
  TailSize,    \* the tailSize options compaction may be configured with
  MaxSeq,      \* bound: actions journaled
  MaxTime      \* bound: the clock stops here

ASSUME RecoveryAssumption ==
  Self \in Node /\ MinEntries \in Nat /\ TailSize \subseteq Nat
ASSUME HappensAssumption == Happens \subseteq Action
ASSUME RecoveryBounds == MaxSeq \in Nat /\ MaxTime \in Nat

VARIABLES
  table,     \* rib.state
  log,       \* action_log: the actions that are left, by seq
  seq,       \* sqlite_sequence: the last seq given out, even if pruned since
  tail,      \* the configured tailSize
  snap,      \* the snapshot row [at, table]; at = 0 if there is none
  phase,     \* "running", "pruning" (snapshot written, log not pruned) or "down"
  now        \* Date.now()

vars == <<table, log, seq, tail, snap, phase, now>>

NoSnapshot == [at |-> 0, table |-> newRouteTable]

-----------------------------------------------------------------------------
(* The journal. *)

\* MAX(seq), or 0 when the log is empty.
lastSeq == IF DOMAIN log = {} THEN 0 ELSE Max(DOMAIN log)

\* The rows WHERE seq > afterSeq.
replay(rows, afterSeq) == {k \in DOMAIN rows : k > afterSeq}

With(rows, k, action) ==
  [i \in DOMAIN rows \cup {k} |-> IF i = k THEN action ELSE rows[i]]

\* Faulty: numbers follow the rows that are left (no AUTOINCREMENT).
AppendAfterLast(action) ==
  log' = With(log, lastSeq + 1, action) /\ seq' = lastSeq + 1

append(action) ==
  log' = With(log, seq + 1, action) /\ seq' = seq + 1

prune(beforeSeq) == log' = Restrict(log, {k \in DOMAIN log : k >= beforeSeq})

-----------------------------------------------------------------------------
(* Recovery: what a snapshot and the rows after it lead to, at time at.    *)

\* An action replays as it was dispatched, except that it meets another clock.
Rebuilt(rows, snapshot, at) ==
  LET end == Max({snapshot.at} \cup DOMAIN rows)
      after[k \in snapshot.at..end] ==
        IF k = snapshot.at THEN snapshot.table
        ELSE IF k \in replay(rows, snapshot.at)
        THEN Plan(Self, after[k - 1], rows[k], at).table
        ELSE after[k - 1]
  IN  after[end]

Replayed(at) == Rebuilt(log, snap, at)

-----------------------------------------------------------------------------
(* Actions. *)

Init ==
  /\ table = newRouteTable
  /\ log = [k \in {} |-> SystemTick(0)] /\ seq = 0 /\ snap = NoSnapshot
  /\ tail \in TailSize
  /\ phase = "running"
  /\ now = 1

Dispatch(action) ==
  LET plan == Plan(Self, table, action, now) IN
  /\ phase = "running" /\ seq < MaxSeq
  /\ plan.changed
  /\ table' = plan.table
  /\ append(action)
  /\ UNCHANGED <<tail, snap, phase, now>>

\* Faulty: the snapshot claims to be as old as the last one.
SnapshotUnnumbered ==
  /\ phase = "running" /\ lastSeq > 0 /\ lastSeq - snap.at >= MinEntries
  /\ snap' = [snap EXCEPT !.table = table]
  /\ phase' = "pruning"
  /\ UNCHANGED <<table, log, seq, tail, now>>

\* compact, first write: the state as of the last row.
Snapshot ==
  /\ phase = "running" /\ lastSeq > 0 /\ lastSeq - snap.at >= MinEntries
  /\ snap' = [at |-> lastSeq, table |-> table]
  /\ phase' = "pruning"
  /\ UNCHANGED <<table, log, seq, tail, now>>

\* compact, second write: all but the last rows go.
Prune ==
  /\ phase = "pruning"
  /\ prune(IF lastSeq < tail THEN 1 ELSE lastSeq - tail + 1)
  /\ phase' = "running"
  /\ UNCHANGED <<table, seq, tail, snap, now>>

Crash ==
  /\ phase # "down"
  /\ phase' = "down"
  /\ table' = newRouteTable
  /\ UNCHANGED <<log, seq, tail, snap, now>>

Recover ==
  /\ phase = "down"
  /\ phase' = "running"
  /\ table' = Replayed(now)
  /\ UNCHANGED <<log, seq, tail, snap, now>>

PassTime ==
  /\ now < MaxTime
  /\ now' = now + 1
  /\ UNCHANGED <<table, log, seq, tail, snap, phase>>

Next ==
  \/ \E action \in Happens : Dispatch(action)
  \/ Dispatch(SystemTick(now))
  \/ Snapshot \/ Prune \/ Crash \/ Recover \/ PassTime

Spec == Init /\ [][Next]_vars

-----------------------------------------------------------------------------
Up == phase # "down"

Config(t) == [local |-> t.local, peers |-> [p \in Node |-> t.peers[p].info]]

\* Whatever crashes and compactions came before, a crash now would cost no
\* configured peer and no registered service, nor bring a deleted one back.
ConfigDurable == Up => Config(Replayed(now)) = Config(table)

Untimed(t) == [t EXCEPT !.peers = [p \in Node |->
                 [t.peers[p] EXCEPT !.lastReceived = 0]]]

\* While no tick has expired anything since the last snapshot, a crash now
\* would cost nothing at all, except when peers were last heard from.
StateDurable ==
  (Up /\ \A k \in replay(log, snap.at) : log[k].type # "Tick")
    => Untimed(Replayed(now)) = Untimed(table)
===============================================================================
