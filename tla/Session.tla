-------------------------------- MODULE Session --------------------------------
(***************************************************************************)
(* The sessions of orchestrators over time: hold timers and keepalives     *)
(* (rib.ts, bus.ts handleKeepalives), the tick timer (tick-manager.ts),    *)
(* dialling and its back-off (service.ts dialPeer, reconnect.ts) and the   *)
(* stub a node keeps per peer (ws-transport.ts), while connections break,  *)
(* fall silent, nodes restart and operators remove and add peers.          *)
(*                                                                         *)
(* The code compares times only with each other, so a time is kept as its  *)
(* age, up to Never, beyond which no comparison changes.  A call takes no  *)
(* time next to the unit of the model: it is answered, or fails, before    *)
(* anything else happens, unless its connection is silent, when it hangs   *)
(* and its caller's queue with it.  Calls that cross are Fleet's subject.  *)
(* Every node proposes the default hold time, the only one in the code.    *)
(***************************************************************************)
EXTENDS Integers

CONSTANTS
  Node,
  Hold,          \* holdTime of every session, in units of the model
  MinInterval,   \* the shortest tick interval the tick manager allows
  Late,          \* how late the tick timer may fire
  MaxBackoff,    \* the longest delay before a peer is dialled again
  Fault,         \* the kinds of disturbance there may be
  MaxFaults      \* bound: disturbances

AtLeast(x, y) == IF x > y THEN x ELSE y
AtMost(x, y) == IF x < y THEN x ELSE y

ASSUME TimeAssumption ==
  /\ Hold \in Nat \ {0} /\ MinInterval \in Nat \ {0} /\ Late \in Nat
  /\ MaxBackoff \in Nat \ {0}
ASSUME FaultAssumption ==
  Fault \subseteq {"break", "silence", "restart", "delete"} /\ MaxFaults \in Nat

\* All hold times being equal, recalculate always gives this one.
recalculate == AtLeast(MinInterval, Hold \div 3)
Interval == recalculate

Never == Hold + Interval + Late + 1
Older(age) == AtMost(age + 1, Never)
Off == -1

Link == {p \in Node \X Node : p[1] # p[2]}
Back(p) == <<p[2], p[1]>>

VARIABLES
  status,    \* status[n, m]: connectionStatus of n's record of m
  heard,     \* heard[n, m]: age of its lastReceived
  sent,      \* sent[n, m]: age of the bus's lastKeepaliveSent
  call,      \* call[n, m]: the tick whose keepalive m has not answered, or Off
  since,     \* since[n]: age of n's last tick, or of its start
  ticked,    \* whether n has had a tick since it started
  stub,      \* stub[n, m]: "none", "open" or "broken" for good
  dial,      \* dial[n, m]: the openPeer under way
  timer,     \* timer[n, m]: time left to the next dial, or Off
  backoff,   \* backoff[n, m]: the delay the next failure will cost
  line,      \* line[n, m]: the network between them
  disturbed, \* the sessions something has happened to
  faults     \* disturbances so far

recordVars == <<status, heard>>
tickVars == <<sent, since, ticked>>
dialVars == <<dial, timer, backoff>>
netVars == <<line, disturbed, faults>>
vars == <<recordVars, tickVars, call, stub, dialVars, netVars>>

Init ==
  /\ status = [p \in Link |-> "absent"]
  /\ heard = [p \in Link |-> Never] /\ sent = [p \in Link |-> Never]
  /\ call = [p \in Link |-> Off]
  /\ since = [n \in Node |-> 0] /\ ticked = [n \in Node |-> FALSE]
  /\ stub = [p \in Link |-> "none"]
  /\ dial = [p \in Link |-> "none"] /\ timer = [p \in Link |-> Off]
  /\ backoff = [p \in Link |-> 1]
  /\ line = [p \in Link |-> "up"] /\ disturbed = {}
  /\ faults = 0

-----------------------------------------------------------------------------
(* Calls. *)

\* The queue of n is not held up by a call it awaits.
Free(n) == \A p \in Link : p[1] = n => call[p] = Off

Answers(p) == line[p] = "up" /\ stub[p] # "broken" /\ Free(p[2])
Fails(p) == line[p] = "down" \/ stub[p] = "broken"
Ends(p) == Answers(p) \/ Fails(p)

\* Every call that can end has ended.
Instant == \A p \in Link : call[p] # Off => ~Ends(p)

\* getStub: whatever becomes of a call, its stub stays in the map.
Keep(p, how) == stub' = [stub EXCEPT ![p] = how]

-----------------------------------------------------------------------------
(* The tick: hold timers, then keepalives. *)

Expired(n) == {p \in Link : p[1] = n /\ status[p] = "connected" /\ heard[p] > Hold}
DueIn(n, third) ==
  {p \in Link : /\ p[1] = n /\ status[p] = "connected"
                /\ p \notin Expired(n) /\ 3 * sent[p] > third}

\* Faulty: a keepalive is sent after two thirds of the hold time.
DueLate(n) == DueIn(n, 2 * Hold)
\* Faulty: closed peers are sent keepalives too.
DueClosed(n) ==
  {p \in Link : p[1] = n /\ status[p] # "absent" /\ 3 * sent[p] > Hold}

Due(n) == DueIn(n, Hold)

\* Faulty: a tick that has keepalives to send does not get to the hold timers.
TickSendingFirst(n) ==
  LET owed == {p \in Link : p[1] = n /\ status[p] = "connected" /\ 3 * sent[p] > Hold} IN
  /\ Free(n) /\ Instant /\ since[n] >= Interval
  /\ since' = [since EXCEPT ![n] = 0] /\ ticked' = [ticked EXCEPT ![n] = TRUE]
  /\ status' = [p \in Link |-> IF p \in Expired(n) /\ owed = {} THEN "closed" ELSE status[p]]
  /\ call' = [p \in Link |-> IF p \in owed THEN 0 ELSE call[p]]
  /\ UNCHANGED <<heard, sent, stub, dialVars, netVars>>

Tick(n) ==
  /\ Free(n) /\ Instant /\ since[n] >= Interval
  /\ since' = [since EXCEPT ![n] = 0] /\ ticked' = [ticked EXCEPT ![n] = TRUE]
  /\ status' = [p \in Link |-> IF p \in Expired(n) THEN "closed" ELSE status[p]]
  /\ call' = [p \in Link |-> IF p \in Due(n) THEN 0 ELSE call[p]]
  /\ UNCHANGED <<heard, sent, stub, dialVars, netVars>>

\* The peer takes note of the keepalive, if it knows its sender, whatever the
\* state of the session; the sender looks at no answer.
sendKeepalive(p) ==
  /\ call[p] # Off /\ Answers(p)
  /\ heard' = IF status[Back(p)] = "absent" THEN heard ELSE [heard EXCEPT ![Back(p)] = 0]
  /\ sent' = [sent EXCEPT ![p] = call[p]]
  /\ call' = [call EXCEPT ![p] = Off]
  /\ Keep(p, "open")
  /\ UNCHANGED <<status, since, ticked, dialVars, netVars>>

KeepaliveFails(p) ==
  /\ call[p] # Off /\ Fails(p)
  /\ call' = [call EXCEPT ![p] = Off]
  /\ Keep(p, "broken")
  /\ UNCHANGED <<recordVars, tickVars, dialVars, netVars>>

-----------------------------------------------------------------------------
(* Dialling. *)

\* Faulty: the delay doubles without a limit.
scheduleUncapped(p) ==
  IF timer[p] # Off THEN UNCHANGED <<timer, backoff>>
  ELSE /\ timer' = [timer EXCEPT ![p] = backoff[p]]
       /\ backoff' = [backoff EXCEPT ![p] = 2 * @]

\* A pending timer is kept; otherwise the delay doubles, up to the longest.
scheduleReconnect(p) ==
  IF timer[p] # Off THEN UNCHANGED <<timer, backoff>>
  ELSE /\ timer' = [timer EXCEPT ![p] = backoff[p]]
       /\ backoff' = [backoff EXCEPT ![p] = AtMost(2 * @, MaxBackoff)]

Dialling(p) == dial[p] \in {"first", "retry"}

\* LocalPeerCreate, and dialPeer when it has been committed.
LocalPeerCreate(p) ==
  /\ status[p] = "absent" /\ Free(p[1]) /\ dial[p] = "none"
  /\ status' = [status EXCEPT ![p] = "initializing"]
  /\ dial' = [dial EXCEPT ![p] = "first"]
  /\ UNCHANGED <<heard, tickVars, call, stub, timer, backoff, netVars>>

\* The peer knows this node and takes the session as up; only a dial by the
\* timer makes the count of attempts start anew.
openPeer(p) ==
  /\ Dialling(p) /\ Answers(p) /\ status[Back(p)] # "absent"
  /\ status' = [status EXCEPT ![Back(p)] = "connected"]
  /\ heard' = [heard EXCEPT ![Back(p)] = 0]
  /\ backoff' = IF dial[p] = "retry" THEN [backoff EXCEPT ![p] = 1] ELSE backoff
  /\ dial' = [dial EXCEPT ![p] = "opened"]
  /\ Keep(p, "open")
  /\ UNCHANGED <<tickVars, call, timer, netVars>>

\* The peer refuses, or the call fails.
OpenFails(p) ==
  /\ Dialling(p)
  /\ \/ Answers(p) /\ status[Back(p)] = "absent" /\ Keep(p, "open")
     \/ Fails(p) /\ Keep(p, "broken")
  /\ scheduleReconnect(p)
  /\ dial' = [dial EXCEPT ![p] = "none"]
  /\ UNCHANGED <<recordVars, tickVars, call, netVars>>

\* Connected is dispatched; a peer that has been deleted is not known any more.
Connected(p) ==
  /\ dial[p] = "opened" /\ Free(p[1])
  /\ dial' = [dial EXCEPT ![p] = "none"]
  /\ IF status[p] = "absent" THEN UNCHANGED recordVars
     ELSE /\ status' = [status EXCEPT ![p] = "connected"]
          /\ heard' = [heard EXCEPT ![p] = 0]
  /\ UNCHANGED <<tickVars, call, stub, timer, backoff, netVars>>

\* The reconnect timer fires, whether or not the peer is still configured.
Redial(p) ==
  /\ timer[p] = 0 /\ dial[p] = "none"
  /\ timer' = [timer EXCEPT ![p] = Off]
  /\ dial' = [dial EXCEPT ![p] = "retry"]
  /\ UNCHANGED <<recordVars, tickVars, call, stub, backoff, netVars>>

-----------------------------------------------------------------------------
(* Time passes once nothing can happen before it does. *)

Advance ==
  /\ Instant
  /\ \A n \in Node : since[n] < Interval + Late \/ ~Free(n)
  /\ \A p \in Link :
       /\ Dialling(p) => ~Ends(p)
       /\ dial[p] = "opened" => ~Free(p[1])
       /\ timer[p] = 0 => dial[p] # "none"
  /\ heard' = [p \in Link |-> Older(heard[p])]
  /\ sent' = [p \in Link |-> Older(sent[p])]
  /\ call' = [p \in Link |-> IF call[p] = Off THEN Off ELSE Older(call[p])]
  /\ since' = [n \in Node |-> Older(since[n])]
  /\ timer' = [p \in Link |-> IF timer[p] > 0 THEN timer[p] - 1 ELSE timer[p]]
  /\ UNCHANGED <<status, ticked, stub, dial, backoff, netVars>>

-----------------------------------------------------------------------------
(* What may go wrong. *)

Counted(f) == f \in Fault /\ faults < MaxFaults /\ faults' = faults + 1
Disturb(ps) == disturbed' = disturbed \cup ps \cup {Back(p) : p \in ps}
Line(p, how) == line' = [line EXCEPT ![p] = how, ![Back(p)] = how]

\* A connection breaks, and what was held over it breaks for good.
Break(p) ==
  /\ line[p] # "down" /\ Counted("break") /\ Disturb({p}) /\ Line(p, "down")
  /\ stub' = [q \in Link |-> IF q \in {p, Back(p)} /\ stub[q] = "open" THEN "broken"
                             ELSE stub[q]]
  /\ UNCHANGED <<recordVars, tickVars, call, dialVars>>

\* Nothing gets through any more, and nobody is told.  The queues that wait
\* for an answer may hold up others, so no session is safe from it.
FallSilent(p) ==
  /\ line[p] = "up" /\ Counted("silence") /\ Disturb(Link) /\ Line(p, "silent")
  /\ UNCHANGED <<recordVars, tickVars, call, stub, dialVars>>

Restore(p) ==
  /\ line[p] # "up" /\ Line(p, "up")
  /\ UNCHANGED <<recordVars, tickVars, call, stub, dialVars, disturbed, faults>>

\* A node stops and starts again from its SQLite journal.  Of a peer the tail
\* of the journal mentions, recovery has just heard; of another it knows what
\* the snapshot says.  Nothing else survives, and nobody is dialled.
Restart(n) ==
  LET own == {p \in Link : p[1] = n} IN
  /\ Counted("restart") /\ Disturb(own)
  /\ \E fresh \in SUBSET {p \in own : status[p] # "absent"} :
       heard' = [p \in Link |-> IF p \in fresh THEN 0 ELSE heard[p]]
  /\ sent' = [p \in Link |-> IF p \in own THEN Never ELSE sent[p]]
  /\ since' = [since EXCEPT ![n] = 0] /\ ticked' = [ticked EXCEPT ![n] = FALSE]
  /\ call' = [p \in Link |-> IF p \in own THEN Off ELSE call[p]]
  /\ stub' = [p \in Link |-> IF p \in own THEN "none"
                             ELSE IF p[2] = n /\ stub[p] = "open" THEN "broken"
                             ELSE stub[p]]
  /\ dial' = [p \in Link |-> IF p \in own THEN "none" ELSE dial[p]]
  /\ timer' = [p \in Link |-> IF p \in own THEN Off ELSE timer[p]]
  /\ backoff' = [p \in Link |-> IF p \in own THEN 1 ELSE backoff[p]]
  /\ UNCHANGED <<status, line>>

\* LocalPeerDelete: closePeer tells the peer if it can and drops the stub.
LocalPeerDelete(p) ==
  /\ status[p] # "absent" /\ Free(p[1]) /\ Ends(p)
  /\ Counted("delete") /\ Disturb({p})
  /\ status' = [status EXCEPT ![p] = "absent",
       ![Back(p)] = IF Answers(p) /\ @ # "absent" THEN "closed" ELSE @]
  /\ heard' = [heard EXCEPT ![p] = Never]
  /\ Keep(p, "none")
  /\ UNCHANGED <<tickVars, call, dialVars, line>>

-----------------------------------------------------------------------------
Automatic ==
  \/ Advance
  \/ \E n \in Node : Tick(n)
  \/ \E p \in Link : \/ sendKeepalive(p) \/ KeepaliveFails(p) \/ openPeer(p)
                     \/ OpenFails(p) \/ Connected(p) \/ Redial(p)

Next ==
  \/ Automatic
  \/ \E n \in Node : Restart(n)
  \/ \E p \in Link : \/ LocalPeerCreate(p) \/ LocalPeerDelete(p)
                     \/ Break(p) \/ FallSilent(p) \/ Restore(p)

Spec == Init /\ [][Next]_vars

\* Timers fire, calls that can end do, and time goes on; a line does not stay
\* down for ever, since there are finitely many faults.
FairSpec ==
  /\ Spec
  /\ WF_vars(Automatic)
  /\ \A p \in Link : WF_vars(Restore(p))

-----------------------------------------------------------------------------
\* The parts of the state have their types; a delay is never longer than the
\* longest (reconnect.ts scheduleReconnect), and there is one timer per peer.
TypeOK ==
  /\ status \in [Link -> {"absent", "initializing", "connected", "closed"}]
  /\ heard \in [Link -> 0..Never] /\ sent \in [Link -> 0..Never]
  /\ call \in [Link -> Off..Never]
  /\ since \in [Node -> 0..Never] /\ ticked \in [Node -> BOOLEAN]
  /\ stub \in [Link -> {"none", "open", "broken"}]
  /\ dial \in [Link -> {"none", "first", "retry", "opened"}]
  /\ timer \in [Link -> Off..MaxBackoff] /\ backoff \in [Link -> 1..MaxBackoff]
  /\ line \in [Link -> {"up", "silent", "down"}]
  /\ disturbed \in SUBSET Link
  /\ faults \in 0..MaxFaults

\* A session nothing has happened to never expires, however late the timers
\* and whatever breaks, restarts or goes elsewhere: its keepalives come in time
\* (bus.ts handleKeepalives against rib.ts planTick).
HealthyStaysUp == \A p \in Link \ disturbed : status[p] # "closed"

\* A node takes a session as up only while it has heard from the peer within
\* the hold time, give or take the time to its next tick: no call of its own
\* has kept that tick waiting (rib.ts planTick, tick-manager.ts, bus.ts dispatch).
Noticed(p) ==
  status[p] = "connected" /\ ticked[p[1]] => heard[p] <= Hold + Interval + Late
DeadNoticed == \A p \in Link : since[p[1]] <= Interval + Late => Noticed(p)

\* "If no message is received within the Hold Time, the peer is considered dead."
HoldTimeKept == \A p \in Link : Noticed(p)

\* No session stays up on one side only.
HalfOpen(p) == status[p] = "connected" /\ status[Back(p)] # "connected"
HalfOpenEnds == \A p \in Link : HalfOpen(p) ~> ~HalfOpen(p)

\* "Reconnects on hold timer expiry": a session that ended is dialled again.
ExpiredIsDialled ==
  \A p \in Link : status[p] = "closed" ~> status[p] # "closed" \/ dial[p] # "none"
===============================================================================
