----------------------------- MODULE SessionProofs -----------------------------
(***************************************************************************)
(* Proofs about Session, for any number of nodes and of disturbances: its  *)
(* type invariant, that hold timers are enforced, and that a session       *)
(* nothing has happened to never expires as long as the timers are not too *)
(* late for the hold time.                                                 *)
(***************************************************************************)
EXTENDS Session, TLAPS

-----------------------------------------------------------------------------
(* The inductive invariants. *)

\* At every tick the sessions that stay up had been heard from in time.
HeardInv ==
  \A p \in Link : status[p] = "connected" /\ ticked[p[1]] => heard[p] <= Hold + since[p[1]]

\* A keepalive counts as sent only if the peer has it.
SentInv == \A p \in Link : status[Back(p)] = "connected" => heard[Back(p)] <= sent[p]

\* Something is undisturbed only if no line has ever been silent; then only one
\* node awaits answers, and its ticks are in time.
CalmInv ==
  /\ \A p \in disturbed : Back(p) \in disturbed
  /\ disturbed # Link =>
       /\ \A p \in Link : line[p] # "silent"
       /\ \A p, q \in Link : call[p] # Off /\ call[q] # Off => p[1] = q[1]
       /\ \A n \in Node : since[n] <= Interval + Late

\* What is known of p and its peer while nothing has happened to their session.
HealthyLink(p) ==
  /\ line[p] = "up" /\ stub[p] # "broken" /\ status[p] # "closed"
  /\ dial[p] # "none" \/ timer[p] # Off => status[p] # "absent"
  /\ dial[p] = "opened" => status[Back(p)] = "connected" /\ heard[Back(p)] = 0
  /\ status[Back(p)] = "connected" => status[p] = "connected" \/ dial[p] = "opened"
  /\ status[Back(p)] = "connected" =>
       call[p] # Off \/ heard[Back(p)] <= (Hold \div 3) + since[p[1]]

HealthyInv == \A p \in Link \ disturbed : HealthyLink(p)

SessionInv == TypeOK /\ HeardInv /\ SentInv /\ CalmInv /\ HealthyInv

-----------------------------------------------------------------------------
(* Links and ages. *)

LEMMA LinkFacts ==
  ASSUME NEW p \in Link
  PROVE  /\ Back(p) \in Link /\ Back(Back(p)) = p /\ Back(p) # p
         /\ p[1] \in Node /\ p[2] \in Node
         /\ Back(p)[1] = p[2] /\ Back(p)[2] = p[1]
BY DEF Link, Back

LEMMA TimeFacts ==
  /\ Hold \in Nat /\ Hold > 0 /\ Late \in Nat /\ MaxBackoff \in Nat /\ MaxBackoff > 0
  /\ Interval \in Nat /\ Interval > 0 /\ Hold \div 3 \in Nat
  /\ Never \in Nat /\ Never = Hold + Interval + Late + 1
BY TimeAssumption DEF Interval, recalculate, AtLeast, Never

LEMMA OlderFacts ==
  ASSUME NEW x \in 0..Never
  PROVE  /\ Older(x) \in 0..Never /\ Older(x) >= x /\ Older(x) <= x + 1
         /\ x < Never => Older(x) = x + 1
         /\ x = Never => Older(x) = Never
BY TimeFacts DEF Older, AtMost

-----------------------------------------------------------------------------
(* The type invariant. *)

LEMMA InitType == Init => TypeOK
BY TimeFacts, FaultAssumption DEF Init, TypeOK, Off

LEMMA TypeStep ==
  ASSUME TypeOK, [Next]_vars
  PROVE  TypeOK'
<1> USE LinkFacts, TimeFacts, FaultAssumption DEF TypeOK, Off
<1>1. CASE UNCHANGED vars
  BY <1>1 DEF vars, recordVars, tickVars, dialVars, netVars
<1>2. ASSUME NEW n \in Node, Tick(n) PROVE TypeOK'
  BY <1>2 DEF Tick, dialVars, netVars
<1>3. ASSUME NEW p \in Link, sendKeepalive(p) PROVE TypeOK'
  <2>1. call[p] \in 0..Never
    BY <1>3 DEF sendKeepalive
  <2> QED BY <1>3, <2>1 DEF sendKeepalive, Keep, dialVars, netVars
<1>4. ASSUME NEW p \in Link, KeepaliveFails(p) PROVE TypeOK'
  BY <1>4 DEF KeepaliveFails, Keep, recordVars, tickVars, dialVars, netVars
<1>5. ASSUME NEW p \in Link, LocalPeerCreate(p) PROVE TypeOK'
  BY <1>5 DEF LocalPeerCreate, tickVars, netVars
<1>6. ASSUME NEW p \in Link, openPeer(p) PROVE TypeOK'
  BY <1>6 DEF openPeer, Keep, tickVars, netVars
<1>7. ASSUME NEW p \in Link, OpenFails(p) PROVE TypeOK'
  BY <1>7 DEF OpenFails, Keep, scheduleReconnect, AtMost, recordVars, tickVars, netVars
<1>8. ASSUME NEW p \in Link, Connected(p) PROVE TypeOK'
  BY <1>8 DEF Connected, recordVars, tickVars, netVars
<1>9. ASSUME NEW p \in Link, Redial(p) PROVE TypeOK'
  BY <1>9 DEF Redial, recordVars, tickVars, netVars
<1>10. CASE Advance
  <2>1. \A x \in 0..Never : Older(x) \in 0..Never
    BY OlderFacts
  <2>2. heard' \in [Link -> 0..Never] /\ sent' \in [Link -> 0..Never] /\ since' \in [Node -> 0..Never]
    BY <1>10, <2>1 DEF Advance
  <2>3. call' \in [Link -> Off..Never]
    BY <1>10, <2>1 DEF Advance
  <2>4. timer' \in [Link -> Off..MaxBackoff]
    BY <1>10 DEF Advance
  <2> QED BY <1>10, <2>2, <2>3, <2>4 DEF Advance, netVars
<1>11. ASSUME NEW n \in Node, Restart(n) PROVE TypeOK'
  <2>1. heard' \in [Link -> 0..Never]
    BY <1>11 DEF Restart
  <2>2. disturbed' \in SUBSET Link
    BY <1>11 DEF Restart, Disturb
  <2> QED BY <1>11, <2>1, <2>2 DEF Restart, Counted
<1>12. ASSUME NEW p \in Link, LocalPeerDelete(p) PROVE TypeOK'
  BY <1>12 DEF LocalPeerDelete, Keep, Counted, Disturb, tickVars, dialVars
<1>13. ASSUME NEW p \in Link, Break(p) PROVE TypeOK'
  BY <1>13 DEF Break, Line, Counted, Disturb, recordVars, tickVars, dialVars
<1>14. ASSUME NEW p \in Link, FallSilent(p) PROVE TypeOK'
  BY <1>14 DEF FallSilent, Line, Counted, Disturb, recordVars, tickVars, dialVars
<1>15. ASSUME NEW p \in Link, Restore(p) PROVE TypeOK'
  BY <1>15 DEF Restore, Line, recordVars, tickVars, dialVars
<1> QED
  BY <1>1, <1>2, <1>3, <1>4, <1>5, <1>6, <1>7, <1>8, <1>9, <1>10, <1>11, <1>12, <1>13,
     <1>14, <1>15 DEF Next, Automatic

\* The parts of the state keep their types, delays and disturbances their
\* bounds, whatever happens to however many nodes.
THEOREM TypeCorrect == Spec => []TypeOK
<1>1. TypeOK /\ [Next]_vars => TypeOK'
  BY TypeStep
<1> QED BY InitType, <1>1, PTL DEF Spec

-----------------------------------------------------------------------------
(* Hold timers. *)

LEMMA HeardStep ==
  ASSUME TypeOK, HeardInv, [Next]_vars
  PROVE  HeardInv'
<1> USE LinkFacts, TimeFacts DEF TypeOK, HeardInv
<1>1. CASE UNCHANGED vars
  BY <1>1 DEF vars, recordVars, tickVars, dialVars, netVars
<1>2. ASSUME NEW n \in Node, Tick(n) PROVE HeardInv'
  <2> SUFFICES ASSUME NEW p \in Link, (status[p] = "connected" /\ ticked[p[1]])'
               PROVE  heard'[p] <= Hold + since'[p[1]]
    BY DEF HeardInv
  <2>1. CASE p[1] = n
    <3>1. p \notin Expired(n) /\ status[p] = "connected"
      BY <1>2 DEF Tick
    <3>2. heard[p] <= Hold
      BY <2>1, <3>1 DEF Expired
    <3> QED BY <1>2, <2>1, <3>2 DEF Tick
  <2>2. CASE p[1] # n
    BY <1>2, <2>2 DEF Tick
  <2> QED BY <2>1, <2>2
<1>3. ASSUME NEW p \in Link, sendKeepalive(p) PROVE HeardInv'
  BY <1>3 DEF sendKeepalive
<1>4. ASSUME NEW p \in Link, KeepaliveFails(p) PROVE HeardInv'
  BY <1>4 DEF KeepaliveFails, recordVars, tickVars
<1>5. ASSUME NEW p \in Link, LocalPeerCreate(p) PROVE HeardInv'
  BY <1>5 DEF LocalPeerCreate, tickVars
<1>6. ASSUME NEW p \in Link, openPeer(p) PROVE HeardInv'
  BY <1>6 DEF openPeer, tickVars
<1>7. ASSUME NEW p \in Link, OpenFails(p) PROVE HeardInv'
  BY <1>7 DEF OpenFails, recordVars, tickVars
<1>8. ASSUME NEW p \in Link, Connected(p) PROVE HeardInv'
  BY <1>8 DEF Connected, recordVars, tickVars
<1>9. ASSUME NEW p \in Link, Redial(p) PROVE HeardInv'
  BY <1>9 DEF Redial, recordVars, tickVars
<1>10. CASE Advance
  <2> SUFFICES ASSUME NEW p \in Link, (status[p] = "connected" /\ ticked[p[1]])'
               PROVE  heard'[p] <= Hold + since'[p[1]]
    BY DEF HeardInv
  <2>1. heard[p] <= Hold + since[p[1]]
    BY <1>10 DEF Advance
  <2>2. heard'[p] = Older(heard[p]) /\ since'[p[1]] = Older(since[p[1]])
    BY <1>10 DEF Advance
  <2>3. heard[p] \in 0..Never /\ since[p[1]] \in 0..Never
    OBVIOUS
  <2> QED BY <2>1, <2>2, <2>3, OlderFacts
<1>11. ASSUME NEW n \in Node, Restart(n) PROVE HeardInv'
  <2> SUFFICES ASSUME NEW p \in Link, (status[p] = "connected" /\ ticked[p[1]])'
               PROVE  heard'[p] <= Hold + since'[p[1]]
    BY DEF HeardInv
  <2>1. p[1] # n /\ ticked[p[1]] /\ status[p] = "connected" /\ since'[p[1]] = since[p[1]]
    BY <1>11 DEF Restart
  <2>2. heard'[p] = heard[p]
    BY <1>11, <2>1 DEF Restart
  <2> QED BY <2>1, <2>2
<1>12. ASSUME NEW p \in Link, LocalPeerDelete(p) PROVE HeardInv'
  BY <1>12 DEF LocalPeerDelete, tickVars
<1>13. ASSUME NEW p \in Link, Break(p) PROVE HeardInv'
  BY <1>13 DEF Break, recordVars, tickVars
<1>14. ASSUME NEW p \in Link, FallSilent(p) PROVE HeardInv'
  BY <1>14 DEF FallSilent, recordVars, tickVars
<1>15. ASSUME NEW p \in Link, Restore(p) PROVE HeardInv'
  BY <1>15 DEF Restore, recordVars, tickVars
<1> QED
  BY <1>1, <1>2, <1>3, <1>4, <1>5, <1>6, <1>7, <1>8, <1>9, <1>10, <1>11, <1>12, <1>13,
     <1>14, <1>15 DEF Next, Automatic

\* A node whose queue is not held up takes no session as up whose peer it has
\* not heard from within the hold time, up to the time to its next tick.
THEOREM DeadIsNoticed == Spec => []DeadNoticed
<1>1. Init => HeardInv
  BY DEF Init, HeardInv
<1>2. TypeOK /\ HeardInv /\ [Next]_vars => HeardInv'
  BY HeardStep
<1>3. TypeOK /\ HeardInv => DeadNoticed
  BY TimeFacts, LinkFacts DEF TypeOK, HeardInv, DeadNoticed, Noticed
<1> QED BY <1>1, <1>2, <1>3, TypeCorrect, PTL DEF Spec

-----------------------------------------------------------------------------
(* Keepalives. *)

LEMMA SentStep ==
  ASSUME TypeOK, SentInv, [Next]_vars
  PROVE  SentInv'
<1> USE LinkFacts, TimeFacts DEF TypeOK, SentInv
<1>1. CASE UNCHANGED vars
  BY <1>1 DEF vars, recordVars, tickVars, dialVars, netVars
<1>2. ASSUME NEW n \in Node, Tick(n) PROVE SentInv'
  BY <1>2 DEF Tick
<1>3. ASSUME NEW q \in Link, sendKeepalive(q) PROVE SentInv'
  <2> SUFFICES ASSUME NEW p \in Link, status'[Back(p)] = "connected"
               PROVE  heard'[Back(p)] <= sent'[p]
    BY DEF SentInv
  <2>1. CASE p = q
    BY <1>3, <2>1 DEF sendKeepalive, Off
  <2>2. CASE p # q
    <3>1. Back(p) # Back(q)
      BY <2>2
    <3> QED BY <1>3, <2>2, <3>1 DEF sendKeepalive
  <2> QED BY <2>1, <2>2
<1>4. ASSUME NEW q \in Link, KeepaliveFails(q) PROVE SentInv'
  BY <1>4 DEF KeepaliveFails, recordVars, tickVars
<1>5. ASSUME NEW q \in Link, LocalPeerCreate(q) PROVE SentInv'
  BY <1>5 DEF LocalPeerCreate, tickVars
<1>6. ASSUME NEW q \in Link, openPeer(q) PROVE SentInv'
  BY <1>6 DEF openPeer, tickVars
<1>7. ASSUME NEW q \in Link, OpenFails(q) PROVE SentInv'
  BY <1>7 DEF OpenFails, recordVars, tickVars
<1>8. ASSUME NEW q \in Link, Connected(q) PROVE SentInv'
  BY <1>8 DEF Connected, recordVars, tickVars
<1>9. ASSUME NEW q \in Link, Redial(q) PROVE SentInv'
  BY <1>9 DEF Redial, recordVars, tickVars
<1>10. CASE Advance
  <2> SUFFICES ASSUME NEW p \in Link, status'[Back(p)] = "connected"
               PROVE  heard'[Back(p)] <= sent'[p]
    BY DEF SentInv
  <2>1. heard[Back(p)] <= sent[p]
    BY <1>10 DEF Advance
  <2>2. heard'[Back(p)] = Older(heard[Back(p)]) /\ sent'[p] = Older(sent[p])
    BY <1>10 DEF Advance
  <2>3. heard[Back(p)] \in 0..Never /\ sent[p] \in 0..Never
    OBVIOUS
  <2> QED BY <2>1, <2>2, <2>3, OlderFacts
<1>11. ASSUME NEW n \in Node, Restart(n) PROVE SentInv'
  <2> SUFFICES ASSUME NEW p \in Link, status'[Back(p)] = "connected"
               PROVE  heard'[Back(p)] <= sent'[p]
    BY DEF SentInv
  <2>1. heard[Back(p)] <= sent[p]
    BY <1>11 DEF Restart
  <2>2. heard'[Back(p)] <= heard[Back(p)] /\ heard'[Back(p)] \in 0..Never
    BY <1>11 DEF Restart
  <2>3. sent'[p] = sent[p] \/ sent'[p] = Never
    BY <1>11 DEF Restart
  <2> QED BY <2>1, <2>2, <2>3
<1>12. ASSUME NEW q \in Link, LocalPeerDelete(q) PROVE SentInv'
  <2> SUFFICES ASSUME NEW p \in Link, status'[Back(p)] = "connected"
               PROVE  heard'[Back(p)] <= sent'[p]
    BY DEF SentInv
  <2>1. Back(p) # q /\ status[Back(p)] = "connected"
    BY <1>12 DEF LocalPeerDelete
  <2> QED BY <1>12, <2>1 DEF LocalPeerDelete, tickVars
<1>13. ASSUME NEW q \in Link, Break(q) PROVE SentInv'
  BY <1>13 DEF Break, recordVars, tickVars
<1>14. ASSUME NEW q \in Link, FallSilent(q) PROVE SentInv'
  BY <1>14 DEF FallSilent, recordVars, tickVars
<1>15. ASSUME NEW q \in Link, Restore(q) PROVE SentInv'
  BY <1>15 DEF Restore, recordVars, tickVars
<1> QED
  BY <1>1, <1>2, <1>3, <1>4, <1>5, <1>6, <1>7, <1>8, <1>9, <1>10, <1>11, <1>12, <1>13,
     <1>14, <1>15 DEF Next, Automatic

\* Without silent lines a call that is awaited can end.
LEMMA CalmCalls ==
  ASSUME TypeOK, CalmInv, disturbed # Link, Instant
  PROVE  /\ \A p \in Link : call[p] = Off
         /\ \A n \in Node : Free(n)
<1>1. SUFFICES ASSUME NEW p \in Link, call[p] # Off PROVE FALSE
  BY DEF Free
<1>2. ~Answers(p) /\ ~Fails(p)
  BY <1>1 DEF Instant, Ends
<1>3. line[p] = "up" /\ stub[p] # "broken"
  BY <1>2 DEF CalmInv, Fails, TypeOK
<1>4. PICK q \in Link : q[1] = p[2] /\ call[q] # Off
  BY <1>2, <1>3 DEF Answers, Free
<1>5. p[1] = p[2]
  BY <1>1, <1>4 DEF CalmInv
<1> QED BY <1>5 DEF Link

\* What has been disturbed stays so.
LEMMA DisturbedGrows ==
  ASSUME TypeOK, [Next]_vars
  PROVE  disturbed \subseteq disturbed' /\ disturbed' \subseteq Link
<1>1. TypeOK'
  BY TypeStep
<1>2. disturbed' = disturbed \/ \E ps \in SUBSET Link : Disturb(ps)
  <2>1. ASSUME NEW n \in Node, Restart(n) PROVE \E ps \in SUBSET Link : Disturb(ps)
    <3> WITNESS {p \in Link : p[1] = n} \in SUBSET Link
    <3> QED BY <2>1 DEF Restart
  <2>2. ASSUME NEW p \in Link, LocalPeerDelete(p) \/ Break(p)
        PROVE  \E ps \in SUBSET Link : Disturb(ps)
    <3> WITNESS {p} \in SUBSET Link
    <3> QED BY <2>2 DEF LocalPeerDelete, Break
  <2>3. ASSUME NEW p \in Link, FallSilent(p) PROVE \E ps \in SUBSET Link : Disturb(ps)
    <3> WITNESS Link \in SUBSET Link
    <3> QED BY <2>3 DEF FallSilent
  <2> QED BY <2>1, <2>2, <2>3 DEF Next, Automatic, vars, Tick, sendKeepalive,
        KeepaliveFails, LocalPeerCreate, openPeer, OpenFails, Connected, Redial, Advance,
        Restore, netVars
<1> QED BY <1>1, <1>2 DEF Disturb, TypeOK

LEMMA CalmStep ==
  ASSUME TypeOK, CalmInv, [Next]_vars
  PROVE  CalmInv'
<1> USE LinkFacts, TimeFacts DEF TypeOK, Off
<1>1. \A p \in disturbed' : Back(p) \in disturbed'
  <2>1. ASSUME disturbed' = disturbed PROVE \A p \in disturbed' : Back(p) \in disturbed'
    BY <2>1 DEF CalmInv
  <2>2. ASSUME NEW ps \in SUBSET Link, Disturb(ps)
        PROVE  \A p \in disturbed' : Back(p) \in disturbed'
    BY <2>2 DEF CalmInv, Disturb
  <2> QED BY <2>1, <2>2 DEF Next, Automatic, vars, Tick, sendKeepalive,
        KeepaliveFails, LocalPeerCreate, openPeer, OpenFails, Connected, Redial, Advance,
        Restore, netVars, Restart, LocalPeerDelete, Break, FallSilent
<1>2. SUFFICES ASSUME disturbed' # Link
      PROVE  /\ \A p \in Link : line'[p] # "silent"
             /\ \A p, q \in Link : call'[p] # Off /\ call'[q] # Off => p[1] = q[1]
             /\ \A n \in Node : since'[n] <= Interval + Late
  BY <1>1 DEF CalmInv
<1>3. disturbed # Link
  BY <1>2, DisturbedGrows
<1>4. /\ \A p \in Link : line[p] # "silent"
      /\ \A p, q \in Link : call[p] # Off /\ call[q] # Off => p[1] = q[1]
      /\ \A n \in Node : since[n] <= Interval + Late
  BY <1>3 DEF CalmInv
<1>5. \A p \in Link : line'[p] # "silent"
  <2>1. ASSUME NEW p \in Link, FallSilent(p) PROVE FALSE
    BY <2>1, <1>2 DEF FallSilent, Disturb
  <2>2. ASSUME NEW p \in Link, Break(p) \/ Restore(p)
        PROVE  \A q \in Link : line'[q] # "silent"
    BY <2>2, <1>4 DEF Break, Restore, Line
  <2>3. CASE UNCHANGED line
    BY <2>3, <1>4
  <2> QED BY <2>1, <2>2, <2>3 DEF Next, Automatic, vars, Tick, sendKeepalive,
        KeepaliveFails, LocalPeerCreate, openPeer, OpenFails, Connected, Redial, Advance,
        netVars, Restart, LocalPeerDelete
<1>6. \A p, q \in Link : call'[p] # Off /\ call'[q] # Off => p[1] = q[1]
  <2>1. ASSUME NEW n \in Node, Tick(n)
        PROVE  \A p, q \in Link : call'[p] # Off /\ call'[q] # Off => p[1] = q[1]
    <3>1. \A p \in Link : call[p] = Off
      BY <2>1, <1>3, CalmCalls DEF Tick
    <3>2. \A p \in Due(n) : p[1] = n
      BY DEF Due, DueIn
    <3> QED BY <2>1, <3>1, <3>2 DEF Tick
  <2>2. CASE Advance
    BY <2>2, <1>4 DEF Advance
  <2>3. ASSUME \A p \in Link : call'[p] \in {call[p], Off}
        PROVE  \A p, q \in Link : call'[p] # Off /\ call'[q] # Off => p[1] = q[1]
    BY <2>3, <1>4
  <2>4. ASSUME NEW p \in Link, sendKeepalive(p) \/ KeepaliveFails(p)
        PROVE  \A q \in Link : call'[q] \in {call[q], Off}
    BY <2>4 DEF sendKeepalive, KeepaliveFails
  <2>5. ASSUME NEW n \in Node, Restart(n)
        PROVE  \A q \in Link : call'[q] \in {call[q], Off}
    BY <2>5 DEF Restart
  <2>6. CASE UNCHANGED call
    BY <2>6, <2>3
  <2> QED BY <2>1, <2>2, <2>3, <2>4, <2>5, <2>6 DEF Next, Automatic, vars,
        LocalPeerCreate, openPeer, OpenFails, Connected, Redial, Restore,
        LocalPeerDelete, Break, FallSilent
<1>7. \A n \in Node : since'[n] <= Interval + Late
  <2>1. CASE Advance
    <3>1. \A n \in Node : since[n] < Interval + Late
      BY <2>1, <1>3, CalmCalls DEF Advance
    <3>2. \A n \in Node : since[n] \in 0..Never
      OBVIOUS
    <3>3. \A n \in Node : since'[n] = Older(since[n])
      BY <2>1 DEF Advance
    <3> QED BY <3>1, <3>2, <3>3, OlderFacts
  <2>2. ASSUME NEW n \in Node, Tick(n) \/ Restart(n)
        PROVE  \A m \in Node : since'[m] <= Interval + Late
    <3>1. since' = [since EXCEPT ![n] = 0]
      BY <2>2 DEF Tick, Restart
    <3> QED BY <3>1, <1>4
  <2>3. CASE UNCHANGED since
    BY <2>3, <1>4
  <2>4. ASSUME NEW p \in Link,
               \/ sendKeepalive(p) \/ KeepaliveFails(p) \/ openPeer(p) \/ OpenFails(p)
               \/ Connected(p) \/ Redial(p) \/ LocalPeerCreate(p) \/ LocalPeerDelete(p)
               \/ Break(p) \/ FallSilent(p) \/ Restore(p)
        PROVE  UNCHANGED since
    BY <2>4 DEF sendKeepalive, KeepaliveFails, LocalPeerCreate, openPeer, OpenFails,
        Connected, Redial, Restore, tickVars, LocalPeerDelete, Break, FallSilent
  <2>5. CASE UNCHANGED vars
    BY <2>5, <2>3 DEF vars, tickVars
  <2> QED BY <2>1, <2>2, <2>3, <2>4, <2>5 DEF Next, Automatic
<1> QED BY <1>5, <1>6, <1>7

-----------------------------------------------------------------------------
(* Sessions nothing has happened to. *)

\* The timers are not too late for the hold time.
Timely == (Hold \div 3) + Interval + Late <= Hold

\* When calls have been answered, an undisturbed session does not expire.
LEMMA HeardInTime ==
  ASSUME Timely, TypeOK, CalmInv, HealthyInv, Instant,
         NEW p \in Link, p \notin disturbed, status[Back(p)] = "connected"
  PROVE  heard[Back(p)] <= Hold
<1>1. call[p] = Off
  BY CalmCalls
<1>2. heard[Back(p)] <= (Hold \div 3) + since[p[1]]
  BY <1>1 DEF HealthyInv, HealthyLink
<1>3. since[p[1]] <= Interval + Late
  BY LinkFacts DEF CalmInv
<1> QED BY <1>2, <1>3, TimeFacts, LinkFacts DEF Timely, TypeOK

\* A tick closes no undisturbed session and sends the keepalives that are due.
LEMMA HealthyTick ==
  ASSUME Timely, TypeOK, SentInv, CalmInv, HealthyInv, NEW n \in Node, Tick(n)
  PROVE  HealthyInv'
<1> SUFFICES ASSUME NEW p \in Link, p \notin disturbed' PROVE HealthyLink(p)'
  BY DEF HealthyInv
<1> USE LinkFacts, TimeFacts
<1>1. p \notin disturbed /\ Back(p) \notin disturbed
  BY DEF Tick, netVars, CalmInv
<1>2. HealthyLink(p) /\ Instant
  BY <1>1 DEF HealthyInv, Tick
<1>3. p \notin Expired(n) /\ Back(p) \notin Expired(n)
  BY <1>1, <1>2, HeardInTime DEF Expired, TypeOK
<1>4. status'[p] = status[p] /\ status'[Back(p)] = status[Back(p)]
  BY <1>3 DEF Tick
<1>5. ASSUME status[Back(p)] = "connected"
      PROVE  call'[p] # Off \/ heard[Back(p)] <= (Hold \div 3) + since'[p[1]]
  <2>1. heard[Back(p)] <= sent[p] /\ call[p] = Off
    BY <1>1, <1>2, <1>5, CalmCalls DEF SentInv
  <2>2. CASE p[1] # n
    BY <1>2, <1>5, <2>1, <2>2 DEF HealthyLink, Tick, TypeOK
  <2>3. CASE p[1] = n /\ p \in Due(n)
    BY <2>3 DEF Tick, Off
  <2>4. CASE p[1] = n /\ p \notin Due(n)
    <3>1. since'[p[1]] = 0
      BY <2>4 DEF Tick, TypeOK
    <3>2. CASE status[p] = "connected"
      <4>1. 3 * sent[p] <= Hold
        BY <1>3, <2>4, <3>2 DEF Due, DueIn, TypeOK
      <4> QED BY <2>1, <3>1, <4>1 DEF TypeOK
    <3>3. CASE status[p] # "connected"
      <4>1. heard[Back(p)] = 0
        BY <1>2, <1>5, <3>3 DEF HealthyLink
      <4> QED BY <3>1, <4>1
    <3> QED BY <3>2, <3>3
  <2> QED BY <2>2, <2>3, <2>4
<1>6. /\ UNCHANGED <<line, stub, dial, timer>> /\ heard' = heard
  BY DEF Tick, dialVars, netVars
<1> QED BY <1>2, <1>4, <1>5, <1>6 DEF HealthyLink

\* No time passes while a keepalive or a Connected is outstanding.
LEMMA HealthyAdvance ==
  ASSUME Timely, TypeOK, CalmInv, HealthyInv, Advance
  PROVE  HealthyInv'
<1> SUFFICES ASSUME NEW p \in Link, p \notin disturbed' PROVE HealthyLink(p)'
  BY DEF HealthyInv
<1> USE LinkFacts, TimeFacts
<1>1. p \notin disturbed /\ Instant
  BY DEF Advance, netVars
<1>2. HealthyLink(p)
  BY <1>1 DEF HealthyInv
<1>3. dial[p] # "opened" /\ call[p] = Off
  BY <1>1, CalmCalls DEF Advance
<1>4. ASSUME status[Back(p)] = "connected"
      PROVE  heard'[Back(p)] <= (Hold \div 3) + since'[p[1]]
  <2>1. heard[Back(p)] <= (Hold \div 3) + since[p[1]]
    BY <1>2, <1>3, <1>4 DEF HealthyLink
  <2>2. heard[Back(p)] \in 0..Never /\ since[p[1]] \in 0..Never
    BY DEF TypeOK
  <2>3. heard'[Back(p)] = Older(heard[Back(p)]) /\ since'[p[1]] = Older(since[p[1]])
    BY DEF Advance
  <2> QED BY <2>1, <2>2, <2>3, OlderFacts
<1>5. /\ UNCHANGED <<status, stub, dial, line>>
      /\ timer'[p] # Off => timer[p] # Off
  BY DEF Advance, netVars, Off, TypeOK
<1> QED BY <1>2, <1>3, <1>4, <1>5 DEF HealthyLink

\* Calls and dials between the nodes.
LEMMA HealthyCall ==
  ASSUME Timely, TypeOK, CalmInv, HealthyInv, NEW q \in Link,
         \/ sendKeepalive(q) \/ KeepaliveFails(q) \/ openPeer(q) \/ OpenFails(q)
         \/ Connected(q) \/ Redial(q) \/ LocalPeerCreate(q)
  PROVE  HealthyInv'
<1> SUFFICES ASSUME NEW p \in Link, p \notin disturbed' PROVE HealthyLink(p)'
  BY DEF HealthyInv
<1> USE LinkFacts, TimeFacts DEF TypeOK, Off
<1>1. disturbed' = disturbed /\ line' = line /\ since' = since
  BY DEF sendKeepalive, KeepaliveFails, openPeer, OpenFails, Connected, Redial,
     LocalPeerCreate, tickVars, netVars
<1>2. p \notin disturbed /\ Back(p) \notin disturbed
  BY <1>1 DEF CalmInv
<1>3. HealthyLink(p) /\ HealthyLink(Back(p))
  BY <1>2 DEF HealthyInv
<1>4. CASE sendKeepalive(q)
  <2>1. UNCHANGED <<status, dial, timer>>
    BY <1>4 DEF sendKeepalive, dialVars
  <2>2. stub'[p] # "broken"
    BY <1>3, <1>4 DEF HealthyLink, sendKeepalive, Keep
  <2>3. CASE p = q
    <3>1. status[Back(p)] = "connected" => heard'[Back(p)] = 0
      BY <1>4, <2>3 DEF sendKeepalive
    <3>2. dial[p] = "opened" => heard'[Back(p)] = 0
      BY <1>3, <3>1 DEF HealthyLink
    <3> QED BY <1>1, <1>3, <2>1, <2>2, <3>1, <3>2 DEF HealthyLink
  <2>4. CASE p # q
    <3>1. Back(p) # Back(q)
      BY <2>4
    <3>2. heard'[Back(p)] = heard[Back(p)] /\ call'[p] = call[p]
      BY <1>4, <2>4, <3>1 DEF sendKeepalive
    <3> QED BY <1>1, <1>3, <2>1, <2>2, <3>2 DEF HealthyLink
  <2> QED BY <2>3, <2>4
<1>5. CASE KeepaliveFails(q)
  <2>1. p # q
    BY <1>3, <1>5 DEF HealthyLink, KeepaliveFails, Fails
  <2>2. UNCHANGED <<status, heard, dial, timer>>
    BY <1>5 DEF KeepaliveFails, recordVars, dialVars
  <2>3. call'[p] = call[p] /\ stub'[p] = stub[p]
    BY <1>5, <2>1 DEF KeepaliveFails, Keep
  <2> QED BY <1>1, <1>3, <2>2, <2>3 DEF HealthyLink
<1>6. CASE openPeer(q)
  <2>1. call' = call /\ timer' = timer /\ dial[q] \in {"first", "retry"}
    BY <1>6 DEF openPeer, Dialling
  <2>2. stub'[p] # "broken"
    BY <1>3, <1>6 DEF HealthyLink, openPeer, Keep
  <2>3. CASE p = q
    <3>1. status'[Back(p)] = "connected" /\ heard'[Back(p)] = 0 /\ dial'[p] = "opened"
      BY <1>6, <2>3 DEF openPeer
    <3>2. status'[p] = status[p]
      BY <1>6, <2>3 DEF openPeer
    <3> QED BY <1>1, <1>3, <2>1, <2>2, <2>3, <3>1, <3>2 DEF HealthyLink
  <2>4. CASE p = Back(q)
    <3>1. status'[p] = "connected" /\ dial'[p] = dial[p]
      BY <1>6, <2>4 DEF openPeer
    <3>2. Back(p) = q /\ Back(p) # p
      BY <2>4
    <3>3. status'[Back(p)] = status[Back(p)] /\ heard'[Back(p)] = heard[Back(p)]
      BY <1>6, <2>4, <3>2 DEF openPeer
    <3> QED BY <1>1, <1>3, <2>1, <2>2, <3>1, <3>3 DEF HealthyLink
  <2>5. CASE p # q /\ p # Back(q)
    <3>1. Back(p) # q /\ Back(p) # Back(q)
      BY <2>5
    <3>2. /\ status'[p] = status[p] /\ status'[Back(p)] = status[Back(p)]
          /\ heard'[Back(p)] = heard[Back(p)] /\ dial'[p] = dial[p]
      BY <1>6, <2>5, <3>1 DEF openPeer
    <3> QED BY <1>1, <1>3, <2>1, <2>2, <3>2 DEF HealthyLink
  <2> QED BY <2>3, <2>4, <2>5
<1>7. CASE OpenFails(q)
  <2>1. UNCHANGED <<status, heard, call>>
    BY <1>7 DEF OpenFails, recordVars
  <2>2. stub'[p] # "broken"
    BY <1>3, <1>7 DEF HealthyLink, OpenFails, Keep, Fails
  <2>3. dial'[p] # "none" \/ timer'[p] # Off => dial[p] # "none" \/ timer[p] # Off
    BY <1>7 DEF OpenFails, scheduleReconnect, Dialling
  <2>4. dial'[p] = "opened" <=> dial[p] = "opened"
    BY <1>7 DEF OpenFails, Dialling
  <2> QED BY <1>1, <1>3, <2>1, <2>2, <2>3, <2>4 DEF HealthyLink
<1>8. CASE Connected(q)
  <2>1. UNCHANGED <<call, timer, stub>> /\ dial[q] = "opened"
    BY <1>8 DEF Connected
  <2>2. CASE p = q
    <3>1. status[p] # "absent" /\ status[Back(p)] = "connected"
      BY <1>3, <2>1, <2>2 DEF HealthyLink
    <3>2. status'[p] = "connected" /\ status'[Back(p)] = "connected" /\ dial'[p] = "none"
      BY <1>8, <2>2, <3>1 DEF Connected
    <3>3. heard'[Back(p)] = heard[Back(p)]
      BY <1>8, <2>2, <3>1 DEF Connected
    <3> QED BY <1>1, <1>3, <2>1, <3>1, <3>2, <3>3 DEF HealthyLink
  <2>3. CASE p = Back(q)
    <3>1. Back(p) = q /\ status[q] # "absent" /\ status[p] = "connected"
      BY <1>3, <2>1, <2>3 DEF HealthyLink
    <3>2. status'[p] = "connected" /\ heard'[Back(p)] = 0 /\ dial'[p] = dial[p]
          /\ status'[Back(p)] = "connected"
      BY <1>8, <2>3, <3>1 DEF Connected
    <3> QED BY <1>1, <1>3, <2>1, <3>1, <3>2 DEF HealthyLink
  <2>4. CASE p # q /\ p # Back(q)
    <3>1. Back(p) # q
      BY <2>4
    <3>2. /\ status'[p] = status[p] /\ status'[Back(p)] = status[Back(p)]
          /\ heard'[Back(p)] = heard[Back(p)] /\ dial'[p] = dial[p]
      BY <1>8, <2>4, <3>1 DEF Connected, recordVars
    <3> QED BY <1>1, <1>3, <2>1, <3>2 DEF HealthyLink
  <2> QED BY <2>2, <2>3, <2>4
<1>9. CASE Redial(q)
  <2>1. UNCHANGED <<status, heard, call, stub>>
    BY <1>9 DEF Redial, recordVars
  <2>2. dial'[p] # "none" \/ timer'[p] # Off => dial[p] # "none" \/ timer[p] # Off
    BY <1>9 DEF Redial
  <2>3. dial'[p] = "opened" <=> dial[p] = "opened"
    BY <1>9 DEF Redial
  <2> QED BY <1>1, <1>3, <2>1, <2>2, <2>3 DEF HealthyLink
<1>10. CASE LocalPeerCreate(q)
  <2>1. UNCHANGED <<heard, call, stub, timer>>
    BY <1>10 DEF LocalPeerCreate
  <2>2. status[q] = "absent" /\ status'[q] = "initializing" /\ dial[q] = "none"
        /\ dial'[q] = "first"
    BY <1>10 DEF LocalPeerCreate
  <2>3. \A r \in Link \ {q} : status'[r] = status[r] /\ dial'[r] = dial[r]
    BY <1>10 DEF LocalPeerCreate
  <2>4. CASE p = q
    <3>1. status'[Back(p)] = status[Back(p)]
      BY <2>3, <2>4
    <3> QED BY <1>1, <1>3, <2>1, <2>2, <2>4, <3>1 DEF HealthyLink
  <2>5. CASE p = Back(q)
    <3>1. Back(p) = q /\ status'[p] = status[p] /\ dial'[p] = dial[p]
      BY <2>3, <2>5
    <3> QED BY <1>1, <1>3, <2>1, <2>2, <3>1 DEF HealthyLink
  <2>6. CASE p # q /\ p # Back(q)
    <3>1. Back(p) # q
      BY <2>6
    <3> QED BY <1>1, <1>3, <2>1, <2>3, <2>6, <3>1 DEF HealthyLink
  <2> QED BY <2>4, <2>5, <2>6
<1> QED BY <1>4, <1>5, <1>6, <1>7, <1>8, <1>9, <1>10

\* A disturbance of one session is none of another.
LEMMA HealthyDisturbance ==
  ASSUME TypeOK, CalmInv, HealthyInv, NEW q \in Link,
         \/ \E n \in Node : Restart(n)
         \/ LocalPeerDelete(q) \/ Break(q) \/ FallSilent(q) \/ Restore(q)
  PROVE  HealthyInv'
<1> SUFFICES ASSUME NEW p \in Link, p \notin disturbed' PROVE HealthyLink(p)'
  BY DEF HealthyInv
<1> USE LinkFacts, TimeFacts DEF TypeOK, Off
<1>1. disturbed \subseteq disturbed'
  BY DEF Restart, LocalPeerDelete, Break, FallSilent, Restore, Disturb
<1>2. HealthyLink(p)
  BY <1>1 DEF HealthyInv
<1>3. ASSUME NEW n \in Node, Restart(n) PROVE HealthyLink(p)'
  <2>1. p[1] # n /\ p[2] # n
    <3> DEFINE own == {r \in Link : r[1] = n}
    <3>1. disturbed' = disturbed \cup own \cup {Back(r) : r \in own}
      BY <1>3 DEF Restart, Disturb
    <3>2. p \notin own /\ p \notin {Back(r) : r \in own}
      BY <3>1
    <3>3. Back(p) \in Link /\ Back(Back(p)) = p /\ Back(p)[1] = p[2]
      BY DEF Back
    <3>4. Back(p) \notin own
      BY <3>2, <3>3
    <3> QED BY <3>2, <3>3, <3>4
  <2>2. /\ UNCHANGED <<status, line>> /\ stub'[p] = stub[p] /\ dial'[p] = dial[p]
        /\ timer'[p] = timer[p] /\ call'[p] = call[p] /\ since'[p[1]] = since[p[1]]
    BY <1>3, <2>1 DEF Restart
  <2>3. heard'[Back(p)] = heard[Back(p)]
    BY <1>3, <2>1 DEF Restart
  <2> QED BY <1>2, <2>2, <2>3 DEF HealthyLink
<1>4. CASE LocalPeerDelete(q)
  <2>1. p # q /\ p # Back(q) /\ Back(p) # q /\ Back(p) # Back(q)
    BY <1>4 DEF LocalPeerDelete, Disturb
  <2>2. /\ UNCHANGED <<line, call, since, dial, timer>> /\ stub'[p] = stub[p]
        /\ status'[p] = status[p] /\ status'[Back(p)] = status[Back(p)]
        /\ heard'[Back(p)] = heard[Back(p)]
    BY <1>4, <2>1 DEF LocalPeerDelete, Keep, tickVars, dialVars
  <2> QED BY <1>2, <2>2 DEF HealthyLink
<1>5. CASE Break(q)
  <2>1. p # q /\ p # Back(q)
    BY <1>5 DEF Break, Disturb
  <2>2. /\ UNCHANGED <<status, heard, call, since, dial, timer>>
        /\ stub'[p] = stub[p] /\ line'[p] = line[p]
    BY <1>5, <2>1 DEF Break, Line, recordVars, tickVars, dialVars
  <2> QED BY <1>2, <2>2 DEF HealthyLink
<1>6. CASE FallSilent(q)
  BY <1>6 DEF FallSilent, Disturb
<1>7. CASE Restore(q)
  <2>1. UNCHANGED <<status, heard, call, since, dial, timer, stub>> /\ line'[p] = "up"
    BY <1>2, <1>7 DEF Restore, Line, recordVars, tickVars, dialVars, HealthyLink
  <2> QED BY <1>2, <2>1 DEF HealthyLink
<1> QED BY <1>3, <1>4, <1>5, <1>6, <1>7

LEMMA InitInv == Init => SessionInv
BY InitType, LinkFacts, TimeFacts
DEF Init, SessionInv, HeardInv, SentInv, CalmInv, HealthyInv, HealthyLink, Off

LEMMA InvStep ==
  ASSUME Timely, SessionInv, [Next]_vars
  PROVE  SessionInv'
<1>1. TypeOK' /\ HeardInv' /\ SentInv' /\ CalmInv'
  BY TypeStep, HeardStep, SentStep, CalmStep DEF SessionInv
<1>2. HealthyInv'
  <2>1. CASE UNCHANGED vars
    BY <2>1 DEF SessionInv, HealthyInv, HealthyLink, vars, recordVars, tickVars, dialVars, netVars
  <2>2. ASSUME NEW n \in Node, Restart(n) PROVE HealthyInv'
    <3>1. CASE Link = {}
      BY <3>1 DEF HealthyInv
    <3>2. CASE Link # {}
      BY <2>2, <3>2, HealthyDisturbance DEF SessionInv
    <3> QED BY <3>1, <3>2
  <2> QED BY <2>1, <2>2, HealthyTick, HealthyAdvance, HealthyCall, HealthyDisturbance
          DEF Next, Automatic, SessionInv
<1> QED BY <1>1, <1>2 DEF SessionInv

\* As long as a third of the hold time, the interval between ticks and their
\* delay add up to no more than the hold time, a session nothing has happened to
\* never expires, among any number of nodes and whatever happens to the others.
THEOREM HealthyNeverExpires ==
  ASSUME Timely
  PROVE  Spec => []HealthyStaysUp
<1>1. SessionInv /\ [Next]_vars => SessionInv'
  BY InvStep
<1>2. SessionInv => HealthyStaysUp
  BY DEF SessionInv, HealthyInv, HealthyLink, HealthyStaysUp
<1> QED BY InitInv, <1>1, <1>2, PTL DEF Spec
===============================================================================
