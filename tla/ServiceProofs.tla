---------------------------- MODULE ServiceProofs ----------------------------
(***************************************************************************)
(* Proofs about the services, for any services, clients and tasks.         *)
(*                                                                         *)
(* Lifecycle, the process that serves them: onShutdown is called at most   *)
(* once, the process ends as CleanEnd says, and no third signal finds the  *)
(* handlers in place.                                                      *)
(*                                                                         *)
(* Adapters, the services registered with an orchestrator: the health in   *)
(* the table agrees with the checker's, and the gateway serves the table's *)
(* GraphQL services, whenever the queue has drained.                       *)
(***************************************************************************)
EXTENDS Lifecycle, Adapters, SequenceTheorems, FiniteSetTheorems, TLAPS

-----------------------------------------------------------------------------
(* Lifecycle. *)

Up == \A s \in Service : state[s] \notin {"created", "initializing"}

\* A server that is there serves: every service is ready, no stop has begun.
ServerInv ==
  /\ server # "none" => Ready = Service /\ \A k \in Stop : phase[k] = "idle"
  /\ (server = "bound") => handlers

\* The handlers stand until the services are told to shut down.
HandlersInv ==
  /\ handlers => server = "bound" \/ Stopping
  /\ handlers => Up /\ \A k \in Stop : phase[k] # "shutting"
  /\ Stopping => Up /\ (handlers \/ Ready = {})
  /\ \A k \in Stop : phase[k] = "shutting" => Ready = {}

\* What one stop finds when no other one is under way.
AloneInv ==
  ~Hurried => \A k \in Stop :
    /\ phase[k] = "closing" => Ready = Service
    /\ phase[k] = "shutting" => awaits[k] = Service /\ \A c \in Client : conn[c] = "none"

CleanedInv ==
  \A s \in Service : state[s] \in {"created", "initializing", "ready"} => cleaned[s] = 0

\* Two stops never leave the handlers to a third signal.
NoThirdStop == Hurried => ~handlers

LifecycleInv ==
  TypeOK /\ ServerInv /\ HandlersInv /\ AloneInv /\ CleanedInv /\ NoThirdStop /\ CleanEnd

-----------------------------------------------------------------------------
LEMMA InitInv == Init => LifecycleInv
BY DEF Init, LifecycleInv, TypeOK, ServerInv, HandlersInv, AloneInv, CleanedInv,
       NoThirdStop, CleanEnd, Hurried, Stopping, Stopped, Ready, Up, Stop

\* Before a server is there, nothing is stopping and no handler is registered.
LEMMA BeforeUp ==
  ASSUME LifecycleInv, NEW s \in Service, state[s] \in {"created", "initializing"}
  PROVE  server = "none" /\ ~handlers /\ ~Stopping
BY DEF LifecycleInv, ServerInv, HandlersInv, Ready, Up

\* The other one of two stops.
LEMMA TwoStops ==
  ASSUME NEW k \in Stop
  PROVE  \E j \in Stop : j # k /\ Stop = {j, k}
<1>1. CASE k = 1  BY <1>1 DEF Stop
<1>2. CASE k = 2  BY <1>2 DEF Stop
<1> QED BY <1>1, <1>2 DEF Stop

\* A stop that tells the services to shut down leaves none ready, and a service
\* it tells has not been told before.
LEMMA StopServicesKeeps ==
  ASSUME LifecycleInv, NEW k \in Stop, Running, StopServices(k),
         Up, Stopping,
         UNCHANGED <<process, server, conn>>, server = "none",
         phase[k] = "closing" => \A c \in Client : conn[c] = "none",
         \E j \in Stop : phase[j] = "closing",
         phase[k] # "closing" => \E j \in Stop : j # k /\ phase[j] # "idle"
  PROVE  LifecycleInv'
<1> DEFINE was == TypeOK /\ CleanedInv /\ AloneInv
<1>1. was  BY DEF LifecycleInv
<1>2. Ready' = {} /\ Up' /\ \A s \in Service : s \in Ready => state'[s] = "shutting_down"
  BY <1>1 DEF StopServices, Stoppable, Ready, TypeOK, Up
<1>3. TypeOK'
  <2>1. \A s \in Service : state'[s] \in {"created", "initializing", "ready", "shutting_down", "stopped"}
    BY <1>1 DEF StopServices, TypeOK
  <2>2. \A s \in Service : cleaned'[s] \in {0, 1}
    BY <1>1 DEF StopServices, Stoppable, Ready, TypeOK, CleanedInv
  <2>3. phase' \in [Stop -> {"idle", "closing", "shutting"}] /\ awaits' \in [Stop -> SUBSET Service]
    BY <1>1 DEF StopServices, Stoppable, Ready, TypeOK
  <2> QED BY <1>1, <2>1, <2>2, <2>3 DEF StopServices, TypeOK
<1>4. CleanedInv'
  BY <1>1, <1>2 DEF StopServices, Stoppable, Ready, TypeOK, CleanedInv, Up
<1>5. phase'[k] = "shutting" /\ ~handlers' /\ Stopping'
  BY <1>1 DEF StopServices, TypeOK, Stopping
<1>6. ServerInv' /\ HandlersInv' /\ NoThirdStop'
  BY <1>2, <1>5 DEF ServerInv, HandlersInv, NoThirdStop
<1>7. AloneInv'
  <2> SUFFICES ASSUME ~Hurried', NEW j \in Stop, phase'[j] # "idle"
      PROVE  /\ j = k /\ awaits'[j] = Service
             /\ \A c \in Client : conn'[c] = "none"
    BY <1>5 DEF AloneInv
  <2>1. \A i \in Stop : i # k => phase'[i] = phase[i]
    BY <1>1 DEF StopServices, TypeOK
  <2>2. \A i \in Stop : i # k => phase'[i] = "idle"
    BY <1>5, TwoStops DEF Hurried
  <2>3. phase[k] = "closing"  BY <2>1, <2>2
  <2>4. ~Hurried  BY <2>1, <2>2, TwoStops DEF Hurried
  <2>5. Ready = Service  BY <1>1, <2>3, <2>4 DEF AloneInv
  <2>6. awaits'[k] = Service  BY <1>1, <2>5 DEF StopServices, TypeOK, Stoppable
  <2> QED BY <2>2, <2>3, <2>6
<1>8. CleanEnd'
  BY <1>7 DEF CleanEnd, AloneInv, Running
<1> QED BY <1>3, <1>4, <1>6, <1>7, <1>8 DEF LifecycleInv

LEMMA StepInv == LifecycleInv /\ [Next]_vars => LifecycleInv'
<1> SUFFICES ASSUME LifecycleInv, [Next]_vars PROVE LifecycleInv'
  OBVIOUS
<1> USE DEF LifecycleInv
<1>1. ASSUME NEW s \in Service, initialize(s) PROVE LifecycleInv'
  <2>1. server = "none" /\ ~handlers /\ ~Stopping
    BY <1>1, BeforeUp DEF initialize
  <2> QED BY <1>1, <2>1 DEF initialize, TypeOK, ServerInv, HandlersInv, AloneInv, CleanedInv,
            NoThirdStop, CleanEnd, Hurried, Stopping, Stopped, Ready, Up, Running
<1>2. ASSUME NEW s \in Service, Initialized(s) PROVE LifecycleInv'
  <2>1. server = "none" /\ ~handlers /\ ~Stopping
    BY <1>2, BeforeUp DEF Initialized
  <2> QED BY <1>2, <2>1 DEF Initialized, TypeOK, ServerInv, HandlersInv, AloneInv, CleanedInv,
            NoThirdStop, CleanEnd, Hurried, Stopping, Stopped, Ready, Up, Running
<1>3. ASSUME NEW s \in Service, InitializeFails(s) PROVE LifecycleInv'
  <2>1. server = "none" /\ ~handlers /\ ~Stopping
    BY <1>3, BeforeUp DEF InitializeFails
  <2> QED BY <1>3, <2>1 DEF InitializeFails, TypeOK, ServerInv, HandlersInv, AloneInv, CleanedInv,
            NoThirdStop, CleanEnd, Hurried, Stopping, Stopped, Ready, Up, Running
<1>4. CASE start
  BY <1>4 DEF start, TypeOK, ServerInv, HandlersInv, AloneInv, CleanedInv,
            NoThirdStop, CleanEnd, Hurried, Stopping, Stopped, Ready, Up, Running
<1>5. CASE PortInUse
  BY <1>5 DEF PortInUse, TypeOK, ServerInv, HandlersInv, AloneInv, CleanedInv,
            NoThirdStop, CleanEnd, Hurried, Stopping, Stopped, Ready, Up, Running
<1>6. CASE Listening
  <2>1. Ready = Service /\ \A k \in Stop : phase[k] = "idle"
    BY <1>6 DEF Listening, ServerInv
  <2> QED BY <1>6, <2>1 DEF Listening, TypeOK, ServerInv, HandlersInv, AloneInv, CleanedInv,
            NoThirdStop, CleanEnd, Hurried, Stopping, Stopped, Ready, Up, Running, Stop
<1>7. ASSUME NEW c \in Client, Accept(c) \/ Upgrade(c) \/ HangUp(c) PROVE LifecycleInv'
  <2>1. TypeOK'  BY <1>7 DEF Accept, Upgrade, HangUp, TypeOK
  <2>2. UNCHANGED <<process, state, server, handlers, phase, awaits, cleaned>> /\ Running
    BY <1>7 DEF Accept, Upgrade, HangUp
  <2>3. AloneInv'
    <3> SUFFICES ASSUME ~Hurried, NEW k \in Stop, phase[k] = "shutting"
        PROVE  \A d \in Client : conn'[d] = "none"
      BY <2>2 DEF AloneInv, Hurried, Ready
    <3>1. server = "none"  BY DEF ServerInv
    <3>2. \A d \in Client : conn[d] = "none"  BY DEF AloneInv
    <3> QED BY <1>7, <3>1, <3>2 DEF Accept, Upgrade, HangUp
  <2> QED BY <2>1, <2>2, <2>3 DEF ServerInv, HandlersInv, CleanedInv, AloneInv,
            NoThirdStop, CleanEnd, Hurried, Stopping, Stopped, Ready, Up, Running
<1>8. ASSUME NEW k \in Stop, stop(k) PROVE LifecycleInv'
  <2>1. Ready = Service /\ \A j \in Stop : phase[j] = "idle"
    BY <1>8 DEF stop, ServerInv
  <2>2. TypeOK'  BY <1>8 DEF stop, closeAllConnections, TypeOK
  <2>3. /\ phase'[k] = "closing" /\ \A j \in Stop : j # k => phase'[j] = "idle"
        /\ UNCHANGED <<process, state, handlers, awaits, cleaned>> /\ handlers /\ Running
        /\ server' = "none"
    BY <1>8, <2>1 DEF stop, TypeOK
  <2>4. Stopping' /\ Ready' = Service /\ ~Hurried'
    BY <2>1, <2>3, TwoStops DEF Stopping, Ready, Hurried
  <2>5. ServerInv' /\ HandlersInv' /\ CleanedInv' /\ NoThirdStop' /\ AloneInv'
    BY <2>1, <2>3, <2>4 DEF ServerInv, HandlersInv, AloneInv, CleanedInv, NoThirdStop, Up
  <2>6. CleanEnd'  BY <2>3, <2>5 DEF CleanEnd, Running, AloneInv
  <2> QED BY <2>2, <2>5, <2>6
<1>9. ASSUME NEW k \in Stop, stopAgain(k) PROVE LifecycleInv'
  <2>1. handlers /\ server # "bound" /\ phase[k] = "idle" /\ Running
    BY <1>9 DEF stopAgain
  <2>2. Stopping /\ Up /\ \A j \in Stop : phase[j] # "shutting"
    BY <2>1 DEF HandlersInv
  <2>3. \E j \in Stop : j # k /\ phase[j] = "closing"
    BY <2>1, <2>2 DEF Stopping, TypeOK
  <2>4. server = "none"  BY <2>3 DEF ServerInv
  <2> QED BY <1>9, <2>1, <2>2, <2>3, <2>4, StopServicesKeeps DEF stopAgain
<1>10. ASSUME NEW k \in Stop, Closed(k) PROVE LifecycleInv'
  <2>1. Stopping /\ Running /\ phase[k] = "closing" /\ \A c \in Client : conn[c] = "none"
    BY <1>10 DEF Closed, Stopping
  <2>2. Up /\ server = "none"  BY <2>1 DEF HandlersInv, ServerInv
  <2> QED BY <1>10, <2>1, <2>2, StopServicesKeeps DEF Closed
<1>11. ASSUME NEW s \in Service, shutdown(s) PROVE LifecycleInv'
  <2>1. Ready # Service  BY <1>11 DEF shutdown, Ready
  <2>2. UNCHANGED <<process, server, handlers, conn, phase, awaits, cleaned>> /\ Running
    BY <1>11 DEF shutdown
  <2>3. Ready' = Ready /\ (Up => Up')
    BY <1>11 DEF shutdown, Ready, Up, TypeOK
  <2>4. TypeOK' /\ CleanedInv'  BY <1>11 DEF shutdown, TypeOK, CleanedInv
  <2>5. AloneInv'  BY <2>1, <2>2 DEF AloneInv, Hurried
  <2> QED BY <2>1, <2>2, <2>3, <2>4, <2>5 DEF ServerInv, HandlersInv, AloneInv,
            NoThirdStop, CleanEnd, Hurried, Stopping, Running
<1>12. ASSUME NEW k \in Stop, Exit(k) PROVE LifecycleInv'
  <2>1. Ready = {} /\ (~Hurried => Stopped = Service)
    BY <1>12 DEF Exit, HandlersInv, AloneInv, Stopped
  <2> QED BY <1>12, <2>1 DEF Exit, TypeOK, ServerInv, HandlersInv, AloneInv, CleanedInv,
            NoThirdStop, CleanEnd, Hurried, Stopping, Stopped, Ready, Up, Running
<1>13. CASE Kill
  <2>1. Stopping \/ server = "bound" => Ready = {}
    BY <1>13 DEF Kill, ServerInv, HandlersInv
  <2> QED BY <1>13, <2>1 DEF Kill, TypeOK, ServerInv, HandlersInv, AloneInv, CleanedInv,
            NoThirdStop, CleanEnd, Hurried, Stopping, Stopped, Ready, Up, Running
<1>14. CASE UNCHANGED vars
  BY <1>14 DEF vars, TypeOK, ServerInv, HandlersInv, AloneInv, CleanedInv,
            NoThirdStop, CleanEnd, Hurried, Stopping, Stopped, Ready, Up
<1> QED BY <1>1, <1>2, <1>3, <1>4, <1>5, <1>6, <1>7, <1>8, <1>9, <1>10, <1>11, <1>12,
           <1>13, <1>14 DEF Next

LEMMA Invariance == Spec => []LifecycleInv
BY InitInv, StepInv, PTL DEF Spec

-----------------------------------------------------------------------------
\* The parts of the state have their types, and onShutdown is called at most
\* once per service, whatever signals come (shutdown's check of _state).
THEOREM ShutdownOnce == Spec => []TypeOK
<1>1. LifecycleInv => TypeOK  BY DEF LifecycleInv
<1> QED BY <1>1, Invariance, PTL

\* The process ends in order: the clients first, then the services, then the
\* process itself, but for a second signal (catalyst-hono-server.ts stop).
THEOREM EndsInOrder == Spec => []CleanEnd
<1>1. LifecycleInv => CleanEnd  BY DEF LifecycleInv
<1> QED BY <1>1, Invariance, PTL

\* Two stops at most: after a second signal the handlers are gone, and a third
\* one ends the process at once (catalyst-hono-server.ts stop).
THEOREM ThirdSignalKills == Spec => []NoThirdStop
<1>1. LifecycleInv => NoThirdStop  BY DEF LifecycleInv
<1> QED BY <1>1, Invariance, PTL

-----------------------------------------------------------------------------
(* Adapters: the inductive invariant. *)

Tasks ==
  [type : {"LocalRouteCreate"}, name : Name, endpoint : Endpoint \cup {Missing}]
    \cup [type : {"LocalRouteDelete"}, name : Name]
    \cup [type : {"LocalRouteHealthUpdate"}, name : Name, status : Status]
    \cup Updates

Routes == [endpoint : Endpoint \cup {Missing}, health : Status \cup {Unknown, "none"}]

Reload ==
  [config : [number : Nat \ {NoCall}, services : SUBSET Subgraph], waiting : SUBSET Subgraph]

AdaptersTypes ==
  /\ table \in [Name -> Routes] /\ IsFiniteSet(Registered) /\ learned \subseteq Subgraph
  /\ queue \in Seq(Tasks) /\ call \in Nat /\ commits \in Nat
  /\ call # NoCall => queue # <<>>
  /\ reloads \subseteq Reload
  /\ health \in [Name -> Status \cup {Unknown}]
  /\ probe \in [Name -> Status \cup {Unknown, "idle"}]

\* The tasks that have not yet changed the table.
Pending == IF call = NoCall THEN queue ELSE Tail(queue)

Reports(task, n) == task.type = "LocalRouteHealthUpdate" /\ task.name = n

\* Tasks tasks lead table t to the health h of n: the last one that reports on
\* n reports it, or none does and the table has it.
LeadsTo(t, tasks, n, h) ==
  /\ \A i \in 1..Len(tasks) :
       Reports(tasks[i], n) /\ (\A j \in 1..Len(tasks) : j > i => ~Reports(tasks[j], n))
       => tasks[i].status = h
  /\ (\A i \in 1..Len(tasks) : ~Reports(tasks[i], n)) =>
       t[n] = NoRoute \/ t[n].health \in {h, Unknown}

HealthInv ==
  /\ \A n \in Name : probe[n] # "idle" => probe[n] = health[n]
  /\ \A n \in Name : health[n] # Unknown => LeadsTo(table, Pending, n, health[n])

\* While the queue awaits an answer the gateway works on the table of the bus
\* and on nothing else; otherwise it works on nothing, and serves that table
\* unless it failed to.
GatewayInv ==
  ~restarted /\ stub # "broken" =>
    /\ call = NoCall => reloads = {}
    /\ call # NoCall => \E waiting \in SUBSET GraphqlRoutes(table, learned) :
         reloads = {[config |-> [number |-> call, services |-> GraphqlRoutes(table, learned)],
                     waiting |-> waiting]}
    /\ call = NoCall /\ told # "failure" /\ GraphqlRoutes(table, learned) # {} =>
         serving = GraphqlRoutes(table, learned)

AdaptersInv == AdaptersTypes /\ HealthInv /\ GatewayInv

-----------------------------------------------------------------------------
(* Adapters: what appending and running tasks does to where they lead. *)

LEMMA SeqsOfFinite ==
  ASSUME NEW S, IsFiniteSet(S), NEW s \in SetToSeqs(S)
  PROVE  s \in Seq(S) /\ {s[i] : i \in 1..Len(s)} = S
<1> DEFINE n == Cardinality(S)
           D == 1..n
<1>1. n \in Nat
  BY FS_CardinalityType
<1>2. s \in [D -> S] /\ \A i, j \in D : i # j => s[i] # s[j]
  BY DEF SetToSeqs
<1>3. IsFiniteSet(D) /\ Cardinality(D) = n
  BY <1>1, FS_Interval
<1>4. s \in Injection(D, S)
  BY <1>2 DEF Injection, IsInjective
<1>5. s \in Surjection(D, S)
  BY <1>3, <1>4, FS_Injection
<1>6. s \in Seq(S) /\ Len(s) = n
  BY <1>1, <1>2
<1>7. {s[i] : i \in 1..Len(s)} = S
  BY <1>2, <1>5, <1>6 DEF Surjection
<1> QED
  BY <1>6, <1>7

\* Tasks that do not report on n lead to the same health of n.
LEMMA AppendOthers ==
  ASSUME NEW t, NEW n, NEW h, NEW s \in Seq(Tasks), NEW a \in Seq(Tasks),
         LeadsTo(t, s, n, h), \A i \in 1..Len(a) : ~Reports(a[i], n)
  PROVE  LeadsTo(t, s \o a, n, h)
<1> DEFINE b == s \o a
           m == Len(s)
           k == Len(b)
<1>1. /\ m \in Nat /\ k \in Nat /\ Len(a) \in Nat /\ k = m + Len(a)
      /\ \A i \in 1..m : b[i] = s[i] /\ i \in 1..k
      /\ \A i \in 1..k : i \notin 1..m => b[i] = a[i - m] /\ i - m \in 1..Len(a)
  OBVIOUS
<1> HIDE DEF b, m, k
<1>2. \A i \in 1..k : Reports(b[i], n) => i \in 1..m /\ b[i] = s[i]
  BY <1>1
<1>3. \A i \in 1..m : Reports(s[i], n) => Reports(b[i], n)
  BY <1>1
<1>4. ASSUME NEW i \in 1..k, Reports(b[i], n), \A j \in 1..k : j > i => ~Reports(b[j], n)
      PROVE  b[i].status = h
  <2>1. i \in 1..m /\ b[i] = s[i]
    BY <1>2, <1>4
  <2>2. \A j \in 1..m : j > i => ~Reports(s[j], n)
    BY <1>1, <1>4
  <2> QED BY <1>4, <2>1, <2>2 DEF LeadsTo, m
<1>5. (\A i \in 1..k : ~Reports(b[i], n)) => \A i \in 1..m : ~Reports(s[i], n)
  BY <1>1
<1> QED
  BY <1>4, <1>5 DEF LeadsTo, b, m, k

\* Tasks that report h and nothing else on n lead to h.
LEMMA AppendReport ==
  ASSUME NEW t, NEW n, NEW h, NEW s \in Seq(Tasks), NEW a \in Seq(Tasks),
         \E i \in 1..Len(a) : Reports(a[i], n),
         \A i \in 1..Len(a) : Reports(a[i], n) => a[i].status = h
  PROVE  LeadsTo(t, s \o a, n, h)
<1> DEFINE b == s \o a
           m == Len(s)
           k == Len(b)
<1>1. /\ m \in Nat /\ k \in Nat /\ Len(a) \in Nat /\ k = m + Len(a)
      /\ \A i \in 1..k : i \notin 1..m => b[i] = a[i - m] /\ i - m \in 1..Len(a)
      /\ \A i \in 1..Len(a) : b[i + m] = a[i] /\ i + m \in 1..k
  OBVIOUS
<1> HIDE DEF b, m, k
<1>2. PICK l \in 1..Len(a) : Reports(a[l], n)
  OBVIOUS
<1>3. l + m \in 1..k /\ Reports(b[l + m], n)
  BY <1>1, <1>2
<1>4. ASSUME NEW i \in 1..k, Reports(b[i], n), \A j \in 1..k : j > i => ~Reports(b[j], n)
      PROVE  b[i].status = h
  <2>1. i >= l + m
    BY <1>1, <1>3, <1>4
  <2>2. i \notin 1..m
    BY <1>1, <2>1
  <2> QED BY <1>1, <1>4, <2>2
<1> QED
  BY <1>3, <1>4 DEF LeadsTo, b, k

\* The table after a task has run.
After(t, task) == IF Local(task) /\ Changes(t, task) THEN Planned(t, task) ELSE t

LEMMA AfterTask ==
  ASSUME NEW t \in [Name -> Routes], NEW task \in Tasks
  PROVE  /\ Local(task) => task.name \in Name
         /\ After(t, task) \in [Name -> Routes]
         /\ \A n \in Name : Local(task) /\ n # task.name => After(t, task)[n] = t[n]
         /\ ~Local(task) => After(t, task) = t
         /\ task.type = "LocalRouteHealthUpdate" =>
              After(t, task)[task.name] =
                IF t[task.name] = NoRoute THEN NoRoute
                ELSE [t[task.name] EXCEPT !.health = task.status]
         /\ Local(task) /\ task.type # "LocalRouteHealthUpdate" =>
              After(t, task)[task.name] \in {t[task.name], NoRoute}
                \/ After(t, task)[task.name].health = Unknown
<1>1. NoRoute \in Routes
  BY DEF NoRoute, Routes
<1>2. \A r \in Routes : \A st \in Status : [r EXCEPT !.health = st] \in Routes
  BY DEF Routes
<1>3. CASE task.type = "LocalRouteCreate"
  <2>1. task.name \in Name /\ [endpoint |-> task.endpoint, health |-> Unknown] \in Routes
    BY <1>3 DEF Tasks, Updates, Routes
  <2>2. /\ Planned(t, task) =
             [t EXCEPT ![task.name] = [endpoint |-> task.endpoint, health |-> Unknown]]
        /\ Changes(t, task) <=> t[task.name] = NoRoute
    BY <1>3 DEF Planned, Changes
  <2> QED BY <1>3, <2>1, <2>2 DEF After, Local
<1>4. CASE task.type = "LocalRouteDelete"
  <2>1. task.name \in Name
    BY <1>4 DEF Tasks, Updates
  <2>2. /\ Planned(t, task) = [t EXCEPT ![task.name] = NoRoute]
        /\ Changes(t, task) <=> t[task.name] # NoRoute
    BY <1>4 DEF Planned, Changes
  <2> QED BY <1>1, <1>4, <2>1, <2>2 DEF After, Local
<1>5. CASE task.type = "LocalRouteHealthUpdate"
  <2>1. task.name \in Name /\ task.status \in Status
    BY <1>5 DEF Tasks, Updates
  <2>2. /\ Planned(t, task) = [t EXCEPT ![task.name] = [@ EXCEPT !.health = task.status]]
        /\ Changes(t, task) <=> t[task.name] # NoRoute
    BY <1>5 DEF Planned, Changes
  <2> QED BY <1>2, <1>5, <2>1, <2>2 DEF After, Local
<1>6. CASE task \in Updates
  <2>1. task.type = "InternalProtocolUpdate"
    BY <1>6 DEF Updates
  <2> QED BY <2>1 DEF After, Local
<1> QED
  BY <1>3, <1>4, <1>5, <1>6 DEF Tasks

\* Running the first task leads where the tasks led.
LEMMA RunFirst ==
  ASSUME NEW t \in [Name -> Routes], NEW s \in Seq(Tasks), s # <<>>, NEW n \in Name,
         NEW h \in Status, LeadsTo(t, s, n, h)
  PROVE  LeadsTo(After(t, Head(s)), Tail(s), n, h)
<1> DEFINE u == After(t, Head(s))
           b == Tail(s)
           k == Len(s)
           task == s[1]
<1>1. /\ k \in Nat \ {0} /\ Len(b) = k - 1 /\ Head(s) = task /\ task \in Tasks
      /\ \A i \in 1..(k - 1) : b[i] = s[i + 1] /\ i + 1 \in 1..k
      /\ \A i \in 1..k : i # 1 => i - 1 \in 1..(k - 1) /\ b[i - 1] = s[i]
  OBVIOUS
<1>2. /\ \A i \in 1..k : Reports(s[i], n) /\ (\A j \in 1..k : j > i => ~Reports(s[j], n))
           => s[i].status = h
      /\ (\A i \in 1..k : ~Reports(s[i], n)) => t[n] = NoRoute \/ t[n].health \in {h, Unknown}
  BY DEF LeadsTo
<1>3. ASSUME NEW i \in 1..(k - 1), Reports(b[i], n),
             \A j \in 1..(k - 1) : j > i => ~Reports(b[j], n)
      PROVE  b[i].status = h
  <2>1. i + 1 \in 1..k /\ b[i] = s[i + 1] /\ i \in Nat
    BY <1>1
  <2>2. \A j \in 1..k : j > i + 1 => ~Reports(s[j], n)
    <3> SUFFICES ASSUME NEW j \in 1..k, j > i + 1 PROVE ~Reports(s[j], n)
      OBVIOUS
    <3>1. j # 1 /\ j - 1 > i
      BY <2>1
    <3> HIDE DEF b, k
    <3> QED BY <1>1, <1>3, <3>1
  <2> HIDE DEF b, k
  <2> QED BY <1>2, <1>3, <2>1, <2>2
<1>4. ASSUME \A i \in 1..(k - 1) : ~Reports(b[i], n)
      PROVE  u[n] = NoRoute \/ u[n].health \in {h, Unknown}
  <2>1. \A j \in 1..k : j # 1 => ~Reports(s[j], n)
    <3> HIDE DEF b, k
    <3> QED BY <1>1, <1>4
  <2>2. CASE Reports(task, n)
    <3>1. task.status = h
      <4>1. 1 \in 1..k /\ \A j \in 1..k : j > 1 => j # 1
        BY <1>1
      <4> HIDE DEF k
      <4> QED BY <1>2, <2>1, <2>2, <4>1
    <3>2. u[n] = IF t[n] = NoRoute THEN NoRoute ELSE [t[n] EXCEPT !.health = h]
      BY <1>1, <2>2, <3>1, AfterTask DEF Reports, Local
    <3>3. t[n] = [endpoint |-> t[n].endpoint, health |-> t[n].health]
      BY DEF Routes
    <3> QED BY <3>2, <3>3
  <2>3. CASE ~Reports(task, n)
    <3>1. t[n] = NoRoute \/ t[n].health \in {h, Unknown}
      <4> HIDE DEF k, b
      <4> QED BY <1>2, <2>1, <2>3
    <3>2. u[n] = t[n] \/ u[n] = NoRoute \/ u[n].health = Unknown
      <4>1. u = After(t, task) /\ task \in Tasks
        BY <1>1
      <4>2. task.type # "LocalRouteHealthUpdate" \/ n # task.name
        BY <2>3 DEF Reports
      <4> HIDE DEF u, task
      <4>3. CASE Local(task) /\ n # task.name
        BY <4>1, <4>3, AfterTask
      <4>4. CASE Local(task) /\ n = task.name
        BY <4>1, <4>2, <4>4, AfterTask
      <4>5. CASE ~Local(task)
        BY <4>1, <4>5, AfterTask
      <4> QED BY <4>3, <4>4, <4>5
    <3> QED BY <3>1, <3>2
  <2> QED BY <2>2, <2>3
<1> QED
  <2>1. Len(b) = k - 1
    BY <1>1
  <2> HIDE DEF u, k
  <2> QED BY <1>3, <1>4, <2>1 DEF LeadsTo, u

-----------------------------------------------------------------------------
(* Adapters: the steps of the queue and of the checker. *)

LEMMA AdaptersStart == AdaptersInit => AdaptersInv
<1> SUFFICES ASSUME AdaptersInit PROVE AdaptersInv
  OBVIOUS
<1>1. Registered = {}
  BY DEF AdaptersInit, Registered
<1>2. AdaptersTypes
  BY <1>1, FS_EmptySet
     DEF AdaptersInit, GatewayInit, AdaptersTypes, NoRoute, Routes, NoHealth, NoProbe, NoCall
<1>3. HealthInv
  BY DEF AdaptersInit, HealthInv, NoHealth, NoProbe
<1>4. GatewayInv
  <2>1. GraphqlRoutes(table, learned) = {}
    BY AdaptersAssumption DEF AdaptersInit, GraphqlRoutes
  <2> QED BY <2>1 DEF AdaptersInit, GatewayInit, GatewayInv
<1> QED
  BY <1>2, <1>3, <1>4 DEF AdaptersInv

LEMMA PendingTasks ==
  ASSUME AdaptersTypes
  PROVE  Pending \in Seq(Tasks)
BY DEF AdaptersTypes, Pending

\* What is appended to the queue is appended to what is pending.
LEMMA PendingGrows ==
  ASSUME AdaptersTypes, NEW a \in Seq(Tasks), queue' = queue \o a, call' = call
  PROVE  /\ Pending' = Pending \o a /\ queue' \in Seq(Tasks)
         /\ call' # NoCall => queue' # <<>>
<1>1. CASE call = NoCall
  BY <1>1 DEF AdaptersTypes, Pending
<1>2. CASE call # NoCall
  <2>1. queue \in Seq(Tasks) /\ queue # <<>>
    BY <1>2 DEF AdaptersTypes
  <2>2. Tail(queue \o a) = Tail(queue) \o a /\ queue \o a # <<>> /\ queue \o a \in Seq(Tasks)
    <3> DEFINE b == queue \o a
               c == Tail(queue) \o a
               m == Len(queue)
    <3>1. /\ b \in Seq(Tasks) /\ c \in Seq(Tasks) /\ Tail(b) \in Seq(Tasks)
          /\ m \in Nat \ {0} /\ Len(a) \in Nat
          /\ Len(b) = m + Len(a) /\ Len(c) = (m - 1) + Len(a) /\ b # <<>>
          /\ Len(Tail(b)) = (m + Len(a)) - 1
      BY <2>1
    <3>2. ASSUME NEW i \in 1..((m + Len(a)) - 1) PROVE Tail(b)[i] = c[i]
      <4>1. Tail(b)[i] = b[i + 1]
        BY <3>1
      <4>2. CASE i + 1 <= m
        BY <2>1, <3>1, <4>1, <4>2
      <4>3. CASE i + 1 > m
        BY <2>1, <3>1, <4>1, <4>3
      <4> QED BY <3>1, <4>2, <4>3
    <3> HIDE DEF b, c, m
    <3>3. Tail(b) = c
      BY <3>1, <3>2
    <3> QED BY <3>1, <3>3 DEF b, c
  <2> QED BY <1>2, <2>2 DEF Pending
<1> QED BY <1>1, <1>2

\* A task ends, or awaits an answer: it is not pending any more.
LEMMA PendingShrinks ==
  ASSUME AdaptersTypes, call = NoCall, queue # <<>>,
         \/ queue' = Tail(queue) /\ call' = NoCall
         \/ queue' = queue /\ call' # NoCall
  PROVE  /\ Pending = queue /\ Pending' = Tail(queue) /\ queue' \in Seq(Tasks)
         /\ call' # NoCall => queue' # <<>>
BY DEF AdaptersTypes, Pending

\* Nothing about health changes when the running task is answered.
LEMMA PendingStays ==
  ASSUME AdaptersTypes,
         \/ UNCHANGED <<queue, call>>
         \/ call # NoCall /\ queue' = Tail(queue) /\ call' = NoCall
  PROVE  /\ Pending' = Pending /\ queue' \in Seq(Tasks)
         /\ call' \in Nat /\ (call' # NoCall => queue' # <<>>)
<1>1. CASE UNCHANGED <<queue, call>>
  BY <1>1 DEF AdaptersTypes, Pending
<1>2. CASE call # NoCall /\ queue' = Tail(queue) /\ call' = NoCall
  <2>1. queue \in Seq(Tasks) /\ queue # <<>>
    BY <1>2 DEF AdaptersTypes
  <2>2. Tail(queue) \in Seq(Tasks)
    BY <2>1
  <2> QED BY <1>2, <2>2 DEF Pending, NoCall
<1> QED
  BY <1>1, <1>2

LEMMA RegisteredGrows ==
  ASSUME AdaptersTypes, NEW task \in Tasks, table' = After(table, task)
  PROVE  table' \in [Name -> Routes] /\ IsFiniteSet(Registered')
<1>1. /\ table' \in [Name -> Routes]
      /\ \A n \in Name : Local(task) /\ n # task.name => table'[n] = table[n]
      /\ ~Local(task) => table' = table
  BY AfterTask DEF AdaptersTypes
<1>2. Registered' \subseteq Registered \cup {task.name}
  BY <1>1 DEF Registered
<1>3. IsFiniteSet(Registered \cup {task.name})
  BY FS_AddElement DEF AdaptersTypes
<1> QED
  BY <1>1, <1>2, <1>3, FS_Subset

\* A task runs.
LEMMA RunKeepsHealth ==
  ASSUME AdaptersTypes, HealthInv, call = NoCall, queue # <<>>,
         \/ queue' = Tail(queue) /\ call' = NoCall
         \/ queue' = queue /\ call' # NoCall,
         table' = After(table, Head(queue)), UNCHANGED <<health, probe>>
  PROVE  HealthInv'
<1>1. Pending = queue /\ Pending' = Tail(queue)
  BY PendingShrinks
<1>2. table \in [Name -> Routes] /\ queue \in Seq(Tasks)
      /\ health \in [Name -> Status \cup {Unknown}]
  BY DEF AdaptersTypes
<1>3. ASSUME NEW n \in Name, health'[n] # Unknown
      PROVE  LeadsTo(table', Pending', n, health'[n])
  <2>1. health[n] \in Status /\ LeadsTo(table, queue, n, health[n])
    BY <1>1, <1>2, <1>3 DEF HealthInv
  <2>2. LeadsTo(After(table, Head(queue)), Tail(queue), n, health[n])
    BY <1>2, <2>1, RunFirst
  <2> QED BY <1>1, <2>2
<1> QED
  BY <1>3 DEF HealthInv

\* Tasks are dispatched: of a service whose health changes exactly one, of the
\* others none.
LEMMA DispatchKeepsHealth ==
  ASSUME AdaptersTypes, HealthInv, NEW acts, acts \subseteq Tasks, IsFiniteSet(acts),
         Enqueued(acts), call' = call, table' = table,
         health' \in [Name -> Status \cup {Unknown}],
         \A n \in Name : probe'[n] # "idle" => probe'[n] = health'[n],
         \A n \in Name : health'[n] # Unknown =>
           \/ health'[n] = health[n] /\ \A task \in acts : ~Reports(task, n)
           \/ /\ \E task \in acts : Reports(task, n)
              /\ \A task \in acts : Reports(task, n) => task.status = health'[n]
  PROVE  /\ HealthInv' /\ queue' \in Seq(Tasks)
         /\ call' # NoCall => queue' # <<>>
<1>1. PICK a \in SetToSeqs(acts) : queue' = queue \o a
  BY DEF Enqueued
<1>2. a \in Seq(acts) /\ {a[i] : i \in 1..Len(a)} = acts
  BY SeqsOfFinite
<1>3. a \in Seq(Tasks)
  BY <1>2
<1>4. /\ Pending' = Pending \o a /\ queue' \in Seq(Tasks)
      /\ call' # NoCall => queue' # <<>>
  BY <1>1, <1>3, PendingGrows
<1>5. Pending \in Seq(Tasks)
  BY PendingTasks
<1>6. ASSUME NEW n \in Name, health'[n] # Unknown
      PROVE  LeadsTo(table', Pending', n, health'[n])
  <2>1. CASE health'[n] = health[n] /\ \A task \in acts : ~Reports(task, n)
    <3>1. LeadsTo(table, Pending, n, health'[n])
      BY <1>6, <2>1 DEF HealthInv
    <3>2. \A i \in 1..Len(a) : ~Reports(a[i], n)
      BY <1>2, <2>1
    <3>3. LeadsTo(table, Pending \o a, n, health'[n])
      BY <1>3, <1>5, <3>1, <3>2, AppendOthers
    <3> QED BY <1>4, <3>3
  <2>2. CASE /\ \E task \in acts : Reports(task, n)
             /\ \A task \in acts : Reports(task, n) => task.status = health'[n]
    <3>1. /\ \E i \in 1..Len(a) : Reports(a[i], n)
          /\ \A i \in 1..Len(a) : Reports(a[i], n) => a[i].status = health'[n]
      BY <1>2, <2>2
    <3>2. LeadsTo(table, Pending \o a, n, health'[n])
      BY <1>3, <1>5, <3>1, AppendReport
    <3> QED BY <1>4, <3>2
  <2> QED BY <1>6, <2>1, <2>2
<1> QED
  BY <1>4, <1>6 DEF HealthInv

LEMMA StayHealth ==
  ASSUME HealthInv, Pending' = Pending, UNCHANGED <<table, health, probe>>
  PROVE  HealthInv'
BY DEF HealthInv

\* A request that breaks off a call ends the task that made it.
LEMMA BreaksStays ==
  ASSUME AdaptersTypes, Breaks
  PROVE  /\ Pending' = Pending /\ queue' \in Seq(Tasks)
         /\ call' \in Nat /\ (call' # NoCall => queue' # <<>>)
<1>1. \/ UNCHANGED <<queue, call>>
      \/ call # NoCall /\ queue' = Tail(queue) /\ call' = NoCall
  BY DEF Breaks, TaskEnds
<1> QED
  BY <1>1, PendingStays

-----------------------------------------------------------------------------
(* Adapters: one step at a time. *)

\* What the gateway's side of a call does to the queue.
LEMMA SyncOutcome ==
  ASSUME AdaptersTypes, GatewayInv, call = NoCall, queue # <<>>,
         restarted' = restarted, commits' = commits + 1,
         table' \in [Name -> Routes], learned' \subseteq Subgraph,
         handleGraphqlGatewaySync([number |-> commits', services |-> GraphqlRoutes(table', learned')])
  PROVE  /\ GatewayInv' /\ call' \in Nat /\ reloads' \subseteq Reload
         /\ \/ queue' = Tail(queue) /\ call' = NoCall
            \/ queue' = queue /\ call' # NoCall
<1> DEFINE services == GraphqlRoutes(table', learned')
           config == [number |-> commits', services |-> services]
<1>1. config.number = commits' /\ config.services = services
      /\ commits' \in Nat /\ commits' # NoCall
  BY DEF AdaptersTypes, NoCall
<1>6. [config |-> config, waiting |-> services] \in Reload /\ reloads \subseteq Reload
  <2>1. \A n \in Name : table'[n].endpoint \in Endpoint \cup {Missing}
    BY DEF Routes
  <2>2. services \subseteq Subgraph
    BY <2>1, AdaptersAssumption DEF GraphqlRoutes, Subgraph
  <2> HIDE DEF services
  <2> QED BY <1>1, <2>2 DEF Reload, AdaptersTypes
<1>2. CASE SyncSkipped(config)
  <2>1. /\ services = {} \/ stub = "broken"
        /\ queue' = Tail(queue) /\ call' = NoCall /\ stub' = stub /\ told' = told
        /\ serving' = serving /\ reloads' = reloads
    BY <1>2 DEF SyncSkipped, TaskEnds, gatewayVars
  <2>2. GatewayInv'
    BY <2>1 DEF GatewayInv
  <2> QED BY <1>6, <2>1, <2>2 DEF NoCall
<1>3. CASE SyncRefused(config)
  <2>1. /\ stub # "broken" /\ told' = "failure" /\ queue' = Tail(queue) /\ call' = NoCall
        /\ reloads' = reloads
    BY <1>3 DEF SyncRefused, TaskEnds, gatewayVars
  <2>2. GatewayInv'
    BY <2>1 DEF GatewayInv
  <2> QED BY <1>6, <2>1, <2>2 DEF NoCall
<1>4. CASE SyncStarted(config)
  <2>1. /\ stub # "broken" /\ queue' = queue /\ call' = commits'
        /\ reloads' = reloads \cup {[config |-> config, waiting |-> services]}
    BY <1>4 DEF SyncStarted, StartReload
  <2>2. GatewayInv'
    <3> SUFFICES ASSUME ~restarted, stub' # "broken"
                 PROVE  \E waiting \in SUBSET services :
                          reloads' = {[config |-> [number |-> call', services |-> services],
                                       waiting |-> waiting]}
      BY <1>1, <2>1 DEF GatewayInv
    <3>1. reloads = {}
      BY <2>1 DEF GatewayInv
    <3> HIDE DEF services
    <3> QED BY <2>1, <3>1
  <2> QED BY <1>1, <1>6, <2>1, <2>2
<1>5. CASE SyncLost(config)
  <2>1. stub' = "broken" /\ queue' = Tail(queue) /\ call' = NoCall /\ reloads' = reloads
    BY <1>5 DEF SyncLost, TaskEnds, gatewayVars
  <2>2. GatewayInv'
    BY <2>1 DEF GatewayInv
  <2> QED BY <1>6, <2>1, <2>2 DEF NoCall
<1> QED
  BY <1>2, <1>3, <1>4, <1>5 DEF handleGraphqlGatewaySync

LEMMA RequestStep ==
  ASSUME AdaptersInv, NEW act \in Requests, Request(act)
  PROVE  AdaptersInv'
<1>1. act \in Tasks
  BY RequestsAssumption DEF Tasks, Create, Delete
<1>2. <<act>> \in Seq(Tasks) /\ queue' = queue \o <<act>>
  BY <1>1 DEF Request, AdaptersInv, AdaptersTypes
<1>3. /\ Pending' = Pending \o <<act>> /\ queue' \in Seq(Tasks)
      /\ call' # NoCall => queue' # <<>>
  BY <1>2, PendingGrows DEF Request, AdaptersInv
<1>4. UNCHANGED <<table, learned, call, stub, told, commits, health, probe, serving, reloads, restarted>>
  BY DEF Request, checkerVars, gatewayVars
<1>5. AdaptersTypes'
  BY <1>3, <1>4 DEF AdaptersInv, AdaptersTypes, Registered
<1>6. HealthInv'
  <2>1. ASSUME NEW n \in Name, health[n] # Unknown
        PROVE  LeadsTo(table, Pending \o <<act>>, n, health[n])
    <3>1. \A i \in 1..Len(<<act>>) : ~Reports(<<act>>[i], n)
      BY RequestsAssumption DEF Reports, Create, Delete, Updates
    <3>2. LeadsTo(table, Pending, n, health[n])
      BY <2>1 DEF AdaptersInv, HealthInv
    <3> QED BY <1>2, <3>1, <3>2, AppendOthers, PendingTasks DEF AdaptersInv
  <2> QED BY <1>3, <1>4, <2>1 DEF AdaptersInv, HealthInv
<1>7. GatewayInv'
  BY <1>4 DEF AdaptersInv, GatewayInv
<1> QED
  BY <1>5, <1>6, <1>7 DEF AdaptersInv

LEMMA RunStep ==
  ASSUME AdaptersInv, RunNoChange \/ RunChange
  PROVE  AdaptersInv'
<1>1. queue \in Seq(Tasks) /\ queue # <<>> /\ call = NoCall /\ Head(queue) \in Tasks
      /\ table' = After(table, Head(queue)) /\ UNCHANGED <<health, probe, restarted>>
  BY DEF RunNoChange, RunChange, NoChange, Plans, After, AdaptersInv, AdaptersTypes, checkerVars
<1>2. table' \in [Name -> Routes] /\ IsFiniteSet(Registered')
  BY <1>1, RegisteredGrows DEF AdaptersInv
<1>6. learned' \subseteq Subgraph
  <2>1. ~Local(Head(queue)) => Head(queue).added \subseteq Subgraph
    BY <1>1 DEF Local, Tasks, Updates
  <2>2. \/ learned' = learned
        \/ ~Local(Head(queue)) /\ learned' \subseteq learned \cup Head(queue).added
    BY DEF RunNoChange, RunChange, Plans, PlannedLearned
  <2> QED BY <2>1, <2>2 DEF AdaptersInv, AdaptersTypes
<1>3. /\ GatewayInv' /\ call' \in Nat /\ commits' \in Nat /\ reloads' \subseteq Reload
      /\ \/ queue' = Tail(queue) /\ call' = NoCall
         \/ queue' = queue /\ call' # NoCall
  <2>1. CASE RunNoChange
    <3>1. UNCHANGED <<table, learned, stub, told, commits, serving, reloads>>
          /\ queue' = Tail(queue) /\ call' = NoCall
      BY <2>1 DEF RunNoChange, TaskEnds, gatewayVars
    <3> QED BY <1>1, <3>1 DEF AdaptersInv, AdaptersTypes, GatewayInv, NoCall
  <2>2. CASE RunChange
    <3>1. /\ commits' = commits + 1
          /\ handleGraphqlGatewaySync(
               [number |-> commits', services |-> GraphqlRoutes(table', learned')])
      BY <2>2 DEF RunChange
    <3> QED BY <1>1, <1>2, <1>6, <3>1, SyncOutcome DEF AdaptersInv, AdaptersTypes
  <2> QED BY <2>1, <2>2
<1>4. HealthInv'
  BY <1>1, <1>3, RunKeepsHealth DEF AdaptersInv
<1>5. queue' \in Seq(Tasks) /\ (call' # NoCall => queue' # <<>>)
  BY <1>1, <1>3, PendingShrinks DEF AdaptersInv
<1> QED
  BY <1>1, <1>2, <1>3, <1>4, <1>5, <1>6 DEF AdaptersInv, AdaptersTypes

LEMMA ProgressStep ==
  ASSUME AdaptersInv, NEW reload \in reloads, Progress(reload)
  PROVE  AdaptersInv'
<1>1. UNCHANGED <<table, learned, stub, commits, health, probe, restarted>>
  BY DEF Progress, checkerVars
<1>2. /\ reload \in Reload /\ reload.config.number # NoCall
      /\ reloads \subseteq Reload
  BY DEF AdaptersInv, AdaptersTypes, Reload
<1>3. ASSUME NEW result, Answered(reload.config.number, result)
      PROVE  \/ call # reload.config.number /\ UNCHANGED <<queue, call, told>>
             \/ /\ call = reload.config.number /\ call # NoCall
                /\ queue' = Tail(queue) /\ call' = NoCall /\ told' = result
  BY <1>2, <1>3 DEF Answered, TaskEnds
<1>4. \/ UNCHANGED <<queue, call>>
      \/ call # NoCall /\ queue' = Tail(queue) /\ call' = NoCall
  BY <1>3 DEF Progress
<1>5. /\ Pending' = Pending /\ queue' \in Seq(Tasks)
      /\ call' \in Nat /\ (call' # NoCall => queue' # <<>>)
  BY <1>4, PendingStays DEF AdaptersInv
<1>6. reloads' \subseteq Reload
  <2>1. CASE \E s \in reload.config.services : SubgraphAnswers(reload, s)
    <3>1. PICK s : reloads' = (reloads \ {reload}) \cup {[reload EXCEPT !.waiting = @ \ {s}]}
      BY <2>1 DEF SubgraphAnswers
    <3>2. [reload EXCEPT !.waiting = @ \ {s}] \in Reload
      BY <1>2 DEF Reload
    <3> QED BY <1>2, <3>1, <3>2
  <2>2. CASE ReloadFails(reload) \/ Install(reload)
    BY <1>2, <2>2 DEF ReloadFails, Install
  <2> QED BY <2>1, <2>2 DEF Progress
<1>7. AdaptersTypes'
  BY <1>1, <1>5, <1>6 DEF AdaptersInv, AdaptersTypes, Registered
<1>8. HealthInv'
  BY <1>1, <1>5, StayHealth DEF AdaptersInv
<1>9. GatewayInv'
  <2> DEFINE services == GraphqlRoutes(table, learned)
             config == [number |-> call, services |-> services]
  <2> SUFFICES ASSUME ~restarted, stub # "broken"
               PROVE  /\ call' = NoCall => reloads' = {}
                      /\ call' # NoCall => \E waiting \in SUBSET services :
                           reloads' = {[config |-> [number |-> call', services |-> services],
                                        waiting |-> waiting]}
                      /\ call' = NoCall /\ told' # "failure" /\ services # {} =>
                           serving' = services
    BY <1>1 DEF GatewayInv
  <2>1. call # NoCall
    BY DEF AdaptersInv, GatewayInv
  <2>2. PICK waiting \in SUBSET services :
          reloads = {[config |-> config, waiting |-> waiting]}
    BY <2>1 DEF AdaptersInv, GatewayInv
  <2>3. reload = [config |-> config, waiting |-> waiting] /\ reloads = {reload}
    BY <2>2
  <2>4. reload.config = config /\ config.number = call /\ config.services = services
    BY <2>3
  <2> HIDE DEF config, services
  <2>5. CASE (\E s \in reload.config.services : SubgraphAnswers(reload, s))
             /\ UNCHANGED <<queue, call, told>>
    <3>1. PICK s : reloads' = (reloads \ {reload}) \cup {[reload EXCEPT !.waiting = @ \ {s}]}
      BY <2>5 DEF SubgraphAnswers
    <3>2. [reload EXCEPT !.waiting = @ \ {s}] = [config |-> config, waiting |-> waiting \ {s}]
      BY <2>3
    <3>3. reloads' = {[config |-> config, waiting |-> waiting \ {s}]}
      BY <2>3, <3>1, <3>2
    <3> QED BY <2>1, <2>5, <3>3 DEF config
  <2>6. CASE ReloadFails(reload) /\ Answered(reload.config.number, "failure")
    <3>1. reloads' = {} /\ call' = NoCall /\ told' = "failure"
      BY <1>3, <2>3, <2>4, <2>6 DEF ReloadFails
    <3> QED BY <3>1
  <2>7. CASE Install(reload) /\ Answered(reload.config.number, "success")
    <3>1. reloads' = {} /\ call' = NoCall /\ serving' = services
      BY <1>3, <2>3, <2>4, <2>7 DEF Install
    <3> QED BY <3>1
  <2> QED BY <2>5, <2>6, <2>7 DEF Progress
<1> QED
  BY <1>7, <1>8, <1>9 DEF AdaptersInv

LEMMA BreakStep ==
  ASSUME AdaptersInv, StubBreaks \/ GatewayRestarts
  PROVE  AdaptersInv'
<1>1. /\ UNCHANGED <<table, learned, commits, health, probe>>
      /\ reloads' \in {reloads, {}}
      /\ (stub' = "broken" \/ restarted')
  BY DEF StubBreaks, GatewayRestarts, Breaks, GatewayStarts, checkerVars, gatewayVars
<1>2. Breaks \/ UNCHANGED <<queue, call>>
  BY DEF StubBreaks, GatewayRestarts
<1>3. /\ Pending' = Pending /\ queue' \in Seq(Tasks)
      /\ call' \in Nat /\ (call' # NoCall => queue' # <<>>)
  BY <1>2, BreaksStays, PendingStays DEF AdaptersInv
<1>4. AdaptersTypes'
  BY <1>1, <1>3 DEF AdaptersInv, AdaptersTypes, Registered
<1>5. HealthInv'
  BY <1>1, <1>3, StayHealth DEF AdaptersInv
<1>6. GatewayInv'
  BY <1>1 DEF GatewayInv
<1> QED
  BY <1>4, <1>5, <1>6 DEF AdaptersInv

LEMMA RestartStep ==
  ASSUME AdaptersInv, OrchestratorRestarts
  PROVE  AdaptersInv'
<1>1. UNCHANGED <<table, learned, commits, serving, reloads>> /\ restarted'
      /\ queue' = <<>> /\ call' = NoCall /\ health' = NoHealth /\ probe' = NoProbe
  BY DEF OrchestratorRestarts, gatewayVars
<1>2. AdaptersTypes'
  BY <1>1 DEF AdaptersInv, AdaptersTypes, Registered, NoHealth, NoProbe, NoCall
<1>3. HealthInv'
  BY <1>1 DEF HealthInv, NoHealth, NoProbe
<1>4. GatewayInv'
  BY <1>1 DEF GatewayInv
<1> QED
  BY <1>2, <1>3, <1>4 DEF AdaptersInv

LEMMA ProbeStep ==
  ASSUME AdaptersInv, NEW n \in Name, NEW st \in Status, ProbeEnds(n, st)
  PROVE  AdaptersInv'
<1> DEFINE acts == maybeDispatch(n, probe[n], st)
<1>1. /\ UNCHANGED <<table, learned, call, stub, told, commits, serving, reloads, restarted>>
      /\ probe[n] # "idle" /\ probe' = [probe EXCEPT ![n] = "idle"]
      /\ health' = [health EXCEPT ![n] = st] /\ Enqueued(acts)
  BY DEF ProbeEnds, gatewayVars, setHealth
<1>2. /\ health \in [Name -> Status \cup {Unknown}]
      /\ probe \in [Name -> Status \cup {Unknown, "idle"}]
      /\ probe[n] = health[n]
  BY <1>1 DEF AdaptersInv, AdaptersTypes, HealthInv
<1>3. /\ acts = IF health[n] = st THEN {} ELSE {Health(n, st)}
      /\ Health(n, st) \in Tasks
      /\ \A m \in Name : Reports(Health(n, st), m) <=> m = n
      /\ Health(n, st).status = st
  BY <1>2 DEF maybeDispatch, Health, Tasks, Reports
<1>4. acts \subseteq Tasks /\ IsFiniteSet(acts)
  BY <1>3, FS_EmptySet, FS_Singleton
<1>5. /\ health' \in [Name -> Status \cup {Unknown}]
      /\ probe' \in [Name -> Status \cup {Unknown, "idle"}]
      /\ \A m \in Name : probe'[m] # "idle" => probe'[m] = health'[m]
  BY <1>1, <1>2 DEF AdaptersInv, HealthInv
<1> HIDE DEF acts
<1>6. ASSUME NEW m \in Name
      PROVE  \/ health'[m] = health[m] /\ \A task \in acts : ~Reports(task, m)
             \/ /\ \E task \in acts : Reports(task, m)
                /\ \A task \in acts : Reports(task, m) => task.status = health'[m]
  BY <1>1, <1>2, <1>3
<1>7. /\ HealthInv' /\ queue' \in Seq(Tasks)
      /\ call' # NoCall => queue' # <<>>
  BY <1>1, <1>4, <1>5, <1>6, DispatchKeepsHealth DEF AdaptersInv
<1>8. AdaptersTypes'
  BY <1>1, <1>5, <1>7 DEF AdaptersInv, AdaptersTypes, Registered
<1>9. GatewayInv'
  BY <1>1 DEF AdaptersInv, GatewayInv
<1> QED
  BY <1>7, <1>8, <1>9 DEF AdaptersInv

LEMMA CycleStep ==
  ASSUME AdaptersInv, StartCycle
  PROVE  AdaptersInv'
<1> DEFINE d(n) == maybeDispatch(n, Kept[n], "down")
           acts == UNION {d(n) : n \in Unprobed}
           R == {Health(n, "down") : n \in Unprobed}
<1>1. /\ UNCHANGED <<table, learned, call, stub, told, commits, serving, reloads, restarted>>
      /\ health' = [n \in Name |-> IF n \in Unprobed THEN "down" ELSE Kept[n]]
      /\ probe' = [n \in Name |-> IF n \in Registered \ Unprobed THEN Kept[n] ELSE "idle"]
      /\ Enqueued(acts)
  BY DEF StartCycle, gatewayVars
<1>2. /\ health \in [Name -> Status \cup {Unknown}]
      /\ Unprobed \subseteq Registered /\ Registered \subseteq Name /\ IsFiniteSet(Registered)
      /\ \A n \in Name : Kept[n] = IF n \in Registered THEN health[n] ELSE Unknown
  BY DEF AdaptersInv, AdaptersTypes, Unprobed, Registered, Kept
<1>3. \A n \in Unprobed :
        /\ Health(n, "down") \in Tasks /\ Health(n, "down").status = "down"
        /\ \A m \in Name : Reports(Health(n, "down"), m) <=> m = n
  BY <1>2 DEF Health, Tasks, Reports, Status
<1>4. \A n \in Unprobed : d(n) = IF health[n] = "down" THEN {} ELSE {Health(n, "down")}
  BY <1>2 DEF maybeDispatch
<1> HIDE DEF d
<1>5. /\ \A task \in acts :
           \E n \in Unprobed : health[n] # "down" /\ task = Health(n, "down")
      /\ \A n \in Unprobed : health[n] # "down" => Health(n, "down") \in acts
  <2>1. ASSUME NEW task \in acts
        PROVE  \E n \in Unprobed : health[n] # "down" /\ task = Health(n, "down")
    <3>1. PICK n \in Unprobed : task \in d(n)
      BY <2>1
    <3> QED BY <1>4, <3>1
  <2>2. ASSUME NEW n \in Unprobed, health[n] # "down"
        PROVE  Health(n, "down") \in acts
    <3>1. Health(n, "down") \in d(n)
      BY <1>4, <2>2
    <3> QED BY <3>1
  <2> HIDE DEF acts
  <2> QED BY <2>1, <2>2
<1> HIDE DEF acts
<1>6. IsFiniteSet(acts)
  <2>1. IsFiniteSet(Unprobed)
    BY <1>2, FS_Subset
  <2> DEFINE report == [n \in Unprobed |-> Health(n, "down")]
  <2>2. report \in Surjection(Unprobed, R)
    BY DEF Surjection
  <2> HIDE DEF report, R
  <2>3. IsFiniteSet(R)
    BY <2>1, <2>2, FS_Surjection
  <2>4. acts \subseteq R
    BY <1>5 DEF R
  <2> QED BY <2>3, <2>4, FS_Subset
<1> HIDE DEF R
<1>7. acts \subseteq Tasks
  BY <1>3, <1>5
<1>8. /\ health' \in [Name -> Status \cup {Unknown}]
      /\ probe' \in [Name -> Status \cup {Unknown, "idle"}]
      /\ \A n \in Name : probe'[n] # "idle" => probe'[n] = health'[n]
  BY <1>1, <1>2 DEF Status
<1>9. ASSUME NEW m \in Name, health'[m] # Unknown
      PROVE  \/ health'[m] = health[m] /\ \A task \in acts : ~Reports(task, m)
             \/ /\ \E task \in acts : Reports(task, m)
                /\ \A task \in acts : Reports(task, m) => task.status = health'[m]
  <2>1. \A task \in acts : Reports(task, m) =>
          m \in Unprobed /\ health[m] # "down" /\ task.status = "down"
    <3> SUFFICES ASSUME NEW task \in acts, Reports(task, m)
                 PROVE  m \in Unprobed /\ health[m] # "down" /\ task.status = "down"
      OBVIOUS
    <3>1. PICK n \in Unprobed : health[n] # "down" /\ task = Health(n, "down")
      BY <1>5
    <3>2. m = n
      BY <1>3, <3>1
    <3> QED BY <1>3, <3>1, <3>2
  <2>2. CASE m \in Unprobed /\ health[m] # "down"
    <3>1. Health(m, "down") \in acts /\ Reports(Health(m, "down"), m)
      BY <1>3, <1>5, <2>2
    <3>2. health'[m] = "down"
      BY <1>1, <2>2
    <3> QED BY <2>1, <3>1, <3>2
  <2>3. CASE ~(m \in Unprobed /\ health[m] # "down")
    <3>1. health'[m] = health[m]
      BY <1>1, <1>2, <1>9, <2>3
    <3> QED BY <2>1, <2>3, <3>1
  <2> QED BY <2>2, <2>3
<1>10. /\ HealthInv' /\ queue' \in Seq(Tasks)
       /\ call' # NoCall => queue' # <<>>
  BY <1>1, <1>6, <1>7, <1>8, <1>9, DispatchKeepsHealth DEF AdaptersInv
<1>11. AdaptersTypes'
  BY <1>1, <1>8, <1>10 DEF AdaptersInv, AdaptersTypes, Registered
<1>12. GatewayInv'
  BY <1>1 DEF AdaptersInv, GatewayInv
<1> QED
  BY <1>10, <1>11, <1>12 DEF AdaptersInv

\* Whatever is registered, fails or restarts, the health that is pending or in
\* the table is the one the checker found, and until something breaks the
\* gateway works on the table of the bus or serves it.
THEOREM AdaptersInvariant == AdaptersSpec => []AdaptersInv
<1>1. AdaptersInit => AdaptersInv
  BY AdaptersStart
<1>2. AdaptersInv /\ [AdaptersNext]_adaptersVars => AdaptersInv'
  <2> SUFFICES ASSUME AdaptersInv, [AdaptersNext]_adaptersVars PROVE AdaptersInv'
    OBVIOUS
  <2>1. CASE UNCHANGED adaptersVars
    BY <2>1 DEF adaptersVars, gatewayVars, busVars, checkerVars, AdaptersInv, AdaptersTypes,
                Registered, HealthInv, Pending, GatewayInv
  <2>2. CASE AdaptersNext
    BY <2>2, RequestStep, RunStep, ProgressStep, BreakStep, RestartStep, ProbeStep, CycleStep
       DEF AdaptersNext, GatewayProgress
  <2> QED BY <2>1, <2>2
<1> QED
  BY <1>1, <1>2, PTL DEF AdaptersSpec

\* When the queue has drained, the health in the table is what the checker
\* found last, however probes, dispatches and re-registrations interleave
\* (adapter-health.ts).
THEOREM HealthStaysInStep == AdaptersSpec => []HealthAgrees
<1>1. AdaptersInv => HealthAgrees
  <2> SUFFICES ASSUME AdaptersInv, Settled, NEW n \in Registered, health[n] # Unknown
               PROVE  table[n].health \in {health[n], Unknown}
    BY DEF HealthAgrees
  <2>1. Pending = <<>> /\ n \in Name /\ table[n] # NoRoute
    BY DEF AdaptersInv, AdaptersTypes, Settled, Pending, Registered
  <2>2. LeadsTo(table, <<>>, n, health[n])
    BY <2>1 DEF AdaptersInv, HealthInv
  <2> QED BY <2>1, <2>2 DEF LeadsTo
<1> QED
  BY <1>1, AdaptersInvariant, PTL

\* When the queue has drained and nothing broke, failed or restarted, the
\* gateway serves the GraphQL services of the table, whichever subgraphs answer
\* first (bus.ts handleGraphqlGatewaySync, graphql/server.ts).
THEOREM SchemaIsCurrent == AdaptersSpec => []SchemaFollows
<1>1. AdaptersInv => SchemaFollows
  BY DEF AdaptersInv, AdaptersTypes, GatewayInv, SchemaFollows, Settled
<1> QED
  BY <1>1, AdaptersInvariant, PTL
==============================================================================
