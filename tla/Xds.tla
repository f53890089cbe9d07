---------------------------------- MODULE Xds ----------------------------------
(***************************************************************************)
(* How route configurations reach Envoy.  The orchestrator calls           *)
(* updateRoutes of the envoy service through one RPC stub (envoy-client.ts)*)
(* after every commit; the service (rpc/server.ts) numbers a snapshot and  *)
(* puts it into the cache (snapshot-cache.ts), which tells the open ADS    *)
(* stream (control-plane.ts); the stream sends each subscribed type once   *)
(* per version, clusters (CDS) before listeners (LDS).                     *)
(*                                                                         *)
(* Here a configuration is its place in the order of commits; what         *)
(* resources it stands for is the subject of XdsResources.  Versions are   *)
(* the service's own count and start anew with the process, so two         *)
(* configurations may have one version.                                    *)
(*                                                                         *)
(* The service may refuse a configuration: its schema is stricter than     *)
(* what the bus lets into the table, and a failure while it builds the     *)
(* snapshot is caught.  The answer says so; the bus does not look at it.   *)
(* Which configurations are refused is open here: any of them.  Putting a  *)
(* snapshot that was built into a stream is taken not to fail.             *)
(*                                                                         *)
(* Envoy is not part of the repository.  It holds one stream at a time,    *)
(* subscribes to CDS first, may accept or reject any response, and may     *)
(* name the version it has when it subscribes on a new stream.             *)
(***************************************************************************)
EXTENDS Integers, Sequences

CONSTANTS
  MaxCommits,    \* bound: configurations committed
  MaxStreams,    \* bound: streams opened by Envoy
  MaxRestarts    \* bound: restarts of the orchestrator and of the service

ASSUME XdsBounds == MaxCommits \in Nat /\ MaxStreams \in Nat /\ MaxRestarts \in Nat

Type == {"CDS", "LDS"}
None == 0

VARIABLES
  committed,       \* number of the last configuration committed by the bus
  stub,            \* the client's stub: "none", "open", or "broken" for good
  versionCounter,  \* of the envoy service
  snapshot,        \* current of the cache: version and configuration
  stream,          \* the server's side of the ADS stream
  toServer,        \* requests on their way
  toEnvoy,         \* responses on their way
  envoy,           \* per type: configuration accepted, and last one seen
  streams,         \* streams opened so far
  restarts,        \* restarts so far
  answered         \* history: last configuration answered with success over the
                   \* present stub

busVars == <<committed, stub, answered>>
envoyVars == <<envoy, streams>>
vars == <<committed, stub, versionCounter, snapshot, stream, toServer, toEnvoy,
          envoy, streams, restarts, answered>>

NoSnapshot == [version |-> None, config |-> None]

Closed ==
  [open |-> FALSE, subscribed |-> {}, sent |-> [t \in Type |-> None],
   latest |-> NoSnapshot]

Response(t, s) == [type |-> t, config |-> s.config]

\* kind: "subscribe" has neither version nor nonce, "resume" a version only.
Request(t, kind) == [type |-> t, kind |-> kind]

-----------------------------------------------------------------------------
(* The stream, server side. *)

\* Types subscribed to whose last response had another version.
Due(st) ==
  IF st.latest = NoSnapshot THEN {}
  ELSE {t \in st.subscribed : st.sent[t] # st.latest.version}

\* Faulty: listeners before clusters.
ListenersFirst(st) ==
  (IF "LDS" \in Due(st) THEN <<Response("LDS", st.latest)>> ELSE <<>>)
    \o (IF "CDS" \in Due(st) THEN <<Response("CDS", st.latest)>> ELSE <<>>)

Responses(st) ==
  (IF "CDS" \in Due(st) THEN <<Response("CDS", st.latest)>> ELSE <<>>)
    \o (IF "LDS" \in Due(st) THEN <<Response("LDS", st.latest)>> ELSE <<>>)

\* Faulty: what is sent overtakes what was sent before.
SendOvertaking(st) ==
  /\ toEnvoy' = Responses(st) \o toEnvoy
  /\ stream' = [st EXCEPT !.sent = [t \in Type |->
                  IF t \in Due(st) THEN st.latest.version ELSE @[t]]]

sendSnapshotForTypes(st) ==
  /\ toEnvoy' = toEnvoy \o Responses(st)
  /\ stream' = [st EXCEPT !.sent = [t \in Type |->
                  IF t \in Due(st) THEN st.latest.version ELSE @[t]]]

\* Envoy opens a stream: handleStream.  Its first request asks for clusters.
Connect(kind) ==
  /\ ~stream.open
  /\ streams < MaxStreams /\ streams' = streams + 1
  /\ kind = "resume" => envoy["CDS"].accepted # None
  /\ stream' = [Closed EXCEPT !.open = TRUE, !.latest = snapshot]
  /\ toServer' = <<Request("CDS", kind)>>
  /\ UNCHANGED <<busVars, versionCounter, snapshot, toEnvoy, envoy, restarts>>

\* Envoy asks for listeners, once per stream.
SubscribeListeners(kind) ==
  /\ stream.open /\ "LDS" \notin stream.subscribed
  /\ \A i \in 1..Len(toServer) : toServer[i].type # "LDS"
  /\ kind = "resume" => envoy["LDS"].accepted # None
  /\ toServer' = Append(toServer, Request("LDS", kind))
  /\ UNCHANGED <<busVars, versionCounter, snapshot, stream, toEnvoy, envoyVars, restarts>>

\* Every request subscribes to its type; one with neither version nor nonce is
\* answered.  Acknowledged and rejected versions are only logged.
HandleRequest ==
  /\ toServer # <<>>
  /\ toServer' = Tail(toServer)
  /\ LET req == Head(toServer)
         st  == [stream EXCEPT !.subscribed = @ \cup {req.type}]
     IN  IF req.kind = "subscribe" THEN sendSnapshotForTypes(st)
         ELSE stream' = st /\ UNCHANGED toEnvoy
  /\ UNCHANGED <<busVars, versionCounter, snapshot, envoyVars, restarts>>

\* Envoy takes a response: it applies the configuration or keeps what it has.
Receive(verdict) ==
  /\ toEnvoy # <<>>
  /\ toEnvoy' = Tail(toEnvoy)
  /\ LET res == Head(toEnvoy)
     IN  /\ envoy' = [envoy EXCEPT ![res.type] =
                        [accepted |-> IF verdict = "ack" THEN res.config ELSE @.accepted,
                         seen     |-> res.config]]
         /\ toServer' = Append(toServer, Request(res.type, verdict))
  /\ UNCHANGED <<busVars, versionCounter, snapshot, stream, streams, restarts>>

\* The stream ends or fails: unwatch.  What is under way is lost.
Disconnect ==
  /\ stream.open
  /\ stream' = Closed /\ toServer' = <<>> /\ toEnvoy' = <<>>
  /\ UNCHANGED <<busVars, versionCounter, snapshot, envoyVars, restarts>>

-----------------------------------------------------------------------------
(* The orchestrator and the service. *)

\* Faulty: open streams are not told.
StoreOnly(s) == snapshot' = s /\ UNCHANGED <<stream, toEnvoy>>

\* The cache notifies its watchers at once.
setSnapshot(s) ==
  /\ snapshot' = s
  /\ IF stream.open THEN sendSnapshotForTypes([stream EXCEPT !.latest = s])
     ELSE UNCHANGED <<stream, toEnvoy>>

\* The service takes a configuration; or it refuses one that its schema does not
\* accept, or fails to build the snapshot, whose version is then used up.
updateRoutes(config, success) ==
  IF success
  THEN /\ versionCounter' = versionCounter + 1
       /\ setSnapshot([version |-> versionCounter', config |-> config])
  ELSE /\ versionCounter' \in {versionCounter, versionCounter + 1}
       /\ UNCHANGED <<snapshot, stream, toEnvoy>>

Lost == UNCHANGED <<versionCounter, snapshot, stream, toEnvoy>>

\* Commit a configuration and call updateRoutes, unless the stub has broken;
\* whether it is refused is not looked at.
Commit(success) ==
  /\ committed < MaxCommits /\ committed' = committed + 1
  /\ stub # "broken" /\ stub' = "open"
  /\ updateRoutes(committed', success)
  /\ answered' = IF success THEN committed' ELSE answered
  /\ UNCHANGED <<toServer, envoyVars, restarts>>

\* The same as the connection breaks: the call may have been carried out.
CommitBreaks ==
  /\ committed < MaxCommits /\ committed' = committed + 1
  /\ stub # "broken" /\ stub' = "broken"
  /\ Lost \/ \E success \in BOOLEAN : updateRoutes(committed', success)
  /\ answered' = None
  /\ UNCHANGED <<toServer, envoyVars, restarts>>

CommitUnheard ==
  /\ committed < MaxCommits /\ committed' = committed + 1
  /\ stub = "broken"
  /\ UNCHANGED <<stub, answered>> /\ Lost /\ UNCHANGED <<toServer, envoyVars, restarts>>

\* A new stub is made on the first call after a restart.
OrchestratorRestarts ==
  /\ restarts < MaxRestarts /\ restarts' = restarts + 1
  /\ stub' = "none" /\ answered' = None
  /\ UNCHANGED <<committed, versionCounter, snapshot, stream, toServer, toEnvoy, envoyVars>>

ServiceRestarts ==
  /\ restarts < MaxRestarts /\ restarts' = restarts + 1
  /\ versionCounter' = 0 /\ snapshot' = NoSnapshot
  /\ stream' = Closed /\ toServer' = <<>> /\ toEnvoy' = <<>>
  /\ stub' = IF stub = "open" THEN "broken" ELSE stub
  /\ answered' = None
  /\ UNCHANGED <<committed, envoyVars>>

Init ==
  /\ committed = 0 /\ stub = "none"
  /\ versionCounter = 0 /\ snapshot = NoSnapshot
  /\ stream = Closed /\ toServer = <<>> /\ toEnvoy = <<>>
  /\ envoy = [t \in Type |-> [accepted |-> None, seen |-> None]]
  /\ streams = 0 /\ restarts = 0 /\ answered = None

Next ==
  \/ \E kind \in {"subscribe", "resume"} : Connect(kind) \/ SubscribeListeners(kind)
  \/ HandleRequest
  \/ \E verdict \in {"ack", "nack"} : Receive(verdict)
  \/ Disconnect
  \/ \E success \in BOOLEAN : Commit(success)
  \/ CommitBreaks \/ CommitUnheard
  \/ OrchestratorRestarts \/ ServiceRestarts

Spec == Init /\ [][Next]_vars
-----------------------------------------------------------------------------
SnapshotSet == {NoSnapshot} \cup [version : Nat \ {None}, config : 1..MaxCommits]

\* The parts of the state have their types; a snapshot has a number other than
\* that of a type nothing was sent of.
TypeOK ==
  /\ committed \in 0..MaxCommits /\ stub \in {"none", "open", "broken"}
  /\ versionCounter \in Nat
  /\ snapshot \in SnapshotSet
  /\ stream \in [open : BOOLEAN, subscribed : SUBSET Type, sent : [Type -> Nat],
                 latest : SnapshotSet]
  /\ toServer \in Seq([type : Type, kind : {"subscribe", "resume", "ack", "nack"}])
  /\ toEnvoy \in Seq([type : Type, config : 1..MaxCommits])
  /\ envoy \in [Type -> [accepted : 0..MaxCommits, seen : 0..MaxCommits]]
  /\ streams \in 0..MaxStreams /\ restarts \in 0..MaxRestarts
  /\ answered \in 0..MaxCommits

Settled == stream.open /\ toServer = <<>> /\ toEnvoy = <<>>

\* When nothing is under way, Envoy has been shown the last configuration that
\* the service answered with success, as long as the stub has not broken, for
\* every type that it subscribed to without naming a version, or was sent
\* anything of since.  A refused configuration is not shown, and does not keep
\* one that the service takes later from being shown.
EnvoyFollows ==
  Settled /\ answered # None =>
    \A t \in stream.subscribed :
      stream.sent[t] # None => envoy[t].seen = answered

\* Envoy has been shown the configuration committed last.  Not so when the
\* service refused it; checked by hand with MCXdsRefused.cfg, as README.md says.
LastCommitShown ==
  Settled /\ stub = "open" =>
    \A t \in stream.subscribed :
      stream.sent[t] # None => envoy[t].seen = committed

\* Envoy gets the clusters of a configuration, or of a later one, before the
\* listeners that refer to them ("CDS is sent before LDS").
ClustersFirst ==
  \A i \in 1..Len(toEnvoy) : toEnvoy[i].type = "LDS" =>
    \/ envoy["CDS"].seen >= toEnvoy[i].config
    \/ \E j \in 1..(i - 1) :
         toEnvoy[j].type = "CDS" /\ toEnvoy[j].config >= toEnvoy[i].config

\* The listeners Envoy serves are fed to it: always some configuration that was
\* committed, and never an earlier one than before, whatever breaks, is lost,
\* rejected or restarted.
Listeners == INSTANCE Feed WITH published <- committed, shown <- envoy["LDS"].accepted
ListenersNeverOlder == Listeners!Spec
===============================================================================
