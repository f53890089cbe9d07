------------------------------ MODULE EnvoyProofs ------------------------------
(***************************************************************************)
(* Proofs about the two ends of envoy's configuration.                     *)
(*                                                                         *)
(* About Xds: its type invariant, its two safety invariants and its        *)
(* implementation of Feed, for every bound and whatever is lost, rejected  *)
(* or restarted.                                                           *)
(*                                                                         *)
(* About Ports: its type invariant, that the pool stays intact, that what  *)
(* is announced is what was committed, and that envoy listens where the    *)
(* table says, for every pool, every set of actions dispatched and every   *)
(* order in which routes are served.                                       *)
(***************************************************************************)
EXTENDS Xds, Ports, PlanProofs, SequenceTheorems, FiniteSetTheorems

-----------------------------------------------------------------------------
(* The inductive invariant. *)

ResponseSet == [type : Type, config : 1..MaxCommits]
StreamSet == [open : BOOLEAN, subscribed : SUBSET Type, sent : [Type -> Nat],
              latest : SnapshotSet]

\* An open stream knows the snapshot in the cache; a closed one carries nothing.
StreamInv ==
  /\ stream.open => stream.latest = snapshot
  /\ ~stream.open => toEnvoy = <<>> /\ toServer = <<>>

\* Clusters are subscribed to before anything else.
SubscriptionInv ==
  stream.open =>
    \/ "CDS" \in stream.subscribed
    \/ stream.subscribed = {} /\ toServer # <<>> /\ Head(toServer).type = "CDS"

\* Configurations get older the further they are from the bus.
AgeInv ==
  /\ snapshot.config <= committed
  /\ answered # None => snapshot # NoSnapshot /\ snapshot.config = answered
  /\ \A t \in Type : envoy[t].accepted <= envoy[t].seen /\ envoy[t].seen <= committed
  /\ snapshot # NoSnapshot => \A t \in Type : envoy[t].seen <= snapshot.config

\* So do the responses under way.
QueueInv ==
  /\ \A i \in 1..Len(toEnvoy) :
       /\ toEnvoy[i].config <= snapshot.config
       /\ envoy[toEnvoy[i].type].seen <= toEnvoy[i].config
  /\ \A i \in 1..Len(toEnvoy), j \in 1..Len(toEnvoy) :
       i <= j /\ toEnvoy[i].type = toEnvoy[j].type => toEnvoy[i].config <= toEnvoy[j].config

\* Envoy has seen the snapshot's resources of a type, or will.
Reached(t) ==
  \/ envoy[t].seen = snapshot.config
  \/ \E i \in 1..Len(toEnvoy) : toEnvoy[i].type = t /\ toEnvoy[i].config = snapshot.config

\* A type of which anything was sent on this stream was sent the snapshot.
SentInv ==
  /\ snapshot # NoSnapshot => snapshot.version <= versionCounter
  /\ stream.open => \A t \in Type : stream.sent[t] # None =>
       /\ t \in stream.subscribed
       /\ snapshot # NoSnapshot /\ stream.sent[t] = snapshot.version
       /\ Reached(t)

XdsInv ==
  /\ TypeOK /\ StreamInv /\ SubscriptionInv /\ AgeInv /\ QueueInv /\ SentInv
  /\ ClustersFirst

-----------------------------------------------------------------------------
(* Sending. *)

\* A sequence of one element, or none.
LEMMA OneOrNone ==
  ASSUME NEW S, NEW e, NEW b \in BOOLEAN, b => e \in S
  PROVE  LET s == IF b THEN <<e>> ELSE <<>>
         IN  /\ s \in Seq(S) /\ Len(s) = (IF b THEN 1 ELSE 0)
             /\ \A i \in 1..Len(s) : s[i] = e
<1>1. CASE b
  BY <1>1
<1>2. CASE ~b
  BY <1>2
<1> QED  BY <1>1, <1>2

\* What sendSnapshotForTypes writes: one response for every type that is due,
\* the clusters first (control-plane.ts).
LEMMA ResponsesFacts ==
  ASSUME NEW st \in StreamSet
  PROVE  /\ Responses(st) \in Seq(ResponseSet)
         /\ \A i \in 1..Len(Responses(st)) :
              /\ Responses(st)[i].config = st.latest.config
              /\ Responses(st)[i].type \in Due(st)
         /\ \A t \in Due(st) : \E i \in 1..Len(Responses(st)) : Responses(st)[i].type = t
         /\ \A i, j \in 1..Len(Responses(st)) :
              Responses(st)[i].type = Responses(st)[j].type => i = j
         /\ "CDS" \in Due(st) =>
              \A i \in 1..Len(Responses(st)) : Responses(st)[i].type = "LDS" =>
                \E j \in 1..(i - 1) : Responses(st)[j].type = "CDS"
<1> DEFINE c == Response("CDS", st.latest)
           l == Response("LDS", st.latest)
           C == IF "CDS" \in Due(st) THEN <<c>> ELSE <<>>
           L == IF "LDS" \in Due(st) THEN <<l>> ELSE <<>>
           R == Responses(st)
<1>1. Due(st) \subseteq {"CDS", "LDS"}
  BY DEF Due, StreamSet, Type
<1>2. Due(st) # {} => c \in ResponseSet /\ l \in ResponseSet
  BY DEF Due, StreamSet, SnapshotSet, Response, ResponseSet, Type
<1>3. /\ c.type = "CDS" /\ l.type = "LDS"
      /\ c.config = st.latest.config /\ l.config = st.latest.config
  BY DEF Response
<1> HIDE DEF c, l
<1>4. /\ C \in Seq(ResponseSet) /\ L \in Seq(ResponseSet)
      /\ Len(C) = IF "CDS" \in Due(st) THEN 1 ELSE 0
      /\ Len(L) = IF "LDS" \in Due(st) THEN 1 ELSE 0
      /\ \A i \in 1..Len(C) : C[i] = c
      /\ \A i \in 1..Len(L) : L[i] = l
  BY <1>2, OneOrNone
<1>5. R = C \o L
  BY DEF Responses, c, l
<1> HIDE DEF C, L, R
<1>6. /\ R \in Seq(ResponseSet) /\ Len(R) = Len(C) + Len(L)
      /\ \A i \in 1..(Len(C) + Len(L)) : R[i] = IF i <= Len(C) THEN C[i] ELSE L[i - Len(C)]
  BY <1>4, <1>5, ConcatProperties
<1>7. /\ Len(R) \in 0..2
      /\ \A i \in 1..Len(R) : R[i] = IF i = 1 /\ "CDS" \in Due(st) THEN c ELSE l
      /\ "CDS" \in Due(st) <=> Len(R) >= 1 /\ R[1] = c
      /\ \A i \in 1..Len(R) : R[i] = l => "LDS" \in Due(st)
      /\ "LDS" \in Due(st) => Len(R) >= 1 /\ R[Len(R)] = l
  <2>1. c # l
    BY <1>3
  <2> QED  BY <1>4, <1>6, <2>1
<1>8. ASSUME NEW i \in 1..Len(R), NEW j \in 1..Len(R), R[i].type = R[j].type
      PROVE  i = j
  BY <1>3, <1>4, <1>6, <1>8
<1>9. \A i \in 1..Len(R) : R[i].config = st.latest.config /\ R[i].type \in Due(st)
  BY <1>3, <1>7
<1>10. \A t \in Due(st) : \E i \in 1..Len(R) : R[i].type = t
  BY <1>1, <1>3, <1>7
<1>11. "CDS" \in Due(st) =>
         \A i \in 1..Len(R) : R[i].type = "LDS" => \E j \in 1..(i - 1) : R[j].type = "CDS"
  <2> SUFFICES ASSUME "CDS" \in Due(st), NEW i \in 1..Len(R), R[i].type = "LDS"
               PROVE  1 \in 1..(i - 1) /\ R[1].type = "CDS"
    OBVIOUS
  <2> QED  BY <1>3, <1>7
<1> QED  BY <1>6, <1>8, <1>9, <1>10, <1>11 DEF R

\* What a send does to the stream and the responses under way, when the stream
\* knows the snapshot that the cache has after the step.
LEMMA Sending ==
  ASSUME TypeOK, QueueInv, ClustersFirst, TypeOK',
         NEW st \in StreamSet, st.open, st.latest = snapshot',
         sendSnapshotForTypes(st), UNCHANGED envoy,
         snapshot'.config >= snapshot.config \/ toEnvoy = <<>>,
         snapshot' # NoSnapshot => \A t \in Type : envoy[t].seen <= snapshot'.config,
         "LDS" \in st.subscribed => "CDS" \in st.subscribed,
         \A t \in Type : st.sent[t] # None =>
           /\ t \in st.subscribed /\ snapshot' # NoSnapshot
           /\ st.sent[t] = snapshot'.version => snapshot' = snapshot /\ Reached(t)
  PROVE  /\ QueueInv' /\ ClustersFirst'
         /\ stream'.open /\ stream'.latest = snapshot'
         /\ stream'.subscribed = st.subscribed
         /\ \A t \in Type : stream'.sent[t] # None =>
              /\ t \in st.subscribed /\ snapshot' # NoSnapshot
              /\ stream'.sent[t] = snapshot'.version
              /\ Reached(t)'
<1> DEFINE R == Responses(st)
<1>1. toEnvoy' = toEnvoy \o R /\ toEnvoy \in Seq(ResponseSet)
  BY DEF sendSnapshotForTypes, TypeOK, ResponseSet
<1>2. stream' = [st EXCEPT !.sent = [t \in Type |->
                  IF t \in Due(st) THEN st.latest.version ELSE @[t]]]
  BY DEF sendSnapshotForTypes
<1>3. /\ stream'.open /\ stream'.latest = snapshot' /\ stream'.subscribed = st.subscribed
      /\ \A t \in Type : stream'.sent[t] =
           IF t \in Due(st) THEN snapshot'.version ELSE st.sent[t]
  BY <1>2 DEF StreamSet
<1>4. /\ R \in Seq(ResponseSet)
      /\ \A i \in 1..Len(R) : R[i].config = snapshot'.config /\ R[i].type \in Due(st)
      /\ \A t \in Due(st) : \E i \in 1..Len(R) : R[i].type = t
      /\ \A i, j \in 1..Len(R) : R[i].type = R[j].type => i = j
      /\ "CDS" \in Due(st) =>
           \A i \in 1..Len(R) : R[i].type = "LDS" => \E j \in 1..(i - 1) : R[j].type = "CDS"
  BY ResponsesFacts
<1> HIDE DEF R
<1> DEFINE m == Len(toEnvoy)
           n == Len(R)
<1>5. /\ m \in Nat /\ n \in Nat /\ Len(toEnvoy') = m + n
      /\ \A i \in 1..m : toEnvoy'[i] = toEnvoy[i] /\ i \in 1..(m + n)
      /\ \A i \in 1..n : toEnvoy'[m + i] = R[i] /\ m + i \in 1..(m + n)
      /\ \A i \in 1..(m + n) : i \notin 1..m => i - m \in 1..n /\ toEnvoy'[i] = R[i - m]
  <2>1. m \in Nat /\ n \in Nat
    BY <1>1, <1>4, LenProperties
  <2>2. /\ Len(toEnvoy \o R) = m + n
        /\ \A i \in 1..(m + n) :
             (toEnvoy \o R)[i] = IF i <= m THEN toEnvoy[i] ELSE R[i - m]
    BY <1>1, <1>4, ConcatProperties
  <2> HIDE DEF m, n
  <2> QED  BY <1>1, <2>1, <2>2
<1>6. \A i \in 1..m : toEnvoy[i] \in ResponseSet
  BY <1>1, <1>5, ElementOfSeq
<1>7. snapshot.config \in 0..MaxCommits /\ snapshot'.config \in 0..MaxCommits
  <2>1. snapshot \in SnapshotSet /\ snapshot' \in SnapshotSet
    BY DEF TypeOK
  <2> QED  BY <2>1, XdsBounds DEF SnapshotSet, NoSnapshot, None
<1>8. \A t \in Type : envoy[t].seen \in 0..MaxCommits
  BY DEF TypeOK
<1>9. Due(st) # {} => snapshot' # NoSnapshot
  BY DEF Due
<1>10. Due(st) \subseteq Type /\ Due(st) \subseteq st.subscribed
  BY DEF Due, StreamSet
<1>11. \A i \in 1..m : toEnvoy[i].config <= snapshot'.config
  BY <1>5, <1>6, <1>7 DEF QueueInv, ResponseSet
<1>12. QueueInv'
  <2>1. ASSUME NEW i \in 1..(m + n)
        PROVE  /\ toEnvoy'[i].config <= snapshot'.config
               /\ envoy'[toEnvoy'[i].type].seen <= toEnvoy'[i].config
    <3>1. CASE i \in 1..m
      BY <1>5, <1>11, <3>1 DEF QueueInv
    <3>2. CASE i \notin 1..m
      <4>1. toEnvoy'[i].config = snapshot'.config /\ toEnvoy'[i].type \in Due(st)
        BY <1>4, <1>5, <3>2
      <4> QED  BY <4>1, <1>7, <1>9, <1>10
    <3> QED  BY <3>1, <3>2
  <2>2. ASSUME NEW i \in 1..(m + n), NEW j \in 1..(m + n), i <= j,
               toEnvoy'[i].type = toEnvoy'[j].type
        PROVE  toEnvoy'[i].config <= toEnvoy'[j].config
    <3>1. CASE j \in 1..m
      BY <1>5, <2>2, <3>1 DEF QueueInv
    <3>2. CASE j \notin 1..m
      <4>1. toEnvoy'[j].config = snapshot'.config
        BY <1>4, <1>5, <3>2
      <4> QED  BY <4>1, <2>1
    <3> QED  BY <3>1, <3>2
  <2> HIDE DEF m, n
  <2> QED  BY <1>5, <2>1, <2>2 DEF QueueInv
<1>13. \A t \in Due(st) : \E i \in 1..n :
         toEnvoy'[m + i].type = t /\ toEnvoy'[m + i].config = snapshot'.config
  BY <1>4, <1>5
<1>14. ASSUME NEW t \in Type, stream'.sent[t] # None
       PROVE  /\ t \in st.subscribed /\ snapshot' # NoSnapshot
              /\ stream'.sent[t] = snapshot'.version
              /\ Reached(t)'
  <2>1. CASE t \in Due(st)
    <3>1. \E i \in 1..Len(toEnvoy') :
            toEnvoy'[i].type = t /\ toEnvoy'[i].config = snapshot'.config
      BY <1>5, <1>13, <2>1
    <3> QED  BY <1>3, <1>9, <1>10, <2>1, <3>1 DEF Reached
  <2>2. CASE t \notin Due(st)
    <3>1. st.sent[t] # None /\ t \in st.subscribed /\ snapshot' # NoSnapshot
      BY <1>3, <1>14, <2>2
    <3>2. st.sent[t] = snapshot'.version
      BY <2>2, <3>1 DEF Due
    <3>3. snapshot' = snapshot /\ Reached(t)
      BY <3>1, <3>2
    <3>4. Reached(t)'
      BY <1>5, <3>3 DEF Reached
    <3> QED  BY <1>3, <2>2, <3>1, <3>2, <3>4
  <2> QED  BY <2>1, <2>2
<1>15. ClustersFirst'
  <2> SUFFICES ASSUME NEW i \in 1..(m + n), toEnvoy'[i].type = "LDS"
               PROVE  \/ envoy["CDS"].seen >= toEnvoy'[i].config
                      \/ \E j \in 1..(i - 1) :
                           toEnvoy'[j].type = "CDS" /\ toEnvoy'[j].config >= toEnvoy'[i].config
    BY <1>5 DEF ClustersFirst
  <2>1. CASE i \in 1..m
    <3>1. toEnvoy[i].type = "LDS" /\ toEnvoy'[i] = toEnvoy[i]
      BY <1>5, <2>1
    <3>2. CASE envoy["CDS"].seen >= toEnvoy[i].config
      BY <3>1, <3>2
    <3>3. CASE \E j \in 1..(i - 1) :
                 toEnvoy[j].type = "CDS" /\ toEnvoy[j].config >= toEnvoy[i].config
      <4>1. PICK j \in 1..(i - 1) :
                 toEnvoy[j].type = "CDS" /\ toEnvoy[j].config >= toEnvoy[i].config
        BY <3>3
      <4>2. toEnvoy'[j] = toEnvoy[j]
        BY <1>5, <2>1
      <4> QED  BY <3>1, <4>1, <4>2
    <3> QED  BY <2>1, <3>1, <3>2, <3>3 DEF ClustersFirst
  <2>2. CASE i \notin 1..m
    <3>1. toEnvoy'[i].config = snapshot'.config /\ "LDS" \in Due(st) /\ i - m \in 1..n
      BY <1>4, <1>5, <2>2
    <3>2. CASE "CDS" \in Due(st)
      <4>1. PICK j \in 1..((i - m) - 1) : R[j].type = "CDS"
        BY <1>4, <1>5, <2>2, <3>2
      <4>2. m + j \in 1..(i - 1) /\ j \in 1..n
        BY <1>5, <3>1, <4>1
      <4>3. toEnvoy'[m + j].type = "CDS" /\ toEnvoy'[m + j].config = snapshot'.config
        BY <1>4, <1>5, <4>1, <4>2
      <4> QED  BY <1>7, <3>1, <4>2, <4>3
    <3>3. CASE "CDS" \notin Due(st)
      <4>1. "CDS" \in st.subscribed /\ snapshot' # NoSnapshot /\ "CDS" \in Type
        BY <1>9, <1>10, <3>1 DEF Type
      <4>2. st.sent["CDS"] = snapshot'.version
        BY <3>3, <4>1 DEF Due
      <4>3. snapshot'.version # None
        <5>1. snapshot' \in SnapshotSet
          BY DEF TypeOK
        <5> QED  BY <4>1, <5>1 DEF SnapshotSet
      <4>4. snapshot' = snapshot /\ Reached("CDS")
        BY <4>1, <4>2, <4>3
      <4>5. ASSUME NEW j \in 1..m, toEnvoy[j].type = "CDS", toEnvoy[j].config = snapshot.config
            PROVE  j \in 1..(i - 1) /\ toEnvoy'[j].type = "CDS"
                   /\ toEnvoy'[j].config >= toEnvoy'[i].config
        BY <1>5, <1>7, <2>2, <3>1, <4>4, <4>5
      <4> QED  BY <1>7, <3>1, <4>4, <4>5 DEF Reached
    <3> QED  BY <3>2, <3>3
  <2> QED  BY <2>1, <2>2
<1> QED  BY <1>3, <1>12, <1>14, <1>15

-----------------------------------------------------------------------------
(* Type correctness. *)

LEMMA TypeInit == Init => TypeOK
<1> SUFFICES ASSUME Init PROVE TypeOK
  OBVIOUS
<1>1. NoSnapshot \in SnapshotSet /\ Closed \in StreamSet
  BY DEF SnapshotSet, Closed, StreamSet, Type, None
<1> QED  BY <1>1, XdsBounds DEF Init, TypeOK, Closed, StreamSet, Type, None

\* Sending keeps the types of the stream and of what is under way.
LEMMA SendType ==
  ASSUME toEnvoy \in Seq(ResponseSet), NEW st \in StreamSet, sendSnapshotForTypes(st)
  PROVE  toEnvoy' \in Seq(ResponseSet) /\ stream' \in StreamSet
<1>1. toEnvoy' \in Seq(ResponseSet)
  BY ResponsesFacts, ConcatProperties DEF sendSnapshotForTypes
<1>2. [t \in Type |-> IF t \in Due(st) THEN st.latest.version ELSE st.sent[t]] \in [Type -> Nat]
  BY DEF StreamSet, SnapshotSet, NoSnapshot, None
<1>3. stream' = [st EXCEPT !.sent =
          [t \in Type |-> IF t \in Due(st) THEN st.latest.version ELSE st.sent[t]]]
  BY DEF sendSnapshotForTypes
<1> QED  BY <1>1, <1>2, <1>3 DEF StreamSet

LEMMA TypeStep == TypeOK /\ [Next]_vars => TypeOK'
<1> SUFFICES ASSUME TypeOK, [Next]_vars PROVE TypeOK'
  OBVIOUS
<1> DEFINE Reqs == [type : Type, kind : {"subscribe", "resume", "ack", "nack"}]
<1>1. /\ toEnvoy \in Seq(ResponseSet) /\ stream \in StreamSet
      /\ snapshot \in SnapshotSet /\ toServer \in Seq(Reqs)
      /\ NoSnapshot \in SnapshotSet /\ Closed \in StreamSet
      /\ committed \in Nat
  BY XdsBounds DEF TypeOK, ResponseSet, StreamSet, SnapshotSet, Closed, Type, None
<1>2. TypeOK' <=>
        /\ committed' \in 0..MaxCommits /\ stub' \in {"none", "open", "broken"}
        /\ versionCounter' \in Nat /\ snapshot' \in SnapshotSet
        /\ stream' \in StreamSet /\ toServer' \in Seq(Reqs)
        /\ toEnvoy' \in Seq(ResponseSet)
        /\ envoy' \in [Type -> [accepted : 0..MaxCommits, seen : 0..MaxCommits]]
        /\ streams' \in 0..MaxStreams /\ restarts' \in 0..MaxRestarts
        /\ answered' \in 0..MaxCommits
  BY DEF TypeOK, ResponseSet, StreamSet
<1>3. ASSUME NEW kind \in {"subscribe", "resume"}, Connect(kind)
      PROVE  TypeOK'
  <2>1. [Closed EXCEPT !.open = TRUE, !.latest = snapshot] \in StreamSet
    BY <1>1 DEF StreamSet, Closed
  <2>2. <<Request("CDS", kind)>> \in Seq(Reqs)
    BY DEF Request, Type
  <2> QED  BY <1>2, <1>3, <2>1, <2>2, XdsBounds DEF Connect, TypeOK, ResponseSet, busVars
<1>4. ASSUME NEW kind \in {"subscribe", "resume"}, SubscribeListeners(kind)
      PROVE  TypeOK'
  <2>1. Request("LDS", kind) \in Reqs
    BY DEF Request, Type
  <2> QED  BY <1>1, <1>2, <1>4, <2>1 DEF SubscribeListeners, TypeOK, busVars, envoyVars
<1>5. CASE HandleRequest
  <2> DEFINE req == Head(toServer)
             st == [stream EXCEPT !.subscribed = @ \cup {req.type}]
  <2>0. toServer # <<>> /\ toServer' = Tail(toServer)
    BY <1>5 DEF HandleRequest
  <2>1. req \in Reqs /\ toServer' \in Seq(Reqs)
    <3> HIDE DEF st, Reqs
    <3> QED  BY <1>1, <2>0, HeadTailProperties
  <2>2. st \in StreamSet
    BY <1>1, <2>1 DEF StreamSet
  <2>3. sendSnapshotForTypes(st) \/ (stream' = st /\ UNCHANGED toEnvoy)
    BY <1>5 DEF HandleRequest
  <2> HIDE DEF st, req
  <2>4. toEnvoy' \in Seq(ResponseSet) /\ stream' \in StreamSet
    BY <1>1, <2>2, <2>3, SendType
  <2> QED  BY <1>1, <1>2, <1>5, <2>1, <2>4 DEF HandleRequest, TypeOK, busVars, envoyVars
<1>6. ASSUME NEW verdict \in {"ack", "nack"}, Receive(verdict)
      PROVE  TypeOK'
  <2> DEFINE res == Head(toEnvoy)
             e == [accepted |-> IF verdict = "ack" THEN res.config ELSE envoy[res.type].accepted,
                   seen |-> res.config]
  <2>1. res \in ResponseSet /\ toEnvoy' \in Seq(ResponseSet)
    BY <1>1, <1>6 DEF Receive
  <2>2. envoy[res.type] \in [accepted : 0..MaxCommits, seen : 0..MaxCommits]
    BY <2>1 DEF TypeOK, ResponseSet
  <2>3. e \in [accepted : 0..MaxCommits, seen : 0..MaxCommits]
    BY <2>1, <2>2, XdsBounds DEF ResponseSet
  <2>4. Request(res.type, verdict) \in Reqs /\ res.type \in Type
    BY <2>1 DEF Request, ResponseSet
  <2>5. envoy' = [envoy EXCEPT ![res.type] = e] /\ toServer' = Append(toServer, Request(res.type, verdict))
    BY <1>6 DEF Receive
  <2> HIDE DEF e, res
  <2>6. envoy' \in [Type -> [accepted : 0..MaxCommits, seen : 0..MaxCommits]]
        /\ toServer' \in Seq(Reqs)
    BY <1>1, <2>3, <2>4, <2>5 DEF TypeOK
  <2> QED  BY <1>1, <1>2, <1>6, <2>1, <2>6 DEF Receive, TypeOK, busVars
<1>7. CASE Disconnect
  BY <1>1, <1>2, <1>7 DEF Disconnect, TypeOK, busVars, envoyVars
<1>8. CASE (\E success \in BOOLEAN : Commit(success)) \/ CommitBreaks
  <2>1. /\ committed' \in 1..MaxCommits /\ stub' \in {"open", "broken"}
        /\ answered' \in {committed', answered, None}
        /\ UNCHANGED <<toServer, envoyVars, restarts>>
    BY <1>1, <1>8, XdsBounds DEF Commit, CommitBreaks
  <2>2. answered' \in 0..MaxCommits
    BY <2>1, XdsBounds DEF TypeOK, None
  <2>3. CASE Lost
    BY <1>1, <1>2, <2>1, <2>2, <2>3 DEF Lost, TypeOK, envoyVars
  <2>4. CASE updateRoutes(committed', TRUE)
    <3> DEFINE s == [version |-> versionCounter', config |-> committed']
               st == [stream EXCEPT !.latest = s]
    <3>1. versionCounter' \in Nat \ {None} /\ snapshot' = s
      BY <2>4 DEF updateRoutes, setSnapshot, TypeOK, None
    <3>2. s \in SnapshotSet
      BY <2>1, <3>1 DEF SnapshotSet
    <3> HIDE DEF s
    <3>3. st \in StreamSet
      BY <1>1, <3>2 DEF StreamSet
    <3>4. sendSnapshotForTypes(st) \/ UNCHANGED <<stream, toEnvoy>>
      BY <2>4 DEF updateRoutes, setSnapshot, s
    <3> HIDE DEF st
    <3>5. toEnvoy' \in Seq(ResponseSet) /\ stream' \in StreamSet
      BY <1>1, <3>3, <3>4, SendType
    <3> QED  BY <1>1, <1>2, <2>1, <2>2, <3>1, <3>2, <3>5 DEF TypeOK, envoyVars
  <2>5. CASE updateRoutes(committed', FALSE)
    <3>1. versionCounter' \in Nat /\ UNCHANGED <<snapshot, stream, toEnvoy>>
      BY <2>5 DEF updateRoutes, TypeOK
    <3> QED  BY <1>1, <1>2, <2>1, <2>2, <3>1 DEF TypeOK, envoyVars
  <2> QED  BY <1>8, <2>3, <2>4, <2>5 DEF Commit, CommitBreaks
<1>9. CASE CommitUnheard
  BY <1>1, <1>2, <1>9, XdsBounds DEF CommitUnheard, Lost, TypeOK, envoyVars
<1>10. CASE OrchestratorRestarts
  BY <1>1, <1>2, <1>10, XdsBounds DEF OrchestratorRestarts, TypeOK, envoyVars, None
<1>11. CASE ServiceRestarts
  BY <1>1, <1>2, <1>11, XdsBounds DEF ServiceRestarts, TypeOK, envoyVars, None
<1>12. CASE UNCHANGED vars
  BY <1>1, <1>2, <1>12 DEF vars, TypeOK
<1> QED  BY <1>3, <1>4, <1>5, <1>6, <1>7, <1>8, <1>9, <1>10, <1>11, <1>12 DEF Next

\* The parts of the state have their types (Xds!TypeOK), for every bound.
THEOREM TypeCorrect == Spec => []TypeOK
<1> QED  BY TypeInit, TypeStep, PTL DEF Spec

-----------------------------------------------------------------------------
(* The invariant is inductive. *)

LEMMA InvInit == Init => XdsInv
<1> SUFFICES ASSUME Init PROVE XdsInv
  OBVIOUS
<1>1. TypeOK
  BY TypeInit
<1>2. StreamInv /\ SubscriptionInv /\ AgeInv
  BY DEF Init, StreamInv, SubscriptionInv, AgeInv, Closed, NoSnapshot, None
<1>3. QueueInv /\ SentInv /\ ClustersFirst
  BY DEF Init, QueueInv, SentInv, ClustersFirst, Closed
<1> QED  BY <1>1, <1>2, <1>3 DEF XdsInv

\* Numbers in reach of the provers.
LEMMA Numbers ==
  ASSUME TypeOK
  PROVE  /\ committed \in Nat /\ versionCounter \in Nat
         /\ snapshot.config \in Nat /\ snapshot.version \in Nat
         /\ \A t \in Type : envoy[t].seen \in Nat /\ envoy[t].accepted \in Nat
         /\ \A t \in Type : stream.sent[t] \in Nat
         /\ toEnvoy \in Seq(ResponseSet) /\ Len(toEnvoy) \in Nat
         /\ \A i \in 1..Len(toEnvoy) :
              toEnvoy[i].type \in Type /\ toEnvoy[i].config \in Nat \ {0}
         /\ stream \in StreamSet
         /\ snapshot # NoSnapshot => snapshot.version # None /\ snapshot.config # 0
         /\ snapshot = NoSnapshot => snapshot.config = 0
<1>1. toEnvoy \in Seq(ResponseSet) /\ stream \in StreamSet
  BY DEF TypeOK, ResponseSet, StreamSet
<1>2. snapshot \in SnapshotSet
  BY DEF TypeOK
<1>3. \A i \in 1..Len(toEnvoy) : toEnvoy[i] \in ResponseSet
  BY <1>1, ElementOfSeq
<1>4. Len(toEnvoy) \in Nat
  BY <1>1, LenProperties
<1>5. \A t \in Type : envoy[t] \in [accepted : 0..MaxCommits, seen : 0..MaxCommits]
  BY DEF TypeOK
<1>6. /\ committed \in Nat /\ versionCounter \in Nat
      /\ \A t \in Type : stream.sent[t] \in Nat
      /\ \A t \in Type : envoy[t].seen \in Nat /\ envoy[t].accepted \in Nat
  BY <1>1, <1>5, XdsBounds DEF TypeOK, StreamSet
<1> QED  BY <1>1, <1>2, <1>3, <1>4, <1>6, XdsBounds
         DEF SnapshotSet, ResponseSet, NoSnapshot, None

LEMMA HeadOfAppend ==
  ASSUME NEW S, NEW s \in Seq(S), NEW e \in S
  PROVE  Append(s, e) # <<>> /\ (s # <<>> => Head(Append(s, e)) = Head(s))
<1>1. Len(Append(s, e)) = Len(s) + 1 /\ (s # <<>> => Append(s, e)[1] = s[1])
  BY AppendProperties, EmptySeq
<1> QED  BY <1>1, AppendProperties, LenProperties

LEMMA ConnectInv ==
  ASSUME XdsInv, TypeOK', NEW kind \in {"subscribe", "resume"}, Connect(kind)
  PROVE  XdsInv'
<1>1. /\ ~stream.open /\ toEnvoy' = <<>> /\ stream' = [Closed EXCEPT !.open = TRUE, !.latest = snapshot]
      /\ toServer' = <<Request("CDS", kind)>>
      /\ UNCHANGED <<committed, answered, versionCounter, snapshot, envoy>>
  BY DEF Connect, XdsInv, StreamInv, busVars
<1>2. /\ stream'.latest = snapshot /\ stream'.subscribed = {}
      /\ \A t \in Type : stream'.sent[t] = None
      /\ stream'.open
  BY <1>1 DEF Closed
<1>3. StreamInv' /\ SubscriptionInv'
  BY <1>1, <1>2 DEF StreamInv, SubscriptionInv, Request
<1>4. AgeInv'
  BY <1>1 DEF XdsInv, AgeInv
<1>5. QueueInv' /\ ClustersFirst'
  BY <1>1 DEF QueueInv, ClustersFirst
<1>6. SentInv'
  BY <1>1, <1>2 DEF XdsInv, SentInv
<1> QED  BY <1>3, <1>4, <1>5, <1>6 DEF XdsInv

LEMMA SubscribeInv ==
  ASSUME XdsInv, TypeOK', NEW kind \in {"subscribe", "resume"}, SubscribeListeners(kind)
  PROVE  XdsInv'
<1>1. /\ toServer' = Append(toServer, Request("LDS", kind)) /\ stream.open
      /\ UNCHANGED <<busVars, versionCounter, snapshot, stream, toEnvoy, envoyVars>>
  BY DEF SubscribeListeners
<1>2. toServer # <<>> => Head(toServer') = Head(toServer) /\ toServer' # <<>>
  <2> DEFINE Reqs == [type : Type, kind : {"subscribe", "resume", "ack", "nack"}]
  <2>1. toServer \in Seq(Reqs) /\ Request("LDS", kind) \in Reqs
    BY DEF XdsInv, TypeOK, Request, Type
  <2> HIDE DEF Reqs
  <2> QED  BY <1>1, <2>1, HeadOfAppend
<1>3. StreamInv' /\ SubscriptionInv'
  BY <1>1, <1>2 DEF XdsInv, StreamInv, SubscriptionInv
<1>4. AgeInv' /\ QueueInv' /\ ClustersFirst' /\ SentInv'
  BY <1>1 DEF XdsInv, AgeInv, QueueInv, ClustersFirst, SentInv, Reached, busVars, envoyVars
<1> QED  BY <1>3, <1>4 DEF XdsInv

LEMMA HandleRequestInv ==
  ASSUME XdsInv, TypeOK', HandleRequest
  PROVE  XdsInv'
<1> DEFINE req == Head(toServer)
           st == [stream EXCEPT !.subscribed = @ \cup {req.type}]
           Reqs == [type : Type, kind : {"subscribe", "resume", "ack", "nack"}]
<1> USE DEF XdsInv
<1>1. /\ toServer # <<>> /\ toServer' = Tail(toServer)
      /\ IF req.kind = "subscribe" THEN sendSnapshotForTypes(st)
         ELSE stream' = st /\ UNCHANGED toEnvoy
      /\ UNCHANGED <<committed, answered, versionCounter, snapshot, envoy>>
  BY DEF HandleRequest, busVars, envoyVars
<1>2. stream.open /\ stream.latest = snapshot
  BY <1>1 DEF StreamInv
<1>3. req \in Reqs
  <2>1. toServer \in Seq(Reqs)
    BY DEF TypeOK
  <2> HIDE DEF st, Reqs
  <2> QED  BY <1>1, <2>1, HeadTailProperties
<1>4. /\ st \in StreamSet /\ st.open /\ st.latest = snapshot /\ st.sent = stream.sent
      /\ st.subscribed = stream.subscribed \cup {req.type}
  BY <1>2, <1>3, Numbers DEF StreamSet
<1>5. "CDS" \in st.subscribed
  BY <1>2, <1>4 DEF SubscriptionInv
<1> HIDE DEF st, req, Reqs
<1>6. AgeInv'
  BY <1>1 DEF AgeInv
<1>7. CASE req.kind = "subscribe"
  <2>1. sendSnapshotForTypes(st)
    BY <1>1, <1>7
  <2>2. /\ snapshot' # NoSnapshot => \A t \in Type : envoy[t].seen <= snapshot'.config
        /\ snapshot'.config >= snapshot.config
    BY <1>1, Numbers DEF AgeInv
  <2>3. \A t \in Type : st.sent[t] # None =>
           /\ t \in st.subscribed /\ snapshot' # NoSnapshot
           /\ st.sent[t] = snapshot'.version => snapshot' = snapshot /\ Reached(t)
    BY <1>1, <1>2, <1>4 DEF SentInv
  <2>4. /\ QueueInv' /\ ClustersFirst'
        /\ stream'.open /\ stream'.latest = snapshot'
        /\ stream'.subscribed = st.subscribed
        /\ \A t \in Type : stream'.sent[t] # None =>
             /\ t \in st.subscribed /\ snapshot' # NoSnapshot
             /\ stream'.sent[t] = snapshot'.version
             /\ Reached(t)'
    BY <1>1, <1>4, <1>5, <2>1, <2>2, <2>3, Sending
  <2>5. StreamInv' /\ SubscriptionInv' /\ SentInv'
    BY <1>1, <1>5, <2>4 DEF StreamInv, SubscriptionInv, SentInv
  <2> QED  BY <1>6, <2>4, <2>5
<1>8. CASE req.kind # "subscribe"
  <2>1. stream' = st /\ UNCHANGED toEnvoy
    BY <1>1, <1>8
  <2>2. QueueInv' /\ ClustersFirst'
    BY <1>1, <2>1 DEF QueueInv, ClustersFirst
  <2>3. StreamInv' /\ SubscriptionInv'
    BY <1>1, <1>4, <1>5, <2>1 DEF StreamInv, SubscriptionInv
  <2>4. \A t \in Type : Reached(t) => Reached(t)'
    BY <1>1, <2>1 DEF Reached
  <2>5. SentInv'
    BY <1>1, <1>2, <1>4, <2>1, <2>4 DEF SentInv
  <2> QED  BY <1>6, <2>2, <2>3, <2>5
<1> QED  BY <1>7, <1>8

LEMMA ReceiveInv ==
  ASSUME XdsInv, TypeOK', NEW verdict \in {"ack", "nack"}, Receive(verdict)
  PROVE  XdsInv'
<1> USE DEF XdsInv
<1> DEFINE res == Head(toEnvoy)
           n == Len(toEnvoy)
<1>1. /\ toEnvoy # <<>> /\ toEnvoy' = Tail(toEnvoy)
      /\ envoy' = [envoy EXCEPT ![res.type] =
                     [accepted |-> IF verdict = "ack" THEN res.config ELSE @.accepted,
                      seen     |-> res.config]]
      /\ toServer' = Append(toServer, Request(res.type, verdict))
      /\ UNCHANGED <<committed, answered, versionCounter, snapshot, stream>>
  BY DEF Receive, busVars
<1>2. /\ n \in Nat /\ n >= 1 /\ res = toEnvoy[1] /\ Len(toEnvoy') = n - 1
      /\ \A i \in 1..(n - 1) : toEnvoy'[i] = toEnvoy[i + 1] /\ i + 1 \in 1..n
  <2>1. toEnvoy \in Seq(ResponseSet)
    BY Numbers
  <2> QED  BY <1>1, <2>1, HeadTailProperties, LenProperties
<1>3. res.type \in Type /\ res.config \in Nat \ {0}
  BY <1>2, Numbers
<1>4. /\ envoy'[res.type].seen = res.config
      /\ envoy'[res.type].accepted \in {res.config, envoy[res.type].accepted}
      /\ \A t \in Type : t # res.type => envoy'[t] = envoy[t]
  BY <1>1, <1>3 DEF TypeOK
<1>5. /\ envoy[res.type].seen <= res.config /\ res.config <= snapshot.config
  BY <1>2 DEF QueueInv
<1> HIDE DEF res, n
<1>6. StreamInv' /\ SubscriptionInv'
  <2>1. stream.open
    BY <1>1 DEF StreamInv
  <2> DEFINE Reqs == [type : Type, kind : {"subscribe", "resume", "ack", "nack"}]
  <2>2. toServer # <<>> => Head(toServer') = Head(toServer) /\ toServer' # <<>>
    <3>1. toServer \in Seq(Reqs) /\ Request(res.type, verdict) \in Reqs
      BY <1>3 DEF TypeOK, Request
    <3> HIDE DEF Reqs
    <3> QED  BY <1>1, <3>1, HeadOfAppend
  <2> QED  BY <1>1, <2>1, <2>2 DEF StreamInv, SubscriptionInv
<1>7. AgeInv'
  <2>1. \A t \in Type :
          /\ envoy'[t].accepted <= envoy'[t].seen /\ envoy'[t].seen <= committed
          /\ snapshot # NoSnapshot => envoy'[t].seen <= snapshot.config
    <3> TAKE t \in Type
    <3>1. CASE t # res.type
      BY <1>4, <3>1 DEF AgeInv
    <3>2. CASE t = res.type
      <4>1. /\ res.config \in Nat /\ snapshot.config \in Nat /\ committed \in Nat
            /\ envoy[t].accepted \in Nat /\ envoy[t].seen \in Nat
        BY <1>3, Numbers
      <4>2. envoy[t].accepted <= envoy[t].seen /\ snapshot.config <= committed
        BY DEF AgeInv
      <4> QED  BY <1>4, <1>5, <3>2, <4>1, <4>2
    <3> QED  BY <3>1, <3>2
  <2> QED  BY <1>1, <2>1 DEF AgeInv
<1>8. QueueInv'
  <2>1. ASSUME NEW i \in 1..(n - 1)
        PROVE  /\ toEnvoy'[i].config <= snapshot.config
               /\ envoy'[toEnvoy'[i].type].seen <= toEnvoy'[i].config
    <3>1. toEnvoy'[i] = toEnvoy[i + 1] /\ i + 1 \in 1..n /\ toEnvoy[i + 1].type \in Type
      BY <1>2, Numbers DEF n
    <3>2. toEnvoy[i + 1].config <= snapshot.config
          /\ envoy[toEnvoy[i + 1].type].seen <= toEnvoy[i + 1].config
      BY <3>1 DEF QueueInv, n
    <3>3. toEnvoy[i + 1].type = res.type => res.config <= toEnvoy[i + 1].config
      BY <1>2, <3>1 DEF QueueInv, n
    <3> QED  BY <1>4, <3>1, <3>2, <3>3
  <2>2. ASSUME NEW i \in 1..(n - 1), NEW j \in 1..(n - 1), i <= j,
               toEnvoy'[i].type = toEnvoy'[j].type
        PROVE  toEnvoy'[i].config <= toEnvoy'[j].config
    BY <1>2, <2>2 DEF QueueInv, n
  <2> QED  BY <1>1, <1>2, <2>1, <2>2 DEF QueueInv
<1>9. \A t \in Type : snapshot # NoSnapshot /\ Reached(t) => Reached(t)'
  <2> SUFFICES ASSUME NEW t \in Type, snapshot # NoSnapshot, Reached(t) PROVE Reached(t)'
    OBVIOUS
  <2>1. CASE envoy[t].seen = snapshot.config
    <3>1. envoy'[t].seen = snapshot.config
      BY <1>3, <1>4, <1>5, <2>1, Numbers
    <3> QED  BY <1>1, <3>1 DEF Reached
  <2>2. CASE \E i \in 1..n : toEnvoy[i].type = t /\ toEnvoy[i].config = snapshot.config
    <3>1. PICK i \in 1..n : toEnvoy[i].type = t /\ toEnvoy[i].config = snapshot.config
      BY <2>2
    <3>2. CASE i = 1
      BY <1>1, <1>2, <1>4, <3>1, <3>2 DEF Reached
    <3>3. CASE i # 1
      <4>1. i - 1 \in 1..(n - 1) /\ toEnvoy'[i - 1] = toEnvoy[i]
        BY <1>2, <3>3
      <4> QED  BY <1>1, <1>2, <3>1, <4>1 DEF Reached
    <3> QED  BY <3>2, <3>3
  <2> QED  BY <2>1, <2>2 DEF Reached, n
<1>10. SentInv'
  BY <1>1, <1>9 DEF SentInv
<1>11. ClustersFirst'
  <2> SUFFICES ASSUME NEW i \in 1..(n - 1), toEnvoy'[i].type = "LDS"
               PROVE  \/ envoy'["CDS"].seen >= toEnvoy'[i].config
                      \/ \E j \in 1..(i - 1) :
                           toEnvoy'[j].type = "CDS" /\ toEnvoy'[j].config >= toEnvoy'[i].config
    BY <1>2 DEF ClustersFirst
  <2>1. i + 1 \in 1..n /\ toEnvoy'[i] = toEnvoy[i + 1] /\ toEnvoy[i + 1].type = "LDS"
    BY <1>2
  <2>2. toEnvoy[i + 1].config \in Nat /\ envoy["CDS"].seen \in Nat /\ "CDS" \in Type
    BY <2>1, Numbers DEF n, Type
  <2>3. CASE envoy["CDS"].seen >= toEnvoy[i + 1].config
    <3>1. envoy'["CDS"].seen >= envoy["CDS"].seen
      BY <1>3, <1>4, <1>5, <2>2
    <3>2. envoy'["CDS"].seen \in Nat
      BY <1>3, <1>4, <2>2
    <3> QED  BY <2>1, <2>2, <2>3, <3>1, <3>2
  <2>4. CASE \E j \in 1..i : toEnvoy[j].type = "CDS" /\ toEnvoy[j].config >= toEnvoy[i + 1].config
    <3>1. PICK j \in 1..i : toEnvoy[j].type = "CDS" /\ toEnvoy[j].config >= toEnvoy[i + 1].config
      BY <2>4
    <3>2. CASE j = 1
      BY <1>2, <1>4, <2>1, <3>1, <3>2
    <3>3. CASE j # 1
      <4>1. j - 1 \in 1..(i - 1) /\ toEnvoy'[j - 1] = toEnvoy[j]
        BY <1>2, <3>3
      <4> QED  BY <2>1, <3>1, <4>1
    <3> QED  BY <3>2, <3>3
  <2>5. (i + 1) - 1 = i
    OBVIOUS
  <2> QED  BY <2>1, <2>3, <2>4, <2>5 DEF ClustersFirst, n
<1> QED  BY <1>6, <1>7, <1>8, <1>10, <1>11

LEMMA DisconnectInv ==
  ASSUME XdsInv, TypeOK', Disconnect
  PROVE  XdsInv'
<1>1. /\ ~stream'.open /\ toEnvoy' = <<>> /\ toServer' = <<>>
      /\ UNCHANGED <<committed, answered, versionCounter, snapshot, envoy>>
  BY DEF Disconnect, Closed, busVars, envoyVars
<1> QED  BY <1>1 DEF XdsInv, StreamInv, SubscriptionInv, AgeInv, QueueInv, SentInv, ClustersFirst

\* A configuration that did not reach the service, or that it refused.
LEMMA UntakenInv ==
  ASSUME XdsInv, TypeOK', committed' = committed + 1,
         UNCHANGED <<snapshot, stream, toEnvoy, toServer, envoy>>,
         versionCounter' \in {versionCounter, versionCounter + 1},
         answered' \in {answered, None}
  PROVE  XdsInv'
<1> USE DEF XdsInv
<1>1. StreamInv' /\ SubscriptionInv' /\ QueueInv' /\ ClustersFirst'
  BY DEF StreamInv, SubscriptionInv, QueueInv, ClustersFirst
<1>2. AgeInv'
  BY Numbers DEF AgeInv
<1>3. \A t \in Type : Reached(t) => Reached(t)'
  BY DEF Reached
<1>4. snapshot # NoSnapshot => snapshot.version <= versionCounter'
  BY Numbers DEF SentInv
<1>5. SentInv'
  BY <1>3, <1>4 DEF SentInv
<1> QED  BY <1>1, <1>2, <1>5

\* A configuration that the service takes.
LEMMA TakenInv ==
  ASSUME XdsInv, TypeOK', committed' = committed + 1, UNCHANGED <<toServer, envoy>>,
         updateRoutes(committed', TRUE), answered' \in {committed', None}
  PROVE  XdsInv'
<1> USE DEF XdsInv
<1> DEFINE s == [version |-> versionCounter', config |-> committed']
           st == [stream EXCEPT !.latest = s]
<1>1. versionCounter' = versionCounter + 1 /\ setSnapshot(s)
  BY DEF updateRoutes
<1>2. /\ snapshot' = s
      /\ IF stream.open THEN sendSnapshotForTypes(st) ELSE UNCHANGED <<stream, toEnvoy>>
  BY <1>1 DEF setSnapshot
<1>3. snapshot'.version = versionCounter + 1 /\ snapshot'.config = committed + 1
      /\ snapshot' # NoSnapshot /\ snapshot' \in SnapshotSet
  BY <1>1, <1>2, Numbers DEF NoSnapshot, None, TypeOK
<1> HIDE DEF s
<1>4. AgeInv'
  BY <1>3, Numbers DEF AgeInv
<1>5. CASE stream.open
  <2>1. /\ st \in StreamSet /\ st.open /\ st.latest = snapshot' /\ st.sent = stream.sent
        /\ st.subscribed = stream.subscribed
    BY <1>2, <1>3, <1>5, Numbers DEF StreamSet
  <2> HIDE DEF st
  <2>2. sendSnapshotForTypes(st) /\ UNCHANGED envoy
    BY <1>2, <1>5
  <2>3. /\ \A t \in Type : envoy[t].seen <= snapshot'.config
        /\ snapshot'.config >= snapshot.config
    BY <1>3, Numbers DEF AgeInv
  <2>4. "LDS" \in st.subscribed => "CDS" \in st.subscribed
    BY <1>5, <2>1 DEF SubscriptionInv
  <2>5. \A t \in Type : st.sent[t] # None =>
           /\ t \in st.subscribed /\ snapshot' # NoSnapshot
           /\ st.sent[t] # snapshot'.version
    BY <1>3, <1>5, <2>1, Numbers DEF SentInv
  <2>6. /\ QueueInv' /\ ClustersFirst'
        /\ stream'.open /\ stream'.latest = snapshot'
        /\ stream'.subscribed = st.subscribed
        /\ \A t \in Type : stream'.sent[t] # None =>
             /\ t \in st.subscribed /\ snapshot' # NoSnapshot
             /\ stream'.sent[t] = snapshot'.version
             /\ Reached(t)'
    BY <2>1, <2>2, <2>3, <2>4, <2>5, Sending
  <2>7. snapshot'.version <= versionCounter'
    BY <1>1, <1>3, Numbers
  <2>8. StreamInv' /\ SubscriptionInv' /\ SentInv'
    BY <1>5, <2>1, <2>6, <2>7 DEF StreamInv, SubscriptionInv, SentInv
  <2> QED  BY <1>4, <2>6, <2>8
<1>6. CASE ~stream.open
  <2>1. UNCHANGED <<stream, toEnvoy, toServer>> /\ toEnvoy = <<>>
    BY <1>2, <1>6 DEF StreamInv
  <2>2. snapshot'.version <= versionCounter'
    BY <1>1, <1>3, Numbers
  <2> QED  BY <1>3, <1>4, <1>6, <2>1, <2>2
           DEF StreamInv, SubscriptionInv, QueueInv, ClustersFirst, SentInv
<1> QED  BY <1>5, <1>6

LEMMA CommitInv ==
  ASSUME XdsInv, TypeOK', (\E success \in BOOLEAN : Commit(success)) \/ CommitBreaks
  PROVE  XdsInv'
<1>1. committed' = committed + 1 /\ UNCHANGED <<toServer, envoy>>
  BY DEF Commit, CommitBreaks, envoyVars
<1>2. CASE updateRoutes(committed', TRUE) /\ answered' \in {committed', None}
  BY <1>1, <1>2, TakenInv
<1>3. CASE updateRoutes(committed', FALSE) /\ answered' \in {answered, None}
  <2>1. UNCHANGED <<snapshot, stream, toEnvoy>>
        /\ versionCounter' \in {versionCounter, versionCounter + 1}
    BY <1>3 DEF updateRoutes
  <2> QED  BY <1>1, <1>3, <2>1, UntakenInv
<1>4. CASE Lost /\ answered' = None
  BY <1>1, <1>4, UntakenInv DEF Lost
<1> QED  BY <1>2, <1>3, <1>4 DEF Commit, CommitBreaks

LEMMA InvStep == XdsInv /\ [Next]_vars => XdsInv'
<1> SUFFICES ASSUME XdsInv, [Next]_vars PROVE XdsInv'
  OBVIOUS
<1>1. TypeOK'
  BY TypeStep DEF XdsInv
<1>2. ASSUME NEW kind \in {"subscribe", "resume"}, Connect(kind) \/ SubscribeListeners(kind)
      PROVE  XdsInv'
  BY <1>1, <1>2, ConnectInv, SubscribeInv
<1>3. CASE HandleRequest
  BY <1>1, <1>3, HandleRequestInv
<1>4. ASSUME NEW verdict \in {"ack", "nack"}, Receive(verdict)
      PROVE  XdsInv'
  BY <1>1, <1>4, ReceiveInv
<1>5. CASE Disconnect
  BY <1>1, <1>5, DisconnectInv
<1>6. CASE (\E success \in BOOLEAN : Commit(success)) \/ CommitBreaks
  BY <1>1, <1>6, CommitInv
<1>7. CASE CommitUnheard
  BY <1>1, <1>7, UntakenInv DEF CommitUnheard, Lost, envoyVars
<1>8. CASE OrchestratorRestarts
  <2>1. /\ answered' = None
        /\ UNCHANGED <<committed, versionCounter, snapshot, stream, toEnvoy, toServer, envoy>>
    BY <1>8 DEF OrchestratorRestarts, envoyVars
  <2> QED  BY <1>1, <2>1
           DEF XdsInv, StreamInv, SubscriptionInv, AgeInv, QueueInv, ClustersFirst, SentInv, Reached
<1>9. CASE ServiceRestarts
  <2>1. /\ snapshot' = NoSnapshot /\ ~stream'.open /\ toEnvoy' = <<>> /\ toServer' = <<>>
        /\ answered' = None /\ UNCHANGED <<committed, envoy>>
    BY <1>9 DEF ServiceRestarts, Closed, envoyVars
  <2>2. AgeInv'
    BY <2>1, Numbers DEF XdsInv, AgeInv, NoSnapshot, None
  <2> QED  BY <1>1, <2>1, <2>2
           DEF XdsInv, StreamInv, SubscriptionInv, QueueInv, ClustersFirst, SentInv
<1>10. CASE UNCHANGED vars
  BY <1>1, <1>10
     DEF vars, XdsInv, StreamInv, SubscriptionInv, AgeInv, QueueInv, ClustersFirst, SentInv, Reached
<1> QED  BY <1>2, <1>3, <1>4, <1>5, <1>6, <1>7, <1>8, <1>9, <1>10 DEF Next

-----------------------------------------------------------------------------
(* The results. *)

\* Envoy gets clusters before the listeners that refer to them
\* (Xds!ClustersFirst), whatever is rejected, lost or restarted.
THEOREM ClustersComeFirst == Spec => []ClustersFirst
<1>1. XdsInv => ClustersFirst
  BY DEF XdsInv
<1> QED  BY <1>1, InvInit, InvStep, PTL DEF Spec

\* With the stub unbroken and nothing under way, Envoy was shown the last
\* configuration that the envoy service took (Xds!EnvoyFollows): those that it
\* refused before or since are not shown and keep none from being shown.
THEOREM EnvoyIsFed == Spec => []EnvoyFollows
<1>1. XdsInv => EnvoyFollows
  <2> SUFFICES ASSUME XdsInv, Settled, answered # None,
                      NEW t \in stream.subscribed, stream.sent[t] # None
               PROVE  envoy[t].seen = answered
    BY DEF EnvoyFollows
  <2>1. t \in Type
    BY Numbers DEF XdsInv, StreamSet
  <2>2. Reached(t) /\ toEnvoy = <<>> /\ snapshot.config = answered
    BY <2>1 DEF XdsInv, Settled, SentInv, AgeInv
  <2> QED  BY <2>2 DEF Reached
<1> QED  BY <1>1, InvInit, InvStep, PTL DEF Spec

\* The protocol implements Feed: the listeners that Envoy serves were committed
\* and never go back to an earlier configuration (Xds!ListenersNeverOlder).
THEOREM ImplementsFeed == Spec => ListenersNeverOlder
<1>1. Init => Listeners!Init
  BY DEF Init, Listeners!Init, Type, None
<1>2. XdsInv /\ [Next]_vars => [Listeners!Next]_(Listeners!vars)
  <2> SUFFICES ASSUME XdsInv, [Next]_vars PROVE [Listeners!Next]_(Listeners!vars)
    OBVIOUS
  <2> USE DEF Listeners!Next, Listeners!Publish, Listeners!Show, Listeners!vars
  <2>1. CASE UNCHANGED <<committed, envoy>>
    BY <2>1
  <2>2. CASE committed' = committed + 1 /\ UNCHANGED envoy
    BY <2>2
  <2>3. ASSUME NEW verdict \in {"ack", "nack"}, Receive(verdict)
        PROVE  [Listeners!Next]_(Listeners!vars)
    <3> DEFINE res == Head(toEnvoy)
    <3>1. /\ toEnvoy # <<>> /\ UNCHANGED committed
          /\ envoy' = [envoy EXCEPT ![res.type] =
                         [accepted |-> IF verdict = "ack" THEN res.config ELSE @.accepted,
                          seen     |-> res.config]]
      BY <2>3 DEF Receive, busVars
    <3>2. 1 \in 1..Len(toEnvoy) /\ res = toEnvoy[1]
      BY <3>1, Numbers, EmptySeq DEF XdsInv
    <3>3. /\ res.type \in Type /\ res.config \in Nat /\ res.config <= snapshot.config
          /\ envoy[res.type].seen <= res.config
      BY <3>2, Numbers DEF XdsInv, QueueInv
    <3>4. res.config <= committed /\ envoy[res.type].accepted <= res.config
      BY <3>3, Numbers DEF XdsInv, AgeInv
    <3> HIDE DEF res
    <3>5. envoy'["LDS"].accepted = envoy["LDS"].accepted
          \/ (res.type = "LDS" /\ envoy'["LDS"].accepted = res.config)
      <4>1. envoy \in [Type -> [accepted : 0..MaxCommits, seen : 0..MaxCommits]] /\ "LDS" \in Type
        BY DEF XdsInv, TypeOK, Type
      <4>2. CASE res.type # "LDS"
        BY <3>1, <3>3, <4>1, <4>2
      <4>3. CASE res.type = "LDS"
        <5>1. envoy'["LDS"].accepted =
                IF verdict = "ack" THEN res.config ELSE envoy["LDS"].accepted
          BY <3>1, <4>1, <4>3
        <5> QED  BY <4>3, <5>1
      <4> QED  BY <4>2, <4>3
    <3>6. envoy["LDS"].accepted \in Nat /\ committed \in Nat
      BY Numbers DEF XdsInv, Type
    <3>7. CASE envoy'["LDS"].accepted = envoy["LDS"].accepted
      BY <3>1, <3>7
    <3>8. CASE envoy'["LDS"].accepted # envoy["LDS"].accepted
      <4>1. envoy'["LDS"].accepted \in (envoy["LDS"].accepted + 1)..committed
        BY <3>3, <3>4, <3>5, <3>6, <3>8
      <4> QED  BY <3>1, <4>1
    <3> QED  BY <3>7, <3>8
  <2>4. CASE UNCHANGED vars
    BY <2>1, <2>4 DEF vars
  <2>5. CASE \E kind \in {"subscribe", "resume"} : Connect(kind) \/ SubscribeListeners(kind)
    BY <2>1, <2>5 DEF Connect, SubscribeListeners, busVars, envoyVars
  <2>6. CASE HandleRequest \/ Disconnect \/ OrchestratorRestarts \/ ServiceRestarts
    BY <2>1, <2>6
       DEF HandleRequest, Disconnect, OrchestratorRestarts, ServiceRestarts, busVars, envoyVars
  <2>7. CASE (\E success \in BOOLEAN : Commit(success)) \/ CommitBreaks
    BY <2>2, <2>7 DEF Commit, CommitBreaks, envoyVars
  <2>8. CASE CommitUnheard
    BY <2>2, <2>8 DEF CommitUnheard, envoyVars
  <2> QED  BY <2>3, <2>4, <2>5, <2>6, <2>7, <2>8 DEF Next
<1> QED  BY <1>1, <1>2, InvInit, InvStep, PTL DEF Spec, ListenersNeverOlder, Listeners!Spec


-----------------------------------------------------------------------------
(* Ports: what a plan's routes and changes are made of.                    *)

LocalTypes == {"LocalRouteCreate", "LocalRouteDelete", "LocalRouteHealthUpdate"}

\* Where the learned routes after an action come from.
Sources(t, act) ==
  t.routes \cup {MarkStale(r) : r \in t.routes}
    \cup (IF act.type = "InternalProtocolUpdate"
          THEN {Learned(act.peer, i) : i \in act.items} ELSE {})

\* What a plan announces as added or updated is in its table.
Announced(t, chs) ==
  \A c \in chs : c.type # "removed" =>
    IF isInternalRoute(c.route) THEN c.route \in t.routes
    ELSE c.route.name \in Name /\ t.local[c.route.name] = c.route.data

LEMMA InternalFields ==
  /\ \A r \in InternalRoute : isInternalRoute(r)
  /\ \A r \in LocalRoute : ~isInternalRoute(r)
BY DEF InternalRoute, LocalRoute, isInternalRoute

LEMMA SourcesTyped ==
  ASSUME NEW t \in Table, NEW act \in Action
  PROVE  Sources(t, act) \subseteq InternalRoute
<1>1. t.routes \subseteq InternalRoute
  BY DEF Table
<1>2. \A r \in InternalRoute : MarkStale(r) \in InternalRoute
  BY DEF InternalRoute, MarkStale
<1>3. act.type = "InternalProtocolUpdate" =>
        \A i \in act.items : Learned(act.peer, i) \in InternalRoute
  BY ActionFields DEF UpdateItem, Learned, InternalRoute
<1> QED
  BY <1>1, <1>2, <1>3 DEF Sources

\* A plan that touches no local route.
Elsewhere(t, act, plan) ==
  /\ plan.table.local = t.local
  /\ plan.table.routes \subseteq Sources(t, act)
  /\ \A c \in plan.changes : c.route \in Sources(t, act)
  /\ \A c \in plan.changes : c.type # "removed" => c.route \in plan.table.routes

LEMMA NoChangeElsewhere ==
  ASSUME NEW t, NEW act
  PROVE  Elsewhere(t, act, NoChange(t))
BY DEF Elsewhere, NoChange, Sources

LEMMA ChangedElsewhere ==
  ASSUME NEW t, NEW act, NEW u, NEW chs,
         u.local = t.local, u.routes \subseteq Sources(t, act),
         \A c \in chs : c.route \in Sources(t, act),
         \A c \in chs : c.type # "removed" => c.route \in u.routes
  PROVE  Elsewhere(t, act, Changed(u, chs))
BY DEF Elsewhere, Changed

LEMMA LearnedPlans ==
  ASSUME NEW self, NEW t \in Table, NEW act \in Action, act.type \notin LocalTypes, NEW at
  PROVE  Elsewhere(t, act, Plan(self, t, act, at))
<1> DEFINE plan == Plan(self, t, act, at)
<1>0. t = [peers |-> t.peers, local |-> t.local, routes |-> t.routes]
  BY DEF Table
<1>1. CASE act.type = "LocalPeerCreate"
  <2>1. plan = PlanLocalPeerCreate(t, act.peer, act.info)
    BY <1>1, PlanCases
  <2> QED
    BY <1>0, <2>1, NoChangeElsewhere, ChangedElsewhere DEF PlanLocalPeerCreate, Sources
<1>2. CASE act.type = "LocalPeerUpdate"
  <2>1. plan = PlanLocalPeerUpdate(t, act.peer, act.info)
    BY <1>2, PlanCases
  <2> QED
    BY <1>0, <2>1, NoChangeElsewhere, ChangedElsewhere DEF PlanLocalPeerUpdate, Sources
<1>3. CASE act.type = "LocalPeerDelete"
  <2>1. plan = PlanLocalPeerDelete(t, act.peer)
    BY <1>3, PlanCases
  <2> DEFINE lost == RoutesVia(t, act.peer)
             chs == Announce("removed", lost)
             u == [t EXCEPT !.peers[act.peer] = AbsentPeer, !.routes = @ \ lost]
  <2>2. u.local = t.local /\ u.routes = t.routes \ lost /\ lost \subseteq t.routes
    BY <1>0 DEF RoutesVia
  <2>3. \A c \in chs : c.route \in lost /\ c.type = "removed"
    BY DEF Announce
  <2>4. plan = NoChange(t) \/ plan = Changed(u, chs)
    BY <2>1 DEF PlanLocalPeerDelete
  <2> HIDE DEF u, chs, lost
  <2> QED
    BY <2>2, <2>3, <2>4, NoChangeElsewhere, ChangedElsewhere DEF Sources
<1>4. CASE act.type = "InternalProtocolOpen"
  <2>1. plan = PlanInternalProtocolOpen(t, act.peer, act.hold, at)
    BY <1>4, PlanCases
  <2> DEFINE u == [t EXCEPT
         !.peers[act.peer].status = "connected",
         !.peers[act.peer].hold = IF act.hold = NoHold THEN @ ELSE MinOf(@, act.hold),
         !.peers[act.peer].lastReceived = at]
  <2>2. u.local = t.local /\ u.routes = t.routes
    BY <1>0
  <2>3. plan = NoChange(t) \/ plan = Changed(u, {})
    BY <2>1 DEF PlanInternalProtocolOpen
  <2> HIDE DEF u
  <2> QED
    BY <2>2, <2>3, NoChangeElsewhere, ChangedElsewhere DEF Sources
<1>5. CASE act.type = "InternalProtocolConnected"
  <2>1. plan = PlanInternalProtocolConnected(t, act.peer, at)
    BY <1>5, PlanCases
  <2> DEFINE u == [t EXCEPT
         !.peers[act.peer].status = "connected",
         !.peers[act.peer].hold = DefaultHold,
         !.peers[act.peer].lastReceived = at]
  <2>2. u.local = t.local /\ u.routes = t.routes
    BY <1>0
  <2>3. plan = NoChange(t) \/ plan = Changed(u, {})
    BY <2>1 DEF PlanInternalProtocolConnected
  <2> HIDE DEF u
  <2> QED
    BY <2>2, <2>3, NoChangeElsewhere, ChangedElsewhere DEF Sources
<1>6. CASE act.type = "InternalProtocolKeepalive"
  <2>1. plan = PlanInternalProtocolKeepalive(t, act.peer, at)
    BY <1>6, PlanCases
  <2> QED
    BY <1>0, <2>1, NoChangeElsewhere, ChangedElsewhere
       DEF PlanInternalProtocolKeepalive, Sources
<1>7. CASE act.type = "InternalProtocolClose"
  <2>1. plan = PlanInternalProtocolClose(t, act.peer, act.code)
    BY <1>7, PlanCases
  <2> DEFINE lost == RoutesVia(t, act.peer)
             kept == IF act.code = "TRANSPORT_ERROR" THEN {MarkStale(r) : r \in lost} ELSE {}
             u == [t EXCEPT !.peers[act.peer].status = "closed",
                            !.routes = (@ \ lost) \cup kept]
             chs == IF act.code = "TRANSPORT_ERROR" THEN Announce("updated", kept)
                    ELSE Announce("removed", lost)
  <2>2. lost \subseteq t.routes
    BY DEF RoutesVia
  <2>3. kept \subseteq Sources(t, act) /\ lost \subseteq Sources(t, act)
    BY <2>2 DEF Sources
  <2>4. u.local = t.local /\ u.routes = (t.routes \ lost) \cup kept
    BY <1>0
  <2>5. /\ u.routes \subseteq Sources(t, act)
        /\ \A c \in chs : c.route \in Sources(t, act)
        /\ \A c \in chs : c.type # "removed" => c.route \in u.routes
    <3> HIDE DEF lost, kept, u
    <3> QED BY <2>3, <2>4 DEF Announce, Sources
  <2>6. plan = NoChange(t) \/ plan = Changed(u, chs)
    BY <2>1 DEF PlanInternalProtocolClose
  <2> HIDE DEF u, chs
  <2> QED
    BY <2>4, <2>5, <2>6, NoChangeElsewhere, ChangedElsewhere
<1>8. CASE act.type = "InternalProtocolUpdate"
  <2>1. plan = PlanInternalProtocolUpdate(self, t, act.peer, act.items, at)
    BY <1>8, PlanCases
  <2> DEFINE chs == UpdateChanges(self, t.routes, act.peer, act.items)
             new == {Learned(act.peer, i) : i \in Accepted(self, t.routes, act.items)}
             u == [t EXCEPT
                     !.routes = (@ \ Replaced(self, t.routes, act.items)) \cup new,
                     !.peers[act.peer].lastReceived = IF Known(t, act.peer) THEN at ELSE @]
  <2>2. new \subseteq Sources(t, act)
    BY <1>8 DEF Accepted, Sources
  <2>3. \A c \in chs : c.route \in new \/ (c.type = "removed" /\ c.route \in t.routes)
    <3> DEFINE acc == Accepted(self, t.routes, act.items)
               fresh == {i \in acc : ~\E r \in t.routes : SameKey(r, i)}
               added == Announce("added", {Learned(act.peer, i) : i \in fresh})
               updated == Announce("updated", {Learned(act.peer, i) : i \in acc \ fresh})
               removed == Announce("removed", Withdrawn(t.routes, act.items))
    <3>1. chs = added \cup updated \cup removed
      BY DEF UpdateChanges
    <3>2. \A c \in removed : c.type = "removed" /\ c.route \in t.routes
      BY DEF Withdrawn, Announce
    <3>3. \A c \in added : c.route \in new
      BY DEF Announce
    <3>4. \A c \in updated : c.route \in new
      BY DEF Announce
    <3> HIDE DEF chs, added, updated, removed, new
    <3> QED
      BY <3>1, <3>2, <3>3, <3>4
  <2>4. u.local = t.local
        /\ u.routes = (t.routes \ Replaced(self, t.routes, act.items)) \cup new
    BY <1>0
  <2>5. plan = NoChange(t) \/ plan = Changed(u, chs)
    BY <2>1 DEF PlanInternalProtocolUpdate
  <2> HIDE DEF u, chs, new
  <2>6. /\ u.routes \subseteq Sources(t, act)
        /\ \A c \in chs : c.route \in Sources(t, act)
        /\ \A c \in chs : c.type # "removed" => c.route \in u.routes
    BY <2>2, <2>3, <2>4 DEF Sources
  <2> QED
    BY <2>4, <2>5, <2>6, NoChangeElsewhere, ChangedElsewhere
<1>9. CASE act.type = "Tick"
  <2>1. plan = PlanTick(t, act.at)
    BY <1>9, PlanCases
  <2> DEFINE expired == Expired(t, act.at)
             gone == {r \in t.routes : r.peer \in expired \cup GraceOver(t, act.at)}
             chs == Announce("removed", gone)
             u == [t EXCEPT
                     !.peers = [p \in Node |->
                       IF p \in expired THEN [t.peers[p] EXCEPT !.status = "closed"]
                       ELSE t.peers[p]],
                     !.routes = @ \ gone]
  <2>2. u.local = t.local /\ u.routes = t.routes \ gone /\ gone \subseteq t.routes
    BY <1>0
  <2>3. \A c \in chs : c.route \in gone /\ c.type = "removed"
    BY DEF Announce
  <2>4. plan = NoChange(t) \/ plan = Changed(u, chs)
    BY <2>1 DEF PlanTick
  <2> HIDE DEF u, chs, gone
  <2> QED
    BY <2>2, <2>3, <2>4, NoChangeElsewhere, ChangedElsewhere DEF Sources
<1> QED
  BY <1>1, <1>2, <1>3, <1>4, <1>5, <1>6, <1>7, <1>8, <1>9, ActionTypes DEF LocalTypes

\* A plan for one local route.
Locally(t, act, plan) ==
  /\ act.name \in Name /\ plan.table.routes = t.routes
  /\ \A n \in Name : n # act.name => plan.table.local[n] = t.local[n]
  /\ act.type = "LocalRouteCreate" =>
       plan.table.local[act.name] \in {t.local[act.name], act.data}
  /\ act.type = "LocalRouteDelete" => plan.table.local[act.name] = NoRoute
  /\ \/ plan.changes = {}
     \/ \E type \in {"added", "updated"} :
          /\ plan.changes = Announce(type, {AsLocal(act.name, act.data)})
          /\ plan.table.local[act.name] = act.data
     \/ /\ plan.changes = Announce("removed", {AsLocal(act.name, t.local[act.name])})
        /\ plan.table.local[act.name] = NoRoute

LEMMA LocalPlans ==
  ASSUME NEW self, NEW t \in Table, NEW act \in Action, act.type \in LocalTypes, NEW at
  PROVE  Locally(t, act, Plan(self, t, act, at))
<1> DEFINE plan == Plan(self, t, act, at)
<1>0. t = [peers |-> t.peers, local |-> t.local, routes |-> t.routes]
  BY DEF Table
<1>1. t.local \in [Name -> Data \cup {NoRoute}]
  BY DEF Table
<1>5. act.name \in Name
  BY ActionFields DEF LocalTypes
<1> USE DEF Changed, NoChange
<1>2. CASE act.type = "LocalRouteCreate"
  <2>1. plan = PlanLocalRouteCreate(t, act.name, act.data)
    BY <1>2, PlanCases
  <2> QED
    BY <1>0, <1>1, <1>5, <1>2, <2>1 DEF PlanLocalRouteCreate, Locally
<1>3. CASE act.type = "LocalRouteDelete"
  <2>1. plan = PlanLocalRouteDelete(t, act.name)
    BY <1>3, PlanCases
  <2> QED
    BY <1>0, <1>1, <1>5, <1>3, <2>1 DEF PlanLocalRouteDelete, Locally
<1>4. CASE act.type = "LocalRouteHealthUpdate"
  <2>1. plan = PlanLocalRouteHealthUpdate(t, act.name, act.data)
    BY <1>4, PlanCases
  <2> QED
    BY <1>0, <1>1, <1>5, <1>4, <2>1 DEF PlanLocalRouteHealthUpdate, Locally
<1> QED
  BY <1>2, <1>3, <1>4 DEF LocalTypes

LEMMA PlanAnnounces ==
  ASSUME NEW self, NEW t \in Table, NEW act \in Action, NEW at
  PROVE  Announced(Plan(self, t, act, at).table, Plan(self, t, act, at).changes)
<1>1. CASE act.type \in LocalTypes
  <2>1. ~isInternalRoute(AsLocal(act.name, act.data))
    BY DEF AsLocal, isInternalRoute
  <2> QED
    BY <1>1, <2>1, LocalPlans DEF Locally, Announced, Announce, AsLocal
<1>2. CASE act.type \notin LocalTypes
  BY <1>2, LearnedPlans, SourcesTyped, InternalFields DEF Announced, Elsewhere
<1> QED
  BY <1>1, <1>2

LEMMA ImageIsFinite ==
  ASSUME NEW f, IsFiniteSet(DOMAIN f)
  PROVE  IsFiniteSet({f[x] : x \in DOMAIN f})
<1> DEFINE S == DOMAIN f
           T == {f[x] : x \in S}
           g == [x \in S |-> f[x]]
<1>1. g \in Surjection(S, T)
  BY DEF Surjection
<1> QED
  BY <1>1, FS_Surjection

LEMMA SourcesFinite ==
  ASSUME NEW t, IsFiniteSet(t.routes), NEW act,
         act.type = "InternalProtocolUpdate" => IsFiniteSet(act.items)
  PROVE  IsFiniteSet(Sources(t, act))
<1> DEFINE f == [r \in t.routes |-> MarkStale(r)]
           g == [i \in act.items |-> Learned(act.peer, i)]
<1>1. IsFiniteSet({f[x] : x \in DOMAIN f})
  BY ImageIsFinite
<1>2. IsFiniteSet({MarkStale(r) : r \in t.routes})
  <2>1. {f[x] : x \in DOMAIN f} = {MarkStale(r) : r \in t.routes}
    OBVIOUS
  <2> QED BY <1>1, <2>1
<1>3. act.type = "InternalProtocolUpdate" =>
        IsFiniteSet({Learned(act.peer, i) : i \in act.items})
  <2>1. {g[x] : x \in DOMAIN g} = {Learned(act.peer, i) : i \in act.items}
    OBVIOUS
  <2>2. act.type = "InternalProtocolUpdate" => IsFiniteSet({g[x] : x \in DOMAIN g})
    BY ImageIsFinite
  <2> QED BY <2>1, <2>2
<1> QED
  BY <1>2, <1>3, FS_Union, FS_EmptySet DEF Sources

-----------------------------------------------------------------------------
(* The allocator, one port at a time.                                      *)

Alloc == [port : [Listener -> ToSet(Pool) \cup {Unset}], free : Seq(ToSet(Pool))]

InUse(p) == {p.port[k] : k \in {l \in Listener : p.port[l] # Unset}}

\* No port serves two listeners, none is free and in use, none is lost.
PoolGood(p) ==
  /\ p \in Alloc
  /\ \A k, l \in Listener : p.port[k] # Unset /\ p.port[k] = p.port[l] => k = l
  /\ IsInjective(p.free)
  /\ InUse(p) \cap ToSet(p.free) = {}
  /\ InUse(p) \cup ToSet(p.free) = ToSet(Pool)

LEMMA PoolPorts == Unset \notin ToSet(Pool) /\ ToSet(Pool) \subseteq Data
<1>1. Pool \in Seq(Data \ {Unset})
  BY PortsAssumption
<1>2. \A i \in DOMAIN Pool : Pool[i] \in Data \ {Unset}
  BY <1>1
<1> QED BY <1>2 DEF ToSet

\* Without its first member an injective sequence is one.
LEMMA TailOfInjective ==
  ASSUME NEW S, NEW s \in Seq(S), s # <<>>, IsInjective(s)
  PROVE  /\ Tail(s) \in Seq(S) /\ IsInjective(Tail(s))
         /\ ToSet(s) = ToSet(Tail(s)) \cup {Head(s)} /\ Head(s) \notin ToSet(Tail(s))
<1>1. /\ Tail(s) \in Seq(S) /\ Len(Tail(s)) = Len(s) - 1 /\ Len(s) \in Nat \ {0}
      /\ \A i \in 1..(Len(s) - 1) : Tail(s)[i] = s[i + 1]
      /\ DOMAIN Tail(s) = 1..(Len(s) - 1) /\ DOMAIN s = 1..Len(s) /\ Head(s) = s[1]
  OBVIOUS
<1>2. \A i, j \in 1..Len(s) : s[i] = s[j] => i = j
  BY <1>1 DEF IsInjective
<1>3. IsInjective(Tail(s))
  <2> SUFFICES ASSUME NEW i \in 1..(Len(s) - 1), NEW j \in 1..(Len(s) - 1),
                      Tail(s)[i] = Tail(s)[j]
               PROVE  i = j
    BY <1>1 DEF IsInjective
  <2>1. i + 1 \in 1..Len(s) /\ j + 1 \in 1..Len(s) /\ s[i + 1] = s[j + 1]
    BY <1>1
  <2> QED BY <1>2, <2>1
<1>4. ToSet(Tail(s)) = {s[i + 1] : i \in 1..(Len(s) - 1)}
  BY <1>1 DEF ToSet
<1>5. ToSet(s) = {s[i] : i \in 1..Len(s)}
  BY <1>1 DEF ToSet
<1>6. ToSet(s) \subseteq ToSet(Tail(s)) \cup {Head(s)}
  <2> SUFFICES ASSUME NEW i \in 1..Len(s) PROVE s[i] \in ToSet(Tail(s)) \cup {Head(s)}
    BY <1>5
  <2>1. CASE i = 1
    BY <2>1, <1>1
  <2>2. CASE i # 1
    <3>1. i - 1 \in 1..(Len(s) - 1) /\ s[i] = s[(i - 1) + 1]
      BY <1>1, <2>2
    <3> QED BY <1>4, <3>1
  <2> QED BY <2>1, <2>2
<1>7. ToSet(Tail(s)) \cup {Head(s)} \subseteq ToSet(s)
  <2>1. \A i \in 1..(Len(s) - 1) : i + 1 \in 1..Len(s)
    BY <1>1
  <2>2. 1 \in 1..Len(s)
    BY <1>1
  <2> QED BY <1>1, <1>4, <1>5, <2>1, <2>2
<1>8. Head(s) \notin ToSet(Tail(s))
  <2> SUFFICES ASSUME NEW i \in 1..(Len(s) - 1), s[i + 1] = s[1] PROVE FALSE
    BY <1>1, <1>4
  <2>1. i + 1 \in 1..Len(s) /\ 1 \in 1..Len(s) /\ i + 1 # 1
    BY <1>1
  <2> QED BY <1>2, <2>1
<1> QED BY <1>1, <1>3, <1>6, <1>7, <1>8

\* With a new member at the end it still is one.
LEMMA AppendToInjective ==
  ASSUME NEW S, NEW s \in Seq(S), NEW x \in S, x \notin ToSet(s), IsInjective(s)
  PROVE  /\ Append(s, x) \in Seq(S) /\ IsInjective(Append(s, x))
         /\ ToSet(Append(s, x)) = ToSet(s) \cup {x}
<1> DEFINE n == Len(s)
           a == Append(s, x)
<1>1. /\ a \in Seq(S) /\ DOMAIN a = 1..(n + 1) /\ n \in Nat /\ DOMAIN s = 1..n
      /\ a[n + 1] = x /\ \A i \in 1..n : a[i] = s[i]
  OBVIOUS
<1>2. \A i, j \in 1..n : s[i] = s[j] => i = j
  BY <1>1 DEF IsInjective
<1>3. \A i \in 1..n : s[i] # x
  BY <1>1 DEF ToSet
<1> HIDE DEF a, n
<1>4. \A i \in 1..(n + 1) : i = n + 1 \/ i \in 1..n
  BY <1>1
<1>5. IsInjective(a)
  BY <1>1, <1>2, <1>3, <1>4 DEF IsInjective
<1>6. \A i \in 1..n : i \in 1..(n + 1)
  BY <1>1
<1>7. n + 1 \in 1..(n + 1)
  BY <1>1
<1>8. ToSet(a) = ToSet(s) \cup {x}
  <2>1. ToSet(a) = {a[i] : i \in 1..(n + 1)} /\ ToSet(s) = {s[i] : i \in 1..n}
    BY <1>1 DEF ToSet
  <2>2. \A i \in 1..(n + 1) : a[i] \in ToSet(s) \cup {x}
    BY <1>1, <1>4, <2>1
  <2>3. \A i \in 1..n : s[i] \in ToSet(a)
    BY <1>1, <1>6, <2>1
  <2>4. x \in ToSet(a)
    BY <1>1, <1>7, <2>1
  <2> QED BY <2>1, <2>2, <2>3, <2>4
<1> QED BY <1>1, <1>5, <1>8 DEF a

LEMMA AllocateGood ==
  ASSUME NEW p, PoolGood(p), NEW key \in Listener
  PROVE  LET q == allocate(p, key)
         IN  /\ PoolGood(q)
             /\ \A k \in Listener : p.port[k] # Unset => q.port[k] = p.port[k]
             /\ q.port[key] # Unset \/ q.free = <<>>
             /\ p.free = <<>> => q.free = <<>>
<1> DEFINE q == allocate(p, key)
<1>1. CASE p.port[key] # Unset \/ p.free = <<>>
  <2>1. q = p
    BY <1>1 DEF allocate
  <2> QED BY <1>1, <2>1
<1>2. CASE p.port[key] = Unset /\ p.free # <<>>
  <2> DEFINE h == Head(p.free)
  <2>1. q = [port |-> [p.port EXCEPT ![key] = h], free |-> Tail(p.free)]
    BY <1>2 DEF allocate
  <2>2. p.port \in [Listener -> ToSet(Pool) \cup {Unset}] /\ p.free \in Seq(ToSet(Pool))
    BY DEF PoolGood, Alloc
  <2>3. /\ Tail(p.free) \in Seq(ToSet(Pool)) /\ IsInjective(Tail(p.free))
        /\ ToSet(p.free) = ToSet(Tail(p.free)) \cup {h} /\ h \notin ToSet(Tail(p.free))
    BY <1>2, <2>2, TailOfInjective DEF PoolGood
  <2>4. h \in ToSet(Pool) /\ h # Unset /\ h \notin InUse(p)
    BY <2>3, PoolPorts DEF PoolGood
  <2>5. /\ q \in Alloc /\ q.free = Tail(p.free) /\ q.port[key] = h
        /\ \A k \in Listener : k # key => q.port[k] = p.port[k]
    BY <2>1, <2>2, <2>3, <2>4 DEF Alloc
  <2>6. \A k \in Listener : k # key => q.port[k] # h
    BY <2>4, <2>5 DEF InUse
  <2>7. InUse(q) = InUse(p) \cup {h}
    BY <1>2, <2>4, <2>5 DEF InUse
  <2>8. PoolGood(q)
    <3>1. \A k, l \in Listener : q.port[k] # Unset /\ q.port[k] = q.port[l] => k = l
      BY <2>5, <2>6 DEF PoolGood
    <3>2. IsInjective(q.free)
      BY <2>3, <2>5
    <3>3. ToSet(p.free) = ToSet(q.free) \cup {h} /\ h \notin ToSet(q.free)
      BY <2>3, <2>5
    <3>4. InUse(q) \cap ToSet(q.free) = {}
      BY <2>7, <3>3 DEF PoolGood
    <3>5. InUse(q) \cup ToSet(q.free) = ToSet(Pool)
      BY <2>7, <3>3 DEF PoolGood
    <3> HIDE DEF q
    <3> QED BY <2>5, <3>1, <3>2, <3>4, <3>5 DEF PoolGood
  <2> HIDE DEF q
  <2>9. /\ \A k \in Listener : p.port[k] # Unset => q.port[k] = p.port[k]
        /\ q.port[key] # Unset \/ q.free = <<>>
        /\ p.free = <<>> => q.free = <<>>
    BY <1>2, <2>4, <2>5
  <2> QED BY <2>8, <2>9 DEF q
<1> QED BY <1>1, <1>2

LEMMA ReleaseGood ==
  ASSUME NEW p, PoolGood(p), NEW key \in Listener
  PROVE  LET q == release(p, key)
         IN  /\ PoolGood(q)
             /\ \A k \in Listener : k # key => q.port[k] = p.port[k]
<1> DEFINE q == release(p, key)
           h == p.port[key]
<1>1. CASE h = Unset
  BY <1>1 DEF release
<1>2. CASE h # Unset
  <2>1. q = [port |-> [p.port EXCEPT ![key] = Unset], free |-> Append(p.free, h)]
    BY <1>2 DEF release
  <2>2. p.port \in [Listener -> ToSet(Pool) \cup {Unset}] /\ p.free \in Seq(ToSet(Pool))
    BY DEF PoolGood, Alloc
  <2>3. h \in ToSet(Pool) /\ h \in InUse(p) /\ h \notin ToSet(p.free)
    BY <1>2, <2>2 DEF PoolGood, InUse
  <2>4. /\ Append(p.free, h) \in Seq(ToSet(Pool)) /\ IsInjective(Append(p.free, h))
        /\ ToSet(Append(p.free, h)) = ToSet(p.free) \cup {h}
    BY <2>2, <2>3, AppendToInjective DEF PoolGood
  <2>5. /\ q \in Alloc /\ q.free = Append(p.free, h) /\ q.port[key] = Unset
        /\ \A k \in Listener : k # key => q.port[k] = p.port[k]
    BY <2>1, <2>2, <2>4 DEF Alloc
  <2>6. \A k \in Listener : k # key => p.port[k] # h
    BY <1>2 DEF PoolGood
  <2>7. InUse(q) = InUse(p) \ {h}
    BY <1>2, <2>5, <2>6 DEF InUse
  <2> HIDE DEF q, h
  <2>8. \A k, l \in Listener : q.port[k] # Unset /\ q.port[k] = q.port[l] => k = l
    BY <2>5 DEF PoolGood
  <2>9. InUse(q) \cap ToSet(q.free) = {} /\ InUse(q) \cup ToSet(q.free) = ToSet(Pool)
    BY <2>3, <2>4, <2>5, <2>7 DEF PoolGood
  <2>10. PoolGood(q)
    BY <2>4, <2>5, <2>8, <2>9 DEF PoolGood
  <2> QED BY <2>5, <2>10 DEF q
<1> QED BY <1>1, <1>2

-----------------------------------------------------------------------------
(* The allocator, all ports of a dispatch.                                 *)

\* f holds the allocator after each of the first n keys.
Allocations(p, keys, n, f) ==
  f = [k \in 0..n |-> IF k = 0 THEN p ELSE allocate(f[k - 1], keys[k])]

LEMMA AllocationsExist ==
  ASSUME NEW p, NEW keys
  PROVE  \A n \in Nat : \E f : Allocations(p, keys, n, f)
<1> DEFINE T == {n \in Nat : \E f : Allocations(p, keys, n, f)}
<1>1. 0 \in T
  <2> DEFINE f == [k \in 0..0 |-> p]
  <2>1. \A k \in 0..0 : k = 0
    OBVIOUS
  <2>2. Allocations(p, keys, 0, f)
    BY <2>1 DEF Allocations
  <2> QED BY <2>2
<1>2. ASSUME NEW n \in Nat, n \in T PROVE n + 1 \in T
  <2>1. PICK f : Allocations(p, keys, n, f)
    BY <1>2
  <2> DEFINE g == [k \in 0..(n + 1) |->
                     IF k = n + 1 THEN allocate(f[n], keys[n + 1]) ELSE f[k]]
  <2>2. ASSUME NEW k \in 0..(n + 1)
        PROVE  g[k] = IF k = 0 THEN p ELSE allocate(g[k - 1], keys[k])
    <3>1. CASE k = n + 1
      <4>1. k # 0 /\ k - 1 = n /\ k - 1 \in 0..(n + 1) /\ k - 1 # n + 1
        BY <3>1
      <4>2. g[k - 1] = f[n]
        BY <4>1
      <4> QED BY <3>1, <4>1, <4>2
    <3>2. CASE k # n + 1
      <4>1. k \in 0..n /\ g[k] = f[k]
        BY <3>2
      <4>2. f[k] = IF k = 0 THEN p ELSE allocate(f[k - 1], keys[k])
        BY <2>1, <4>1 DEF Allocations
      <4>3. k # 0 => k - 1 \in 0..(n + 1) /\ k - 1 # n + 1
        BY <4>1
      <4>4. k # 0 => g[k - 1] = f[k - 1]
        BY <4>3
      <4> QED BY <4>1, <4>2, <4>4
    <3> QED BY <3>1, <3>2
  <2>3. Allocations(p, keys, n + 1, g)
    <3>1. g = [k \in 0..(n + 1) |-> g[k]]
      OBVIOUS
    <3> HIDE DEF g
    <3> QED BY <2>2, <3>1 DEF Allocations
  <2> QED BY <2>3
<1>3. Nat \subseteq T
  <2> HIDE DEF T
  <2> QED BY <1>1, <1>2, NatSetInduction
<1> QED BY <1>3

\* The ports in use stay where they are, and every key gets one until the free
\* ones run out.
LEMMA AllocateAllGood ==
  ASSUME NEW p, PoolGood(p), NEW keys \in Seq(Listener)
  PROVE  LET q == allocateAll(p, keys)
         IN  /\ PoolGood(q)
             /\ \A k \in Listener : p.port[k] # Unset => q.port[k] = p.port[k]
             /\ q.free # <<>> => \A k \in ToSet(keys) : q.port[k] # Unset
<1> DEFINE f == CHOOSE g : Allocations(p, keys, Len(keys), g)
           Through(n) ==
             /\ PoolGood(f[n])
             /\ \A k \in Listener : p.port[k] # Unset => f[n].port[k] = p.port[k]
             /\ f[n].free # <<>> => \A i \in 1..n : f[n].port[keys[i]] # Unset
           T == {n \in Nat : n <= Len(keys) => Through(n)}
<1>1. allocateAll(p, keys) = f[Len(keys)]
  BY DEF allocateAll, Allocations
<1>2. Allocations(p, keys, Len(keys), f)
  <2>1. Len(keys) \in Nat
    OBVIOUS
  <2>2. \E g : Allocations(p, keys, Len(keys), g)
    BY <2>1, AllocationsExist
  <2> QED BY <2>2
<1> HIDE DEF f
<1>3. 0 \in T
  <2>1. f[0] = p
    BY <1>2 DEF Allocations
  <2> QED BY <2>1
<1>4. ASSUME NEW n \in Nat, n \in T PROVE n + 1 \in T
  <2> SUFFICES ASSUME n + 1 <= Len(keys) PROVE Through(n + 1)
    OBVIOUS
  <2> DEFINE key == keys[n + 1]
             p0 == f[n]
             p1 == f[n + 1]
  <2>1. key \in Listener
    OBVIOUS
  <2>2. p1 = allocate(p0, key)
    <3>1. n + 1 \in 0..Len(keys) /\ n + 1 # 0 /\ (n + 1) - 1 = n
      OBVIOUS
    <3> QED BY <1>2, <3>1 DEF Allocations
  <2>3. /\ PoolGood(p0)
        /\ \A k \in Listener : p.port[k] # Unset => p0.port[k] = p.port[k]
        /\ p0.free # <<>> => \A i \in 1..n : p0.port[keys[i]] # Unset
    BY <1>4
  <2>4. /\ PoolGood(p1)
        /\ \A k \in Listener : p0.port[k] # Unset => p1.port[k] = p0.port[k]
        /\ p1.port[key] # Unset \/ p1.free = <<>>
        /\ p0.free = <<>> => p1.free = <<>>
    <3> HIDE DEF p0, p1, key
    <3>1. LET q == allocate(p0, key)
          IN  /\ PoolGood(q)
              /\ \A k \in Listener : p0.port[k] # Unset => q.port[k] = p0.port[k]
              /\ q.port[key] # Unset \/ q.free = <<>>
              /\ p0.free = <<>> => q.free = <<>>
      BY <2>1, <2>3, AllocateGood
    <3> QED BY <2>2, <3>1
  <2>5. \A i \in 1..(n + 1) : i = n + 1 \/ i \in 1..n
    OBVIOUS
  <2>6. \A i \in 1..n : keys[i] \in Listener
    OBVIOUS
  <2> HIDE DEF p0, p1, key
  <2>7. p1.free # <<>> => \A i \in 1..(n + 1) : p1.port[keys[i]] # Unset
    <3> SUFFICES ASSUME p1.free # <<>>, NEW i \in 1..(n + 1) PROVE p1.port[keys[i]] # Unset
      OBVIOUS
    <3>1. CASE i = n + 1
      BY <2>4, <3>1 DEF key
    <3>2. CASE i \in 1..n
      BY <2>3, <2>4, <2>6, <3>2
    <3> QED BY <2>5, <3>1, <3>2
  <2>8. \A k \in Listener : p.port[k] # Unset => p1.port[k] = p.port[k]
    BY <2>3, <2>4
  <2> QED BY <2>4, <2>7, <2>8 DEF p1
<1>5. Through(Len(keys))
  <2>1. Nat \subseteq T
    <3> HIDE DEF T
    <3> QED BY <1>3, <1>4, NatSetInduction
  <2> QED BY <2>1
<1>6. ToSet(keys) = {keys[i] : i \in 1..Len(keys)}
  BY DEF ToSet
<1> QED BY <1>1, <1>5, <1>6

\* f holds the allocator after each of the first n removed routes.
Releases(p, routes, n, f) ==
  f = [k \in 0..n |-> IF k = 0 THEN p ELSE ReleaseRoute(f[k - 1], routes[k])]

LEMMA ReleasesExist ==
  ASSUME NEW p, NEW routes
  PROVE  \A n \in Nat : \E f : Releases(p, routes, n, f)
<1> DEFINE T == {n \in Nat : \E f : Releases(p, routes, n, f)}
<1>1. 0 \in T
  <2> DEFINE f == [k \in 0..0 |-> p]
  <2>1. \A k \in 0..0 : k = 0
    OBVIOUS
  <2>2. Releases(p, routes, 0, f)
    BY <2>1 DEF Releases
  <2> QED BY <2>2
<1>2. ASSUME NEW n \in Nat, n \in T PROVE n + 1 \in T
  <2>1. PICK f : Releases(p, routes, n, f)
    BY <1>2
  <2> DEFINE g == [k \in 0..(n + 1) |->
                     IF k = n + 1 THEN ReleaseRoute(f[n], routes[n + 1]) ELSE f[k]]
  <2>2. ASSUME NEW k \in 0..(n + 1)
        PROVE  g[k] = IF k = 0 THEN p ELSE ReleaseRoute(g[k - 1], routes[k])
    <3>1. CASE k = n + 1
      <4>1. k # 0 /\ k - 1 = n /\ k - 1 \in 0..(n + 1) /\ k - 1 # n + 1
        BY <3>1
      <4>2. g[k - 1] = f[n]
        BY <4>1
      <4> QED BY <3>1, <4>1, <4>2
    <3>2. CASE k # n + 1
      <4>1. k \in 0..n /\ g[k] = f[k]
        BY <3>2
      <4>2. f[k] = IF k = 0 THEN p ELSE ReleaseRoute(f[k - 1], routes[k])
        BY <2>1, <4>1 DEF Releases
      <4>3. k # 0 => k - 1 \in 0..(n + 1) /\ k - 1 # n + 1
        BY <4>1
      <4>4. k # 0 => g[k - 1] = f[k - 1]
        BY <4>3
      <4> QED BY <4>1, <4>2, <4>4
    <3> QED BY <3>1, <3>2
  <2>3. Releases(p, routes, n + 1, g)
    <3>1. g = [k \in 0..(n + 1) |-> g[k]]
      OBVIOUS
    <3> HIDE DEF g
    <3> QED BY <2>2, <3>1 DEF Releases
  <2> QED BY <2>3
<1>3. Nat \subseteq T
  <2> HIDE DEF T
  <2> QED BY <1>1, <1>2, NatSetInduction
<1> QED BY <1>3

AnyRoute == InternalRoute \cup LocalRoute

LEMMA KeysListen ==
  /\ \A n \in Name : Ingress(n) \in Listener
  /\ \A r \in InternalRoute : Egress(r) \in Listener
  /\ \A n, m \in Name : Ingress(n) = Ingress(m) => n = m
  /\ \A n \in Name, r \in InternalRoute : Ingress(n) # Egress(r)
BY DEF Listener, Ingress, Egress, IngressKey, EgressKey, InternalRoute

LEMMA ReleaseRouteGood ==
  ASSUME NEW p, PoolGood(p), NEW route \in AnyRoute
  PROVE  LET q == ReleaseRoute(p, route)
         IN  /\ PoolGood(q)
             /\ \A n \in Name : n # route.name => q.port[Ingress(n)] = p.port[Ingress(n)]
<1> DEFINE p0 == release(p, Ingress(route.name))
<1>1. route.name \in Name
  BY DEF AnyRoute, InternalRoute, LocalRoute
<1>2. /\ PoolGood(p0)
      /\ \A n \in Name : n # route.name => p0.port[Ingress(n)] = p.port[Ingress(n)]
  BY <1>1, KeysListen, ReleaseGood
<1> HIDE DEF p0
<1>3. CASE isInternalRoute(route)
  <2>1. route \in InternalRoute
    BY <1>3, InternalFields DEF AnyRoute
  <2>2. /\ PoolGood(release(p0, Egress(route)))
        /\ \A n \in Name : release(p0, Egress(route)).port[Ingress(n)] = p0.port[Ingress(n)]
    BY <1>2, <2>1, KeysListen, ReleaseGood
  <2>3. ReleaseRoute(p, route) = release(p0, Egress(route))
    BY <1>3 DEF ReleaseRoute, p0
  <2> QED BY <1>2, <2>2, <2>3
<1>4. CASE ~isInternalRoute(route)
  BY <1>2, <1>4 DEF ReleaseRoute, p0
<1> QED BY <1>3, <1>4

\* The ports of services no removed route is named after stay where they are.
LEMMA ReleaseRoutesGood ==
  ASSUME NEW p, PoolGood(p), NEW routes \in Seq(AnyRoute)
  PROVE  LET q == ReleaseRoutes(p, routes)
         IN  /\ PoolGood(q)
             /\ \A n \in Name : (\A r \in ToSet(routes) : r.name # n) =>
                  q.port[Ingress(n)] = p.port[Ingress(n)]
<1> DEFINE f == CHOOSE g : Releases(p, routes, Len(routes), g)
           Through(n) ==
             /\ PoolGood(f[n])
             /\ \A m \in Name : (\A r \in ToSet(routes) : r.name # m) =>
                  f[n].port[Ingress(m)] = p.port[Ingress(m)]
           T == {n \in Nat : n <= Len(routes) => Through(n)}
<1>1. ReleaseRoutes(p, routes) = f[Len(routes)]
  BY DEF ReleaseRoutes, Releases
<1>2. Releases(p, routes, Len(routes), f)
  <2>1. Len(routes) \in Nat
    OBVIOUS
  <2>2. \E g : Releases(p, routes, Len(routes), g)
    BY <2>1, ReleasesExist
  <2> QED BY <2>2
<1> HIDE DEF f
<1>3. 0 \in T
  <2>1. f[0] = p
    BY <1>2 DEF Releases
  <2> QED BY <2>1
<1>4. ASSUME NEW n \in Nat, n \in T PROVE n + 1 \in T
  <2> SUFFICES ASSUME n + 1 <= Len(routes) PROVE Through(n + 1)
    OBVIOUS
  <2> DEFINE route == routes[n + 1]
             p0 == f[n]
             p1 == f[n + 1]
  <2>1. route \in AnyRoute /\ route \in ToSet(routes)
    BY DEF ToSet
  <2>2. p1 = ReleaseRoute(p0, route)
    <3>1. n + 1 \in 0..Len(routes) /\ n + 1 # 0 /\ (n + 1) - 1 = n
      OBVIOUS
    <3> QED BY <1>2, <3>1 DEF Releases
  <2>3. /\ PoolGood(p0)
        /\ \A m \in Name : (\A r \in ToSet(routes) : r.name # m) =>
             p0.port[Ingress(m)] = p.port[Ingress(m)]
    BY <1>4
  <2>4. /\ PoolGood(p1)
        /\ \A m \in Name : m # route.name => p1.port[Ingress(m)] = p0.port[Ingress(m)]
    BY <2>1, <2>2, <2>3, ReleaseRouteGood
  <2> HIDE DEF p0, p1, route
  <2>5. \A m \in Name : (\A r \in ToSet(routes) : r.name # m) =>
          p1.port[Ingress(m)] = p.port[Ingress(m)]
    BY <2>1, <2>3, <2>4
  <2> QED BY <2>4, <2>5 DEF p1
<1>5. Through(Len(routes))
  <2>1. Nat \subseteq T
    <3> HIDE DEF T
    <3> QED BY <1>3, <1>4, NatSetInduction
  <2> QED BY <2>1
<1> QED BY <1>1, <1>5

-----------------------------------------------------------------------------
(* One dispatch: which sequences, which ports.                             *)

LEMMA SeqsOfFinite ==
  ASSUME NEW S, IsFiniteSet(S), NEW s \in SetToSeqs(S)
  PROVE  s \in Seq(S) /\ ToSet(s) = S
<1> DEFINE n == Cardinality(S)
           D == 1..n
<1>1. n \in Nat
  BY FS_CardinalityType
<1>2. s \in [D -> S] /\ \A i, j \in D : i # j => s[i] # s[j]
  BY DEF SetToSeqs
<1>3. IsFiniteSet(D) /\ Cardinality(D) = n
  BY <1>1, FS_Interval
<1>4. s \in Injection(D, S)
  BY <1>2 DEF Injection, IsInjective
<1>5. s \in Surjection(D, S)
  BY <1>3, <1>4, FS_Injection
<1>6. ToSet(s) = S
  BY <1>2, <1>5 DEF ToSet, Surjection
<1> QED
  BY <1>1, <1>2, <1>6

LEMMA ConcatSet ==
  ASSUME NEW S, NEW s \in Seq(S), NEW u \in Seq(S)
  PROVE  s \o u \in Seq(S) /\ ToSet(s) \cup ToSet(u) \subseteq ToSet(s \o u)
<1>1. /\ s \o u \in Seq(S) /\ DOMAIN (s \o u) = 1..(Len(s) + Len(u))
      /\ \A i \in 1..Len(s) : (s \o u)[i] = s[i]
      /\ \A i \in 1..Len(u) : (s \o u)[Len(s) + i] = u[i]
      /\ DOMAIN s = 1..Len(s) /\ DOMAIN u = 1..Len(u)
      /\ Len(s) \in Nat /\ Len(u) \in Nat
  OBVIOUS
<1>2. \A i \in 1..Len(s) : i \in 1..(Len(s) + Len(u))
  BY <1>1
<1>3. \A i \in 1..Len(u) : Len(s) + i \in 1..(Len(s) + Len(u))
  BY <1>1
<1>4. ToSet(s) \subseteq ToSet(s \o u)
  BY <1>1, <1>2 DEF ToSet
<1>5. ToSet(u) \subseteq ToSet(s \o u)
  BY <1>1, <1>3 DEF ToSet
<1> QED BY <1>1, <1>4, <1>5

\* Only names and nodes of the configuration have listeners, finitely many.
LEMMA ListenerFinite == IsFiniteSet(Listener)
<1> DEFINE f == [n \in Name |-> Ingress(n)]
<1>1. IsFiniteSet({f[x] : x \in DOMAIN f})
  BY FinitelyMany, ImageIsFinite
<1>2. {f[x] : x \in DOMAIN f} = {Ingress(n) : n \in Name}
  OBVIOUS
<1>3. IsFiniteSet(Name \X Node)
  BY FinitelyMany, FS_Product
<1> QED BY <1>1, <1>2, <1>3, FS_Union DEF Listener

\* What the allocator is after a dispatch.
Reallocated(p, plan, q) ==
  /\ PoolGood(q)
  /\ \A n \in Name :
       /\ \A r \in Removed(plan) : r.name # n
       /\ p.port[Ingress(n)] # Unset
       => q.port[Ingress(n)] = p.port[Ingress(n)]
  /\ q.free # <<>> =>
       \A k \in Waiting(plan.table) \cup Learning(plan.table) : q.port[k] # Unset

LEMMA DispatchAllocates ==
  ASSUME NEW p, PoolGood(p), NEW plan, SoundPlan(Self, plan), IsFiniteSet(Removed(plan)),
         NEW gone \in SetToSeqs(Removed(plan)),
         NEW own \in SetToSeqs(Waiting(plan.table)),
         NEW learned \in SetToSeqs(Learning(plan.table)),
         NEW q, q = allocateAll(ReleaseRoutes(p, gone), own \o learned)
  PROVE  Reallocated(p, plan, q)
<1> DEFINE p1 == ReleaseRoutes(p, gone)
<1>1. Removed(plan) \subseteq AnyRoute
  BY DEF Removed, SoundPlan, Change, AnyRoute
<1>2. gone \in Seq(AnyRoute) /\ ToSet(gone) = Removed(plan)
  <2>1. gone \in Seq(Removed(plan)) /\ ToSet(gone) = Removed(plan)
    BY SeqsOfFinite
  <2> QED BY <1>1, <2>1
<1>3. Waiting(plan.table) \subseteq Listener /\ Learning(plan.table) \subseteq Listener
  <2>1. plan.table.routes \subseteq InternalRoute
    BY DEF SoundPlan, SoundTable, Table
  <2> QED BY <2>1, KeysListen DEF Waiting, Learning
<1>4. IsFiniteSet(Waiting(plan.table)) /\ IsFiniteSet(Learning(plan.table))
  BY <1>3, ListenerFinite, FS_Subset
<1>5. /\ own \in Seq(Listener) /\ ToSet(own) = Waiting(plan.table)
      /\ learned \in Seq(Listener) /\ ToSet(learned) = Learning(plan.table)
  <2>1. own \in Seq(Waiting(plan.table)) /\ ToSet(own) = Waiting(plan.table)
    BY <1>4, SeqsOfFinite
  <2>2. learned \in Seq(Learning(plan.table)) /\ ToSet(learned) = Learning(plan.table)
    BY <1>4, SeqsOfFinite
  <2> QED BY <1>3, <2>1, <2>2
<1>6. /\ own \o learned \in Seq(Listener)
      /\ Waiting(plan.table) \cup Learning(plan.table) \subseteq ToSet(own \o learned)
  BY <1>5, ConcatSet
<1>7. /\ PoolGood(p1)
      /\ \A n \in Name : (\A r \in ToSet(gone) : r.name # n) =>
           p1.port[Ingress(n)] = p.port[Ingress(n)]
  BY <1>2, ReleaseRoutesGood
<1>8. /\ PoolGood(q)
      /\ \A k \in Listener : p1.port[k] # Unset => q.port[k] = p1.port[k]
      /\ q.free # <<>> => \A k \in ToSet(own \o learned) : q.port[k] # Unset
  <2> HIDE DEF p1
  <2>1. LET z == allocateAll(p1, own \o learned)
        IN  /\ PoolGood(z)
            /\ \A k \in Listener : p1.port[k] # Unset => z.port[k] = p1.port[k]
            /\ z.free # <<>> => \A k \in ToSet(own \o learned) : z.port[k] # Unset
    BY <1>6, <1>7, AllocateAllGood
  <2>2. q = allocateAll(p1, own \o learned)
    BY DEF p1
  <2> QED BY <2>1, <2>2
<1> HIDE DEF p1
<1>9. ASSUME NEW n \in Name, \A r \in Removed(plan) : r.name # n,
             p.port[Ingress(n)] # Unset
      PROVE  q.port[Ingress(n)] = p.port[Ingress(n)]
  BY <1>2, <1>7, <1>8, <1>9, KeysListen
<1> QED BY <1>6, <1>8, <1>9 DEF Reallocated

-----------------------------------------------------------------------------
(* Stamping changes the ports of routes and nothing else.                  *)

LEMMA StampKeeps ==
  ASSUME NEW p, PoolGood(p), NEW r \in InternalRoute
  PROVE  /\ StampLearned(p, r) \in InternalRoute
         /\ StampLearned(p, r) = [r EXCEPT !.data = StampLearned(p, r).data]
         /\ p.port[Egress(r)] # Unset => StampLearned(p, r).data = p.port[Egress(r)]
<1>1. p.port[Egress(r)] # Unset => p.port[Egress(r)] \in Data
  BY KeysListen, PoolPorts DEF PoolGood, Alloc
<1> QED
  BY <1>1 DEF StampLearned, InternalRoute

LEMMA StampFields ==
  ASSUME NEW p, PoolGood(p), NEW r \in InternalRoute, NEW s, s = StampLearned(p, r)
  PROVE  /\ s \in InternalRoute
         /\ s.name = r.name /\ s.origin = r.origin /\ s.peer = r.peer
         /\ s.path = r.path /\ s.stale = r.stale /\ Egress(s) = Egress(r)
<1>1. s \in InternalRoute /\ \E d : s = [r EXCEPT !.data = d]
  BY StampKeeps
<1>2. PICK d : s = [r EXCEPT !.data = d]
  BY <1>1
<1>3. /\ s.name = r.name /\ s.origin = r.origin /\ s.peer = r.peer
      /\ s.path = r.path /\ s.stale = r.stale
  BY <1>2 DEF InternalRoute
<1> QED
  BY <1>1, <1>3 DEF Egress

LEMMA StampedParts ==
  ASSUME NEW p, PoolGood(p), NEW t \in Table, NEW u, u = Stamped(p, t)
  PROVE  /\ u \in Table /\ u.peers = t.peers
         /\ u.local = [n \in Name |-> IF t.local[n] = NoRoute THEN NoRoute
                                      ELSE StampLocal(p, n, t.local[n])]
         /\ u.routes = {StampLearned(p, r) : r \in t.routes}
         /\ u.routes \subseteq InternalRoute
<1> DEFINE local == [n \in Name |-> IF t.local[n] = NoRoute THEN NoRoute
                                    ELSE StampLocal(p, n, t.local[n])]
           routes == {StampLearned(p, r) : r \in t.routes}
<1>1. t = [peers |-> t.peers, local |-> t.local, routes |-> t.routes]
      /\ t.peers \in [Node -> PeerRecord] /\ t.local \in [Name -> Data \cup {NoRoute}]
      /\ t.routes \subseteq InternalRoute
  BY DEF Table
<1>2. u = [peers |-> t.peers, local |-> local, routes |-> routes]
  BY <1>1 DEF Stamped
<1>3. routes \subseteq InternalRoute
  BY <1>1, StampKeeps
<1>4. \A n \in Name : p.port[Ingress(n)] \in Data
  BY KeysListen, PoolPorts, PortsAssumption DEF PoolGood, Alloc
<1>5. local \in [Name -> Data \cup {NoRoute}]
  BY <1>1, <1>4 DEF StampLocal
<1> HIDE DEF local, routes
<1>6. u \in Table
  BY <1>1, <1>2, <1>3, <1>5 DEF Table
<1> QED
  BY <1>2, <1>3, <1>6 DEF local, routes

LEMMA StampedSound ==
  ASSUME NEW p, PoolGood(p), NEW t, SoundTable(Self, t), NEW u, u = Stamped(p, t)
  PROVE  SoundTable(Self, u)
<1>1. /\ t \in Table /\ u \in Table /\ u.peers = t.peers
      /\ u.routes = {StampLearned(p, r) : r \in t.routes}
      /\ t.routes \subseteq InternalRoute
  <2>1. t \in Table
    BY DEF SoundTable
  <2>2. t.routes \subseteq InternalRoute
    BY <2>1 DEF Table
  <2>3. /\ u \in Table /\ u.peers = t.peers
        /\ u.local = [n \in Name |-> IF t.local[n] = NoRoute THEN NoRoute
                                     ELSE StampLocal(p, n, t.local[n])]
        /\ u.routes = {StampLearned(p, r) : r \in t.routes}
        /\ u.routes \subseteq InternalRoute
    BY <2>1, StampedParts
  <2> QED BY <2>1, <2>2, <2>3
<1>2. \A s \in u.routes : \E r \in t.routes :
        /\ s = StampLearned(p, r)
        /\ s.name = r.name /\ s.origin = r.origin /\ s.peer = r.peer
        /\ s.path = r.path /\ s.stale = r.stale
  BY <1>1, StampFields
<1>3. UniqueIn(u.routes)
  <2> SUFFICES ASSUME NEW s1 \in u.routes, NEW s2 \in u.routes, SameKey(s1, s2)
               PROVE  s1 = s2
    BY DEF UniqueIn
  <2>1. PICK r1 \in t.routes :
          s1 = StampLearned(p, r1) /\ s1.name = r1.name /\ s1.origin = r1.origin
    BY <1>2
  <2>2. PICK r2 \in t.routes :
          s2 = StampLearned(p, r2) /\ s2.name = r2.name /\ s2.origin = r2.origin
    BY <1>2
  <2>3. r1 = r2
    BY <2>1, <2>2 DEF SoundTable, UniqueIn, SameKey
  <2> QED BY <2>1, <2>2, <2>3
<1>4. LoopFreeIn(Self, u.routes)
  <2> SUFFICES ASSUME NEW s \in u.routes PROVE ~Crosses(Self, s.path)
    BY DEF LoopFreeIn
  <2>1. \E r \in t.routes : s.path = r.path
    BY <1>2
  <2> QED BY <2>1 DEF SoundTable, LoopFreeIn
<1>5. StaleOwnedIn(u)
  <2> SUFFICES ASSUME NEW s \in u.routes, s.stale
               PROVE  u.peers[s.peer].status \in {"connected", "closed"}
    BY DEF StaleOwnedIn
  <2>1. \E r \in t.routes : s.peer = r.peer /\ r.stale
    BY <1>2
  <2> QED BY <1>1, <2>1 DEF SoundTable, StaleOwnedIn
<1> QED
  BY <1>1, <1>3, <1>4, <1>5 DEF SoundTable

LEMMA StampedFinite ==
  ASSUME NEW p, NEW S, IsFiniteSet(S)
  PROVE  IsFiniteSet({StampLearned(p, r) : r \in S})
<1> DEFINE f == [r \in S |-> StampLearned(p, r)]
<1>1. IsFiniteSet({f[x] : x \in DOMAIN f})
  BY ImageIsFinite
<1>2. {f[x] : x \in DOMAIN f} = {StampLearned(p, r) : r \in S}
  OBVIOUS
<1> QED BY <1>1, <1>2

\* Announced changes are stamped as the table is.
LEMMA StampedAnnounced ==
  ASSUME NEW p, PoolGood(p), NEW plan, SoundPlan(Self, plan),
         Announced(plan.table, plan.changes),
         NEW u, u = Stamped(p, plan.table)
  PROVE  /\ StampedChanges(p, plan.changes) \subseteq Change
         /\ Announced(u, StampedChanges(p, plan.changes))
<1>1. /\ plan.table \in Table
      /\ u.local = [n \in Name |-> IF plan.table.local[n] = NoRoute THEN NoRoute
                                   ELSE StampLocal(p, n, plan.table.local[n])]
      /\ u.routes = {StampLearned(p, r) : r \in plan.table.routes}
  BY StampedParts DEF SoundPlan, SoundTable
<1>2. \A n \in Name : p.port[Ingress(n)] \in Data
  BY KeysListen, PoolPorts, PortsAssumption DEF PoolGood, Alloc
<1>3. ASSUME NEW c \in plan.changes, c.type # "removed", isInternalRoute(c.route),
             NEW d, d = [c EXCEPT !.route = StampRoute(p, c.route)]
      PROVE  d \in Change /\ d.route \in u.routes /\ isInternalRoute(d.route)
  <2>1. c \in Change /\ c.route \in InternalRoute /\ c.route \in plan.table.routes
    BY <1>3, InternalFields DEF SoundPlan, Change, Announced
  <2>2. StampLearned(p, c.route) \in InternalRoute
    BY <2>1, StampKeeps
  <2>3. d = [type |-> c.type, route |-> StampLearned(p, c.route)]
    BY <1>3, <2>1 DEF Change, StampRoute
  <2> QED BY <1>1, <2>1, <2>2, <2>3, InternalFields DEF Change
<1>4. ASSUME NEW c \in plan.changes, c.type # "removed", ~isInternalRoute(c.route),
             NEW d, d = [c EXCEPT !.route = StampRoute(p, c.route)]
      PROVE  /\ d \in Change /\ ~isInternalRoute(d.route)
             /\ d.route.name \in Name /\ u.local[d.route.name] = d.route.data
  <2>1. c \in Change /\ c.route \in LocalRoute
        /\ plan.table.local[c.route.name] = c.route.data
    BY <1>4, InternalFields DEF SoundPlan, Change, Announced
  <2>2. c.route.name \in Name /\ c.route.data \in Data
        /\ c.route = [name |-> c.route.name, data |-> c.route.data]
    BY <2>1 DEF LocalRoute
  <2>3. d = [type |-> c.type,
             route |-> [name |-> c.route.name,
                        data |-> StampLocal(p, c.route.name, c.route.data)]]
    <3>1. StampRoute(p, c.route) =
            [name |-> c.route.name, data |-> StampLocal(p, c.route.name, c.route.data)]
      BY <1>4, <2>2 DEF StampRoute
    <3> QED BY <1>4, <2>1, <3>1 DEF Change
  <2>4. StampLocal(p, c.route.name, c.route.data) \in Data
    BY <1>2, <2>2 DEF StampLocal
  <2>5. d.route \in LocalRoute /\ d.route.name = c.route.name
        /\ d.route.data = StampLocal(p, c.route.name, c.route.data)
    BY <2>2, <2>3, <2>4 DEF LocalRoute
  <2>6. c.route.data # NoRoute
    BY <2>2, NameAssumption DEF NoRoute
  <2>7. u.local[c.route.name] = StampLocal(p, c.route.name, c.route.data)
    BY <1>1, <2>1, <2>2, <2>6
  <2> QED BY <2>1, <2>2, <2>3, <2>5, <2>7, InternalFields DEF Change
<1>5. ASSUME NEW d \in StampedChanges(p, plan.changes)
      PROVE  /\ d \in Change
             /\ d.type # "removed" =>
                  IF isInternalRoute(d.route) THEN d.route \in u.routes
                  ELSE d.route.name \in Name /\ u.local[d.route.name] = d.route.data
  <2>1. PICK c \in plan.changes :
          d = IF c.type = "removed" THEN c ELSE [c EXCEPT !.route = StampRoute(p, @)]
    BY DEF StampedChanges
  <2>2. c \in Change
    BY DEF SoundPlan
  <2>3. CASE c.type = "removed"
    BY <2>1, <2>2, <2>3
  <2>4. CASE c.type # "removed" /\ isInternalRoute(c.route)
    BY <1>3, <2>1, <2>4
  <2>5. CASE c.type # "removed" /\ ~isInternalRoute(c.route)
    BY <1>4, <2>1, <2>5
  <2> QED BY <2>3, <2>4, <2>5
<1> QED
  BY <1>5 DEF Announced

-----------------------------------------------------------------------------
(* The inductive invariant. *)

\* The services that may register here, and those that peers may announce.
OwnNames == {act.name : act \in {z \in Happens : z.type = "LocalRouteCreate"}}
LearnedNames ==
  {i.name : i \in UNION {act.items : act \in {z \in Happens : z.type = "InternalProtocolUpdate"}}}

\* No service registers here under a name that peers announce.
NamesApart == OwnNames \cap LearnedNames = {}

\* A table that dispatches have led to.
LedTo(t) ==
  /\ SoundTable(Self, t) /\ IsFiniteSet(t.routes)
  /\ \A n \in Name : t.local[n] # NoRoute => n \in OwnNames
  /\ \A r \in t.routes : r.name \in LearnedNames

\* A service carries the port of its listener.
OwnPorted(t, p) ==
  \A n \in Name : t.local[n] # NoRoute => t.local[n] = p.port[Ingress(n)]

\* So does a learned route whose listener has one; a listener has none only if
\* no port is free.
LearnedPorted(t, p) ==
  \A r \in t.routes : p.port[Egress(r)] # Unset => r.data = p.port[Egress(r)]
AllPorted(t, p) ==
  p.free # <<>> => \A k \in Waiting(t) \cup Learning(t) : p.port[k] # Unset

PortsInv ==
  /\ LedTo(table) /\ LedTo(recovered)
  /\ PoolGood(ports)
  /\ changes \subseteq Change /\ Announced(table, changes)
  /\ dispatches \in 0..MaxDispatches /\ recoveries \in 0..MaxRecoveries
  /\ recoveries = 0 =>
       /\ NamesApart => OwnPorted(table, ports)
       /\ LearnedPorted(table, ports) /\ AllPorted(table, ports)

LEMMA PlanReached ==
  ASSUME NEW t, LedTo(t), NEW action \in Happens,
         NEW plan, plan = Plan(Self, t, action, Clock)
  PROVE  /\ SoundPlan(Self, plan) /\ Announced(plan.table, plan.changes)
         /\ IsFiniteSet(Removed(plan)) /\ LedTo(plan.table)
         /\ \A n \in Name : plan.table.local[n] # NoRoute =>
              plan.table.local[n] = IF t.local[n] = NoRoute THEN Unset ELSE t.local[n]
         /\ \A r \in Removed(plan) :
              r.name \in LearnedNames \/ plan.table.local[r.name] = NoRoute
<1>1. action \in Action /\ SoundTable(Self, t) /\ t \in Table
  BY HappensAssumption DEF LedTo, SoundTable
<1>2. SoundPlan(Self, plan) /\ Announced(plan.table, plan.changes)
  BY <1>1, PlanSound, PlanAnnounces DEF Clock
<1>3. t.local \in [Name -> Data \cup {NoRoute}]
  BY <1>1 DEF Table
<1>4. CASE action.type \in LocalTypes
  <2>1. Locally(t, action, plan)
    BY <1>1, <1>4, LocalPlans
  <2>2. \/ action.type = "LocalRouteCreate" /\ action.data = Unset
        \/ action.type = "LocalRouteDelete"
    BY <1>4, HappensAssumption DEF LocalTypes
  <2>3. action.type = "LocalRouteCreate" => action.name \in OwnNames
    BY DEF OwnNames
  <2>4. \/ Removed(plan) = {}
        \/ /\ Removed(plan) = {AsLocal(action.name, t.local[action.name])}
           /\ plan.table.local[action.name] = NoRoute
    BY <2>1 DEF Locally, Removed, Announce
  <2>5. IsFiniteSet(Removed(plan))
    BY <2>4, FS_EmptySet, FS_Singleton
  <2>6. \A r \in Removed(plan) : plan.table.local[r.name] = NoRoute
    BY <2>4 DEF AsLocal
  <2>7. ASSUME NEW n \in Name, plan.table.local[n] # NoRoute
        PROVE  /\ plan.table.local[n] = IF t.local[n] = NoRoute THEN Unset ELSE t.local[n]
               /\ n \in OwnNames
    <3>1. CASE n # action.name
      BY <2>1, <2>7, <3>1 DEF Locally, LedTo
    <3>2. CASE n = action.name
      <4>1. plan.table.local[n] \in {t.local[n], Unset} /\ n \in OwnNames
        BY <2>1, <2>2, <2>3, <2>7, <3>2 DEF Locally
      <4>2. plan.table.local[n] = IF t.local[n] = NoRoute THEN Unset ELSE t.local[n]
        <5>1. plan = PlanLocalRouteCreate(t, n, action.data) /\ action.data = Unset
          BY <2>1, <2>2, <2>7, <3>2, PlanCases DEF Locally
        <5>2. t = [peers |-> t.peers, local |-> t.local, routes |-> t.routes]
          BY <1>1 DEF Table
        <5> QED BY <1>3, <2>7, <5>1, <5>2 DEF PlanLocalRouteCreate, Changed, NoChange
      <4> QED BY <4>1, <4>2
    <3> QED BY <3>1, <3>2
  <2>8. LedTo(plan.table)
    BY <1>2, <2>1, <2>7 DEF Locally, LedTo, SoundPlan
  <2> QED BY <1>2, <2>5, <2>6, <2>7, <2>8
<1>5. CASE action.type \notin LocalTypes
  <2>1. Elsewhere(t, action, plan)
    BY <1>1, <1>5, LearnedPlans
  <2>2. IsFiniteSet(Sources(t, action))
    BY HappensAssumption, SourcesFinite DEF LedTo
  <2>3. Removed(plan) \subseteq Sources(t, action) /\ plan.table.routes \subseteq Sources(t, action)
    BY <2>1 DEF Removed, Elsewhere
  <2>4. IsFiniteSet(Removed(plan)) /\ IsFiniteSet(plan.table.routes)
    BY <2>2, <2>3, FS_Subset
  <2>5. \A r \in Sources(t, action) : r.name \in LearnedNames
    <3>1. \A r \in t.routes : MarkStale(r).name = r.name
      <4>1. t.routes \subseteq InternalRoute
        BY <1>1 DEF Table
      <4> QED BY <4>1 DEF MarkStale, InternalRoute
    <3>2. action.type = "InternalProtocolUpdate" =>
            \A i \in action.items : Learned(action.peer, i).name \in LearnedNames
      BY DEF LearnedNames, Learned
    <3> QED BY <3>1, <3>2 DEF LedTo, Sources
  <2>6. plan.table.local = t.local
    BY <2>1 DEF Elsewhere
  <2>7. LedTo(plan.table)
    BY <1>2, <2>3, <2>4, <2>5, <2>6 DEF LedTo, SoundPlan
  <2> QED BY <1>2, <2>3, <2>4, <2>5, <2>6, <2>7
<1> QED BY <1>4, <1>5

\* What a dispatch makes of the table and the ports.
LEMMA DispatchReached ==
  ASSUME NEW t, LedTo(t), NEW p, PoolGood(p), NEW action \in Happens,
         NEW plan, plan = Plan(Self, t, action, Clock),
         NEW gone \in SetToSeqs(Removed(plan)),
         NEW own \in SetToSeqs(Waiting(plan.table)),
         NEW learned \in SetToSeqs(Learning(plan.table)),
         NEW q, q = allocateAll(ReleaseRoutes(p, gone), own \o learned),
         NEW u, u = Stamped(q, plan.table)
  PROVE  /\ LedTo(u) /\ PoolGood(q)
         /\ StampedChanges(q, plan.changes) \subseteq Change
         /\ Announced(u, StampedChanges(q, plan.changes))
         /\ LearnedPorted(u, q) /\ AllPorted(u, q)
         /\ NamesApart /\ OwnPorted(t, p) => OwnPorted(u, q)
<1>1. /\ SoundPlan(Self, plan) /\ Announced(plan.table, plan.changes)
      /\ IsFiniteSet(Removed(plan)) /\ LedTo(plan.table)
      /\ \A n \in Name : plan.table.local[n] # NoRoute =>
           plan.table.local[n] = IF t.local[n] = NoRoute THEN Unset ELSE t.local[n]
      /\ \A r \in Removed(plan) :
           r.name \in LearnedNames \/ plan.table.local[r.name] = NoRoute
  BY PlanReached
<1>2. /\ PoolGood(q)
      /\ \A n \in Name :
           /\ \A r \in Removed(plan) : r.name # n
           /\ p.port[Ingress(n)] # Unset
           => q.port[Ingress(n)] = p.port[Ingress(n)]
      /\ q.free # <<>> =>
           \A k \in Waiting(plan.table) \cup Learning(plan.table) : q.port[k] # Unset
  <2>1. Reallocated(p, plan, q)
    BY <1>1, DispatchAllocates
  <2> QED BY <2>1 DEF Reallocated
<1>3. plan.table \in Table /\ plan.table.routes \subseteq InternalRoute
  <2>1. plan.table \in Table
    BY <1>1 DEF SoundPlan, SoundTable
  <2> QED BY <2>1 DEF Table
<1>4. /\ u \in Table /\ u.peers = plan.table.peers
      /\ u.local = [n \in Name |-> IF plan.table.local[n] = NoRoute THEN NoRoute
                                   ELSE StampLocal(q, n, plan.table.local[n])]
      /\ u.routes = {StampLearned(q, r) : r \in plan.table.routes}
      /\ u.routes \subseteq InternalRoute
  BY <1>2, <1>3, StampedParts
<1>5. \A s \in u.routes : \E r \in plan.table.routes :
        s = StampLearned(q, r) /\ s.name = r.name /\ Egress(s) = Egress(r)
  BY <1>2, <1>3, <1>4, StampFields
<1>6. LedTo(u)
  <2>1. SoundTable(Self, u)
    BY <1>1, <1>2, StampedSound DEF SoundPlan
  <2>2. IsFiniteSet(u.routes)
    BY <1>1, <1>4, StampedFinite DEF LedTo
  <2>3. \A n \in Name : u.local[n] # NoRoute => n \in OwnNames
    BY <1>1, <1>4 DEF LedTo
  <2>4. \A s \in u.routes : s.name \in LearnedNames
    BY <1>1, <1>5 DEF LedTo
  <2> QED BY <2>1, <2>2, <2>3, <2>4 DEF LedTo
<1>7. /\ StampedChanges(q, plan.changes) \subseteq Change
      /\ Announced(u, StampedChanges(q, plan.changes))
  BY <1>1, <1>2, StampedAnnounced
<1>8. LearnedPorted(u, q)
  <2> SUFFICES ASSUME NEW s \in u.routes, q.port[Egress(s)] # Unset
               PROVE  s.data = q.port[Egress(s)]
    BY DEF LearnedPorted
  <2>1. PICK r \in plan.table.routes : s = StampLearned(q, r) /\ Egress(s) = Egress(r)
    BY <1>5
  <2> QED BY <1>2, <1>3, <2>1, StampKeeps
<1>9. AllPorted(u, q)
  <2>1. Waiting(u) \subseteq Waiting(plan.table)
    BY <1>4 DEF Waiting, StampLocal, NoRoute, Unset, Missing
  <2>2. Learning(u) \subseteq Learning(plan.table)
    BY <1>5 DEF Learning
  <2> QED BY <1>2, <2>1, <2>2 DEF AllPorted
<1>10. ASSUME NamesApart, OwnPorted(t, p) PROVE OwnPorted(u, q)
  <2> SUFFICES ASSUME NEW n \in Name, u.local[n] # NoRoute
               PROVE  u.local[n] = q.port[Ingress(n)]
    BY DEF OwnPorted
  <2>1. plan.table.local[n] # NoRoute /\ u.local[n] = StampLocal(q, n, plan.table.local[n])
    BY <1>4
  <2>2. CASE plan.table.local[n] = Unset
    BY <2>1, <2>2 DEF StampLocal
  <2>3. CASE plan.table.local[n] # Unset
    <3>1. plan.table.local[n] = t.local[n] /\ t.local[n] # NoRoute
      BY <1>1, <2>1, <2>3
    <3>2. p.port[Ingress(n)] = t.local[n]
      BY <1>10, <3>1 DEF OwnPorted
    <3>3. n \in OwnNames
      BY <1>1, <2>1 DEF LedTo
    <3>4. \A r \in Removed(plan) : r.name # n
      BY <1>1, <1>10, <2>1, <3>3 DEF NamesApart
    <3>5. q.port[Ingress(n)] = p.port[Ingress(n)]
      BY <1>2, <2>3, <3>1, <3>2, <3>4
    <3> QED BY <2>1, <2>3, <3>1, <3>2, <3>5 DEF StampLocal
  <2> QED BY <2>2, <2>3
<1> QED BY <1>2, <1>6, <1>7, <1>8, <1>9, <1>10

-----------------------------------------------------------------------------
(* The theorems. *)

LEMMA AllocatorStarts == PoolGood(createPortAllocator)
<1> DEFINE p == createPortAllocator
<1>1. p = [port |-> [k \in Listener |-> Unset], free |-> Pool]
  BY DEF createPortAllocator
<1>2. Pool \in Seq(ToSet(Pool))
  <2>1. Pool \in Seq(Data)
    BY PortsAssumption
  <2>2. \A i \in 1..Len(Pool) : Pool[i] \in ToSet(Pool)
    BY <2>1 DEF ToSet
  <2> QED BY <2>1, <2>2, SeqDef
<1>3. InUse(p) = {}
  BY <1>1 DEF InUse
<1> QED
  BY <1>1, <1>2, <1>3, PortsAssumption DEF PoolGood, Alloc

LEMMA NewTableReached == LedTo(newRouteTable)
<1>1. SoundTable(Self, newRouteTable)
  <2>1. AbsentPeer \in PeerRecord
    BY DEF AbsentPeer, PeerRecord, Status, NoInfo
  <2> QED
    BY <2>1 DEF newRouteTable, SoundTable, Table, UniqueIn, LoopFreeIn, StaleOwnedIn
<1> QED
  BY <1>1, FS_EmptySet DEF LedTo, newRouteTable

LEMMA PortsInvInit == PortsInit => PortsInv
<1> SUFFICES ASSUME PortsInit PROVE PortsInv
  OBVIOUS
<1>1. LedTo(table) /\ LedTo(recovered) /\ PoolGood(ports)
  BY AllocatorStarts, NewTableReached DEF PortsInit
<1>2. OwnPorted(table, ports) /\ LearnedPorted(table, ports) /\ AllPorted(table, ports)
  BY DEF PortsInit, newRouteTable, OwnPorted, LearnedPorted, AllPorted, Waiting, Learning,
         NoRoute, Unset, Missing
<1> QED
  BY <1>1, <1>2, PortsAssumption DEF PortsInit, PortsInv, Announced

LEMMA PortsInvNext == PortsInv /\ [PortsNext]_portsVars => PortsInv'
<1> SUFFICES ASSUME PortsInv, [PortsNext]_portsVars PROVE PortsInv'
  OBVIOUS
<1>1. ASSUME NEW action \in Happens, Dispatch(action) PROVE PortsInv'
  <2> DEFINE plan == Plan(Self, table, action, Clock)
  <2>1. PICK gone \in SetToSeqs(Removed(plan)), own \in SetToSeqs(Waiting(plan.table)),
             learned \in SetToSeqs(Learning(plan.table)) :
          ports' = allocateAll(ReleaseRoutes(ports, gone), own \o learned)
    BY <1>1 DEF Dispatch
  <2>2. /\ table' = Stamped(ports', plan.table)
        /\ changes' = StampedChanges(ports', plan.changes)
        /\ recovered' = Plan(Self, recovered, action, Clock).table
        /\ dispatches < MaxDispatches /\ dispatches' = dispatches + 1
        /\ recoveries' = recoveries
    BY <1>1 DEF Dispatch
  <2>3. LedTo(recovered')
    BY <2>2, PlanReached DEF PortsInv
  <2>4. /\ LedTo(table') /\ PoolGood(ports')
        /\ changes' \subseteq Change /\ Announced(table', changes')
        /\ LearnedPorted(table', ports') /\ AllPorted(table', ports')
        /\ NamesApart /\ OwnPorted(table, ports) => OwnPorted(table', ports')
    <3> DEFINE q == ports'
               u == table'
    <3>1. /\ LedTo(u) /\ PoolGood(q)
          /\ StampedChanges(q, plan.changes) \subseteq Change
          /\ Announced(u, StampedChanges(q, plan.changes))
          /\ LearnedPorted(u, q) /\ AllPorted(u, q)
          /\ NamesApart /\ OwnPorted(table, ports) => OwnPorted(u, q)
      <4> HIDE DEF plan
      <4>1. plan = Plan(Self, table, action, Clock) /\ LedTo(table) /\ PoolGood(ports)
        BY DEF plan, PortsInv
      <4> QED BY <2>1, <2>2, <4>1, DispatchReached
    <3> QED BY <2>2, <3>1
  <2>5. dispatches' \in 0..MaxDispatches
    BY <2>2, PortsAssumption DEF PortsInv
  <2> HIDE DEF plan
  <2> QED BY <2>2, <2>3, <2>4, <2>5 DEF PortsInv
<1>2. CASE Compact
  BY <1>2 DEF Compact, PortsInv
<1>3. CASE Restart
  <2>1. LedTo(table') /\ PoolGood(ports')
    BY <1>3, AllocatorStarts DEF Restart, PortsInv
  <2>2. recoveries' \in 0..MaxRecoveries /\ recoveries' # 0
    BY <1>3, PortsAssumption DEF Restart, PortsInv
  <2>3. changes' = {} /\ recovered' = recovered /\ dispatches' = dispatches
    BY <1>3 DEF Restart
  <2> QED BY <2>1, <2>2, <2>3 DEF PortsInv, Announced
<1>4. CASE UNCHANGED portsVars
  BY <1>4 DEF portsVars, PortsInv
<1> QED
  BY <1>1, <1>2, <1>3, <1>4 DEF PortsNext

\* The table and what recovery would make of it stay sound, every port of the
\* pool is free or serves one listener, what is announced is in the table, and
\* until a restart routes carry the ports of their listeners.
THEOREM PortsInvariant == PortsSpec => []PortsInv
BY PortsInvInit, PortsInvNext, PTL DEF PortsSpec

LEMMA LengthWithinPool ==
  ASSUME NEW s \in Seq(ToSet(Pool)), IsInjective(s)
  PROVE  Len(s) <= Len(Pool)
<1> DEFINE D == 1..Len(s)
           E == 1..Len(Pool)
<1>1. Len(s) \in Nat /\ Len(Pool) \in Nat /\ DOMAIN Pool = E
  BY PortsAssumption
<1>2. /\ IsFiniteSet(D) /\ Cardinality(D) = Len(s)
      /\ IsFiniteSet(E) /\ Cardinality(E) = Len(Pool)
  <2>1. \A n \in Nat : IsFiniteSet(1..n) /\ Cardinality(1..n) = n
    BY FS_Interval
  <2> QED BY <1>1, <2>1
<1>3. Pool \in Surjection(E, ToSet(Pool))
  <2>1. Pool \in [E -> ToSet(Pool)]
    BY PortsAssumption DEF ToSet
  <2> QED BY <1>1, <2>1 DEF ToSet, Surjection
<1>4. IsFiniteSet(ToSet(Pool)) /\ Cardinality(ToSet(Pool)) <= Len(Pool)
  BY <1>2, <1>3, FS_Surjection
<1>5. s \in Injection(D, ToSet(Pool))
  BY DEF Injection
<1>6. Cardinality(D) <= Cardinality(ToSet(Pool))
  BY <1>4, <1>5, FS_Injection
<1>7. Cardinality(ToSet(Pool)) \in Nat
  BY <1>4, FS_CardinalityType
<1> QED
  BY <1>1, <1>2, <1>4, <1>6, <1>7

\* The parts of the state have their types, however often ports are allocated
\* and released and the process restarts (port-allocator.ts, bus.ts).
THEOREM PortsTypeCorrect == PortsSpec => []PortsTypeOK
<1>1. PortsInv => PortsTypeOK
  BY LengthWithinPool
     DEF PortsInv, PortsTypeOK, LedTo, SoundTable, PoolGood, Alloc, Change
<1> QED
  BY <1>1, PortsInvariant, PTL

\* No port serves two listeners, none is free and in use and none is lost, for
\* every pool and every order of allocations and releases (port-allocator.ts).
THEOREM PoolStaysIntact == PortsSpec => []PoolIntact
<1>1. PortsInv => PoolIntact
  <2> SUFFICES ASSUME PortsInv PROVE PoolIntact
    OBVIOUS
  <2>1. {ports.port[k] : k \in Bound} = InUse(ports)
    BY DEF Bound, InUse
  <2> QED
    BY <2>1 DEF PortsInv, PoolGood, PoolIntact, Bound
<1> QED
  BY <1>1, PortsInvariant, PTL

\* What is announced to peers is what is in the table, ports included: every
\* change of a commit carries the port its route was stamped with (bus.ts
\* planPortAllocations).
THEOREM AnnouncementsMatch == PortsSpec => []AnnouncedAsCommitted
<1>1. PortsInv => AnnouncedAsCommitted
  BY DEF PortsInv, Announced, AnnouncedAsCommitted
<1> QED
  BY <1>1, PortsInvariant, PTL

-----------------------------------------------------------------------------
(* What envoy listens on. *)

\* A listener is on the port of its key.
LEMMA ListenersAllocated ==
  ASSUME NEW m \in Snapshot.listeners
  PROVE  m.port = ports.port[m.name] /\ m.port # Missing
<1> DEFINE config == RouteConfig
           own == {MakeListener(IngressKey(r.name), r, config.portAllocations[IngressKey(r.name)]) :
                     r \in LocalServed(config)}
           learned == {MakeListener(EgressKey(r.name, r.peer), r,
                         config.portAllocations[EgressKey(r.name, r.peer)]) :
                         r \in InternalServed(config)}
<1>1. Snapshot.listeners = own \cup learned
  BY DEF Snapshot, buildXdsSnapshot
<1>2. config.portAllocations = ports.port
  BY DEF RouteConfig
<1>3. CASE m \in own
  <2>1. PICK r \in LocalServed(config) :
          m = MakeListener(IngressKey(r.name), r, config.portAllocations[IngressKey(r.name)])
    BY <1>3
  <2>2. m.name = IngressKey(r.name) /\ m.port = config.portAllocations[IngressKey(r.name)]
    BY <2>1 DEF MakeListener
  <2>3. config.portAllocations[IngressKey(r.name)] # Missing
    BY DEF LocalServed
  <2> HIDE DEF config
  <2> QED BY <1>2, <2>2, <2>3
<1>4. CASE m \in learned
  <2>1. PICK r \in InternalServed(config) :
          m = MakeListener(EgressKey(r.name, r.peer), r,
                config.portAllocations[EgressKey(r.name, r.peer)])
    BY <1>4
  <2>2. /\ m.name = EgressKey(r.name, r.peer)
        /\ m.port = config.portAllocations[EgressKey(r.name, r.peer)]
    BY <2>1 DEF MakeListener
  <2>3. config.portAllocations[EgressKey(r.name, r.peer)] # Missing
    BY DEF InternalServed
  <2> HIDE DEF config
  <2> QED BY <1>2, <2>2, <2>3
<1> QED BY <1>1, <1>3, <1>4

LEMMA OwnListens ==
  ASSUME NEW n \in Name, table.local[n] # NoRoute, EndpointOf[n] # Missing,
         ports.port[Ingress(n)] # Missing
  PROVE  \E m \in Snapshot.listeners : m.name = Ingress(n)
<1> DEFINE config == RouteConfig
           r == [name |-> n, protocol |-> ProtocolOf[n], endpoint |-> EndpointOf[n]]
           m == MakeListener(IngressKey(n), r, config.portAllocations[IngressKey(n)])
<1>1. config.portAllocations = ports.port /\ r \in config.local
  BY DEF RouteConfig
<1>2. r \in LocalServed(config)
  <2>1. r.name = n /\ r.endpoint = EndpointOf[n]
    OBVIOUS
  <2> HIDE DEF r, config
  <2> QED BY <1>1, <2>1 DEF LocalServed, Ingress
<1>3. m \in Snapshot.listeners
  <2>1. r.name = n
    OBVIOUS
  <2> HIDE DEF r, config
  <2> QED BY <1>2, <2>1 DEF Snapshot, buildXdsSnapshot, config
<1>4. m.name = Ingress(n)
  BY DEF MakeListener, Ingress
<1> QED BY <1>3, <1>4

LEMMA LearnedListens ==
  ASSUME NEW s \in table.routes, EnvoyAddress[s.peer] # Missing, s.data # Missing,
         ports.port[Egress(s)] # Missing
  PROVE  \E m \in Snapshot.listeners : m.name = Egress(s)
<1> DEFINE config == RouteConfig
           r == [name |-> s.name, peer |-> s.peer, origin |-> s.origin,
                 protocol |-> ProtocolOf[s.name], port |-> s.data,
                 address |-> EnvoyAddress[s.peer]]
           m == MakeListener(EgressKey(s.name, s.peer), r,
                  config.portAllocations[EgressKey(s.name, s.peer)])
<1>1. config.portAllocations = ports.port /\ r \in config.internal
  BY DEF RouteConfig
<1>2. /\ r.name = s.name /\ r.peer = s.peer /\ r.port = s.data
      /\ r.address = EnvoyAddress[s.peer]
  OBVIOUS
<1>3. r \in InternalServed(config)
  <2> HIDE DEF r, config
  <2> QED BY <1>1, <1>2 DEF InternalServed, Egress
<1>4. m \in Snapshot.listeners
  <2> HIDE DEF r, config
  <2> QED BY <1>2, <1>3 DEF Snapshot, buildXdsSnapshot, config
<1>5. m.name = Egress(s)
  BY DEF MakeListener, Egress
<1> QED BY <1>4, <1>5

\* Hence envoy listens on the port of a listener it has, and on no other.
LEMMA ListeningIs ==
  ASSUME NEW key
  PROVE  /\ ports.port[key] = Missing => Listening(key) = {}
         /\ (\E m \in Snapshot.listeners : m.name = key) => Listening(key) = {ports.port[key]}
<1>1. \A m \in Snapshot.listeners : m.name = key =>
        m.port = ports.port[key] /\ m.port # Missing
  BY ListenersAllocated
<1> QED
  BY <1>1 DEF Listening

\* Where no service registers under a name that peers announce, envoy listens
\* for every service and for every learned route on the port that the route has
\* in the table, until a restart; only a pool that has run out leaves one
\* without (bus.ts handleEnvoySync, resources.ts).  Under a
\* shared name it need not: the removal of the learned route releases the
\* port of the local one.
THEOREM ServedAsCommitted == NamesApart => (PortsSpec => []RoutesServed)
<1> SUFFICES ASSUME NamesApart PROVE PortsSpec => []RoutesServed
  OBVIOUS
<1>1. PortsInv => RoutesServed
  <2> SUFFICES ASSUME PortsInv, recoveries = 0 PROVE RoutesServed
    BY DEF RoutesServed
  <2>1. OwnPorted(table, ports) /\ LearnedPorted(table, ports) /\ AllPorted(table, ports)
    BY DEF PortsInv
  <2>2. /\ table.routes \subseteq InternalRoute
        /\ Waiting(table) \cup Learning(table) \subseteq Listener
    <3>1. table \in Table
      BY DEF PortsInv, LedTo, SoundTable
    <3>2. table.routes \subseteq InternalRoute
      BY <3>1 DEF Table
    <3> QED BY <3>2, KeysListen DEF Waiting, Learning
  <2>3. ASSUME NEW n \in Name, table.local[n] # NoRoute, EndpointOf[n] # Missing
        PROVE  \/ Listening(Ingress(n)) = {table.local[n]}
               \/ table.local[n] = Unset /\ Listening(Ingress(n)) = {}
    <3>1. table.local[n] = ports.port[Ingress(n)]
      BY <2>1, <2>3 DEF OwnPorted
    <3>2. CASE ports.port[Ingress(n)] = Missing
      BY <3>1, <3>2, ListeningIs DEF Unset
    <3>3. CASE ports.port[Ingress(n)] # Missing
      BY <2>3, <3>1, <3>3, OwnListens, ListeningIs
    <3> QED BY <3>2, <3>3
  <2>4. ASSUME NEW r \in table.routes, EnvoyAddress[r.peer] # Missing
        PROVE  \/ Listening(Egress(r)) = {r.data}
               \/ Listening(Egress(r)) = {} /\ Egress(r) \notin Bound
    <3>1. CASE ports.port[Egress(r)] = Missing
      BY <3>1, ListeningIs DEF Bound, Unset
    <3>2. CASE ports.port[Egress(r)] # Missing
      <4>1. r.data = ports.port[Egress(r)]
        BY <2>1, <3>2 DEF LearnedPorted, Unset
      <4> QED BY <2>4, <3>2, <4>1, LearnedListens, ListeningIs
    <3> QED BY <3>1, <3>2
  <2>5. ports.free # <<>> => \A k \in Waiting(table) \cup Learning(table) : k \in Bound
    BY <2>1, <2>2 DEF AllPorted, Bound
  <2> QED BY <2>3, <2>4, <2>5 DEF RoutesServed
<1> QED
  BY <1>1, PortsInvariant, PTL
===============================================================================
