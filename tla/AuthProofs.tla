------------------------------- MODULE AuthProofs -------------------------------
(***************************************************************************)
(* Proofs about the token service.                                         *)
(*                                                                         *)
(* First the keys (KeyManager): the type invariant for any callers of      *)
(* rotate, the three safety invariants for one caller that awaits each of  *)
(* its calls (with two they do not hold).                                  *)
(*                                                                         *)
(* Then the service (Auth): its steps are steps of the key manager or      *)
(* leave the keys alone, so that what holds of the keys holds here too; an *)
(* orchestrator that is up has a fresh token; a token revoked before it    *)
(* was presented is refused; a token that is sound all along is accepted.  *)
(***************************************************************************)
EXTENDS Auth, TLAPS

-----------------------------------------------------------------------------
(* The inductive invariant for one caller r. *)

\* Keys that were really made; kid and material belong together.
Genuine == {k \in Key : k.kid = k.material /\ k.kid \in 1..made}
Genuine0 == Genuine \cup {NoKey}

AllGenuine(r) ==
  /\ current \in Genuine0 /\ previous \subseteq Genuine
  /\ store.current \in Genuine0 /\ store.previous \subseteq Genuine
  /\ signed \subseteq Genuine
  /\ rotation[r].old \in Genuine0 /\ rotation[r].head \in Genuine0
  /\ rotation[r].list \subseteq Genuine

PhaseInv(r) ==
  /\ phase = "up" => current # NoKey
  /\ phase = "down" => current = NoKey /\ ~Running(r)
  /\ rotation[r].second => rotation[r].at \in {"exporting", "collecting"}
  /\ rotation[r].at \in {"generating", "exporting"} => rotation[r].live

\* No key is at once the one that signs, or will after a restart, and retired
\* or about to be.
Apart(r) ==
  /\ RetiredStaysRetired
  /\ rotation[r].at \in {"exporting", "collecting", "saved"} => current # rotation[r].old
  /\ rotation[r].at = "collecting" =>
       /\ rotation[r].head \notin previous \cup {rotation[r].old}
       /\ ~rotation[r].live => rotation[r].head \notin rotation[r].list
  /\ rotation[r].at = "saved" => store.current # rotation[r].old

\* What the row, or the export on its way to the row, has of the memory.
InStep(r) ==
  current # NoKey =>
    /\ rotation[r].at \in {"none", "generating"} => store = Row(current, previous)
    /\ rotation[r].at = "generating" => current = rotation[r].old
    /\ rotation[r].at = "exporting" => rotation[r].jwk = current.material
    /\ rotation[r].at = "collecting" => rotation[r].live /\ rotation[r].head = current
    /\ rotation[r].at = "saved" \/ rotation[r].second => store.current = current

\* Where the keys of tokens that must verify are, in memory and in the row.
Kept(r) ==
  /\ current # NoKey =>
       /\ signed \ excused \subseteq
            {current} \cup previous \cup (IF Running(r) THEN {rotation[r].old} ELSE {})
       /\ rotation[r].second => rotation[r].old \in previous \cup excused
  /\ current = NoKey /\ Running(r) => signed \subseteq excused
  /\ signed \ (excused \cup CutShort(r)) \subseteq {store.current} \cup store.previous

KeyInv(r) == TypeOK /\ AllGenuine(r) /\ PhaseInv(r) /\ Apart(r) /\ InStep(r) /\ Kept(r)
-----------------------------------------------------------------------------
(* Type correctness, for any set of callers. *)

\* The keys and rotations an action makes have their types.
LEMMA PartsTyped ==
  ASSUME TypeOK
  PROVE  /\ FreshKey \in Key /\ FreshKey # NoKey /\ NoKey \in Key
         /\ Idle \in Rotation
         /\ Detached \in [Rotator -> Rotation]
         /\ \A r \in Rotator : Detached[r].at = rotation[r].at /\ Detached[r].old = rotation[r].old
<1>1. /\ FreshKey \in Key /\ FreshKey # NoKey /\ NoKey \in Key
      /\ Idle \in Rotation
  BY DEF TypeOK, FreshKey, NoKey, Key, Idle, Rotation, Awaits
<1>2. ASSUME NEW r \in Rotator
      PROVE  [rotation[r] EXCEPT !.live = FALSE, !.list = previous] \in Rotation
  BY DEF TypeOK, Rotation
<1> QED
  BY <1>1, <1>2 DEF TypeOK, Detached, Rotation

\* persist started again leaves a rotation with its type and its old key.
LEMMA PersistTyped ==
  ASSUME TypeOK, NEW rot \in [Rotator -> Rotation], NEW r \in Rotator
  PROVE  /\ PersistAgain(rot, r) \in [Rotator -> Rotation]
         /\ \A q \in Rotator :
              /\ PersistAgain(rot, r)[q].old = rot[q].old
              /\ q # r => PersistAgain(rot, r)[q].at = rot[q].at
<1> DEFINE again == [rot[r] EXCEPT !.second = TRUE, !.live = TRUE,
                       !.jwk = current.material, !.head = NoKey,
                       !.at = IF current # NoKey THEN "exporting" ELSE "collecting"]
<1>1. PersistAgain(rot, r) = [rot EXCEPT ![r] = again]
  BY DEF PersistAgain
<1>2. current.material \in Nat /\ NoKey \in Key
  BY DEF TypeOK, Key, NoKey
<1>3. again \in Rotation /\ again.old = rot[r].old
  BY <1>2 DEF Rotation, Awaits
<1> QED
  BY <1>1, <1>3 DEF Rotation

\* Every step keeps the types.
LEMMA TypeStep == TypeOK /\ [Next]_vars => TypeOK'
<1> SUFFICES ASSUME TypeOK, [Next]_vars PROVE TypeOK'
  OBVIOUS
<1>0. CASE UNCHANGED vars
  BY <1>0 DEF TypeOK, vars, Running
<1>1. CASE initialize
  BY <1>1, PartsTyped DEF initialize, TypeOK, Row, Running
<1>2. CASE sign
  BY <1>2 DEF sign, TypeOK, Running
<1>3. CASE shutdown
  <2>1. excused' \subseteq Key
    BY <1>3 DEF shutdown, TypeOK
  <2> QED
    BY <1>3, <2>1, PartsTyped DEF shutdown, TypeOK, Running
<1>4. CASE Crash
  <2>1. \A r \in Rotator : CutShort(r) \subseteq Key
    BY DEF TypeOK, CutShort, Rotation
  <2>2. excused' \subseteq Key
    BY <1>4, <2>1 DEF Crash, TypeOK
  <2>3. \A r \in Rotator : ~Running(r)'
    BY <1>4 DEF Crash, Running, Idle
  <2> QED
    BY <1>4, <2>2, <2>3, PartsTyped DEF Crash, TypeOK
<1>5. ASSUME NEW r \in Rotator, NEW immediate \in BOOLEAN, rotate(r, immediate)
      PROVE  TypeOK'
  BY <1>5, PartsTyped DEF rotate, TypeOK, Running, Rotation, Awaits, Idle, Key
<1>6. ASSUME NEW r \in Rotator, generateNewKey(r) PROVE TypeOK'
  <2> DEFINE to == [rotation[r] EXCEPT !.at = "exporting", !.jwk = FreshKey.material]
  <2>a. FreshKey.material \in Nat
    BY DEF TypeOK, FreshKey
  <2>b. to \in Rotation
    BY <2>a DEF TypeOK, Rotation, Awaits
  <2>1. rotation' \in [Rotator -> Rotation]
    BY <1>6, <2>b DEF generateNewKey, TypeOK
  <2>2. \A q \in Rotator : Running(q)' => rotation'[q].old # NoKey
    BY <1>6 DEF generateNewKey, TypeOK, Rotation, Running
  <2> QED
    BY <1>6, <2>1, <2>2, PartsTyped DEF generateNewKey, TypeOK
<1>7. ASSUME NEW r \in Rotator, Collect(r) PROVE TypeOK'
  <2> DEFINE to == [rotation[r] EXCEPT !.at = "collecting",
                      !.head = [kid |-> current.kid, material |-> rotation[r].jwk]]
  <2>a. [kid |-> current.kid, material |-> rotation[r].jwk] \in Key
    BY DEF TypeOK, Rotation, Key
  <2>b. to \in Rotation
    BY <2>a DEF TypeOK, Rotation, Awaits
  <2>1. rotation' \in [Rotator -> Rotation]
    BY <1>7, <2>b DEF Collect, TypeOK
  <2>2. \A q \in Rotator : Running(q)' => rotation'[q].old # NoKey
    BY <1>7 DEF Collect, TypeOK, Rotation, Running
  <2> QED
    BY <1>7, <2>1, <2>2 DEF Collect, TypeOK
<1>8. ASSUME NEW r \in Rotator, Reject(r) PROVE TypeOK'
  BY <1>8, PartsTyped DEF Reject, TypeOK, Running, Idle
<1>9. ASSUME NEW r \in Rotator, Save(r) PROVE TypeOK'
  <2>1. store' \in [current : Key, previous : SUBSET Key]
    BY <1>9 DEF Save, TypeOK, Row, Rotation
  <2>2. /\ rotation' \in [Rotator -> Rotation]
        /\ \A q \in Rotator : Running(q)' => rotation'[q].old # NoKey
    BY <1>9, PartsTyped DEF Save, TypeOK, Running, Rotation, Awaits, Idle
  <2> QED
    BY <1>9, <2>1, <2>2 DEF Save, TypeOK
<1>10. ASSUME NEW r \in Rotator, Retire(r) PROVE TypeOK'
  <2>1. previous' \subseteq Key /\ excused' \subseteq Key
    BY <1>10 DEF Retire, TypeOK, Rotation
  <2>2. PICK rot \in {rotation, Detached} : rotation' = PersistAgain(rot, r)
    BY <1>10 DEF Retire
  <2>3. /\ rot \in [Rotator -> Rotation]
        /\ \A q \in Rotator : rot[q].at = rotation[q].at /\ rot[q].old = rotation[q].old
    BY <2>2, PartsTyped DEF TypeOK
  <2>4. rotation' \in [Rotator -> Rotation]
    BY <2>2, <2>3, PersistTyped
  <2>5. \A q \in Rotator : Running(q)' => rotation'[q].old # NoKey
    <3> SUFFICES ASSUME NEW q \in Rotator, Running(q)' PROVE rotation'[q].old # NoKey
      OBVIOUS
    <3>1. rotation'[q].old = rotation[q].old /\ (q # r => rotation'[q].at = rotation[q].at)
      BY <2>2, <2>3, PersistTyped
    <3>2. Running(r)
      BY <1>10 DEF Retire, Running
    <3> QED
      BY <3>1, <3>2 DEF Running, TypeOK
  <2> QED
    BY <1>10, <2>1, <2>4, <2>5 DEF Retire, TypeOK
<1> QED
  BY <1>0, <1>1, <1>2, <1>3, <1>4, <1>5, <1>6, <1>7, <1>8, <1>9, <1>10 DEF Next

\* persistent.ts: the keys, the row and the rotations have their types, and no
\* rotation replaces a key that is not there, however many callers rotate at once.
THEOREM TypeCorrect == Spec => []TypeOK
<1>1. Init => TypeOK
  BY DEF Init, TypeOK, NoKey, NoRow, Row, Key, Idle, Rotation, Awaits, Running
<1> QED
  BY <1>1, TypeStep, PTL DEF Spec

-----------------------------------------------------------------------------
(* One caller: every step keeps the invariant. *)

\* A fresh key is none of the keys there are.
LEMMA FreshIsNew ==
  ASSUME TypeOK
  PROVE  /\ FreshKey \notin Genuine0
         /\ (made' = made + 1) => FreshKey \in Genuine' /\ Genuine \subseteq Genuine'
         /\ (made' = made) => Genuine' = Genuine
         /\ NoKey \notin Genuine
BY DEF TypeOK, FreshKey, Genuine, Genuine0, NoKey, Key

\* A start takes over the row, or a fresh key.
LEMMA Keep_initialize ==
  ASSUME NEW r, Rotator = {r}, KeyInv(r), initialize
  PROVE  KeyInv(r)'
<1>1. TypeOK /\ TypeOK'
  BY TypeStep DEF KeyInv, Next
<1>2. r \in Rotator /\ FreshKey \notin Genuine0 /\ NoKey \notin Genuine
      /\ ((made' = made + 1) => FreshKey \in Genuine' /\ Genuine \subseteq Genuine')
      /\ ((made' = made) => Genuine' = Genuine)
  BY <1>1, FreshIsNew
<1>3. AllGenuine(r)'
  BY <1>2 DEF initialize, KeyInv, AllGenuine, Genuine0, Row
<1>4. PhaseInv(r)'
  BY <1>2 DEF initialize, KeyInv, PhaseInv, Genuine0
<1>5. Apart(r)'
  BY <1>2 DEF initialize, KeyInv, AllGenuine, PhaseInv, Apart, Genuine0,
     RetiredStaysRetired, Row, Running
<1>6. InStep(r)'
  BY DEF initialize, KeyInv, PhaseInv, InStep, TypeOK, Row, Running
<1>7. Kept(r)'
  BY <1>2 DEF initialize, KeyInv, AllGenuine, PhaseInv, Kept, CutShort, Row, Running
<1> QED
  BY <1>1, <1>3, <1>4, <1>5, <1>6, <1>7 DEF KeyInv

\* Signing adds the current key, which is in the row or excused in time.
LEMMA Keep_sign ==
  ASSUME NEW r, Rotator = {r}, KeyInv(r), sign
  PROVE  KeyInv(r)'
<1>1. TypeOK /\ TypeOK'
  BY TypeStep DEF KeyInv, Next
<1>2. r \in Rotator /\ FreshKey \notin Genuine0 /\ NoKey \notin Genuine
      /\ ((made' = made + 1) => FreshKey \in Genuine' /\ Genuine \subseteq Genuine')
      /\ ((made' = made) => Genuine' = Genuine)
  BY <1>1, FreshIsNew
<1>3. AllGenuine(r)'
  BY <1>2 DEF sign, KeyInv, AllGenuine, Genuine0
<1>4. PhaseInv(r)'
  BY DEF sign, KeyInv, PhaseInv
<1>5. Apart(r)'
  BY DEF sign, KeyInv, Apart, RetiredStaysRetired
<1>6. InStep(r)'
  BY DEF sign, KeyInv, InStep
<1>7. Kept(r)'
  BY DEF sign, KeyInv, InStep, Kept, CutShort, Row, Running
<1> QED
  BY <1>1, <1>3, <1>4, <1>5, <1>6, <1>7 DEF KeyInv

\* A shutdown leaves the row alone.
LEMMA Keep_shutdown ==
  ASSUME NEW r, Rotator = {r}, KeyInv(r), shutdown
  PROVE  KeyInv(r)'
<1>1. TypeOK /\ TypeOK'
  BY TypeStep DEF KeyInv, Next
<1>2. r \in Rotator /\ FreshKey \notin Genuine0 /\ NoKey \notin Genuine
      /\ ((made' = made + 1) => FreshKey \in Genuine' /\ Genuine \subseteq Genuine')
      /\ ((made' = made) => Genuine' = Genuine)
  BY <1>1, FreshIsNew
<1>3. AllGenuine(r)'
  BY <1>2 DEF shutdown, KeyInv, AllGenuine, Genuine0, Detached
<1>4. PhaseInv(r)'
  BY DEF shutdown, KeyInv, PhaseInv, Detached
<1>5. Apart(r)'
  BY DEF shutdown, KeyInv, Apart, RetiredStaysRetired, TypeOK, Running, Detached
<1>6. InStep(r)'
  BY DEF shutdown, InStep
<1>7. Kept(r)'
  BY DEF shutdown, KeyInv, Kept, CutShort, Running, Detached, NoneRuns
<1> QED
  BY <1>1, <1>3, <1>4, <1>5, <1>6, <1>7 DEF KeyInv

\* A crash leaves the row, which has every key that is not excused.
LEMMA Keep_Crash ==
  ASSUME NEW r, Rotator = {r}, KeyInv(r), Crash
  PROVE  KeyInv(r)'
<1>1. TypeOK /\ TypeOK'
  BY TypeStep DEF KeyInv, Next
<1>2. r \in Rotator /\ FreshKey \notin Genuine0 /\ NoKey \notin Genuine
      /\ ((made' = made + 1) => FreshKey \in Genuine' /\ Genuine \subseteq Genuine')
      /\ ((made' = made) => Genuine' = Genuine)
  BY <1>1, FreshIsNew
<1>3. AllGenuine(r)'
  BY <1>2 DEF Crash, KeyInv, AllGenuine, Genuine0, Idle
<1>4. PhaseInv(r)'
  BY DEF Crash, PhaseInv, Running, Idle
<1>5. Apart(r)'
  BY DEF Crash, KeyInv, Apart, RetiredStaysRetired, Idle
<1>6. InStep(r)'
  BY DEF Crash, InStep
<1>7. Kept(r)'
  BY DEF Crash, KeyInv, Kept, Running, Idle
<1> QED
  BY <1>1, <1>3, <1>4, <1>5, <1>6, <1>7 DEF KeyInv

\* A rotation begins with a key that is in the row.
LEMMA Keep_rotate ==
  ASSUME NEW r, Rotator = {r}, KeyInv(r), NEW immediate \in BOOLEAN, rotate(r, immediate)
  PROVE  KeyInv(r)'
<1>1. TypeOK /\ TypeOK'
  BY TypeStep DEF KeyInv, Next
<1>2. r \in Rotator /\ FreshKey \notin Genuine0 /\ NoKey \notin Genuine
      /\ ((made' = made + 1) => FreshKey \in Genuine' /\ Genuine \subseteq Genuine')
      /\ ((made' = made) => Genuine' = Genuine)
  BY <1>1, FreshIsNew
<1>3. AllGenuine(r)'
  BY <1>2 DEF rotate, KeyInv, AllGenuine, Genuine0, Idle
<1>4. PhaseInv(r)'
  BY DEF rotate, KeyInv, PhaseInv, Idle
<1>5. Apart(r)'
  BY DEF rotate, KeyInv, Apart, RetiredStaysRetired
<1>6. InStep(r)'
  BY DEF rotate, KeyInv, InStep, Running, Idle
<1>7. Kept(r)'
  BY DEF rotate, KeyInv, InStep, Kept, Row, Running, Idle
<1> QED
  BY <1>1, <1>3, <1>4, <1>5, <1>6, <1>7 DEF KeyInv

\* The new key differs from the old one and all others.
LEMMA Keep_generateNewKey ==
  ASSUME NEW r, Rotator = {r}, KeyInv(r), generateNewKey(r)
  PROVE  KeyInv(r)'
<1>1. TypeOK /\ TypeOK'
  BY TypeStep DEF KeyInv, Next
<1>2. r \in Rotator /\ FreshKey \notin Genuine0 /\ NoKey \notin Genuine
      /\ ((made' = made + 1) => FreshKey \in Genuine' /\ Genuine \subseteq Genuine')
      /\ ((made' = made) => Genuine' = Genuine)
  BY <1>1, FreshIsNew
<1>3. AllGenuine(r)'
  BY <1>2 DEF generateNewKey, KeyInv, AllGenuine, Genuine0, TypeOK
<1>4. PhaseInv(r)'
  BY <1>2 DEF generateNewKey, KeyInv, PhaseInv, Genuine0, TypeOK, Running
<1>5. Apart(r)'
  BY <1>2 DEF generateNewKey, KeyInv, AllGenuine, Apart, Genuine0,
     RetiredStaysRetired, TypeOK
<1>6. InStep(r)'
  BY DEF generateNewKey, KeyInv, PhaseInv, InStep, TypeOK
<1>7. Kept(r)'
  BY <1>2 DEF generateNewKey, KeyInv, PhaseInv, InStep, Kept, Genuine0, TypeOK, Row,
     Running
<1> QED
  BY <1>1, <1>3, <1>4, <1>5, <1>6, <1>7 DEF KeyInv

\* The export is of the current key.
LEMMA Keep_Collect ==
  ASSUME NEW r, Rotator = {r}, KeyInv(r), Collect(r)
  PROVE  KeyInv(r)'
<1>1. TypeOK /\ TypeOK'
  BY TypeStep DEF KeyInv, Next
<1>2. r \in Rotator /\ FreshKey \notin Genuine0 /\ NoKey \notin Genuine
      /\ ((made' = made + 1) => FreshKey \in Genuine' /\ Genuine \subseteq Genuine')
      /\ ((made' = made) => Genuine' = Genuine)
  BY <1>1, FreshIsNew
<1>2a. /\ rotation'[r].at = "collecting" /\ rotation'[r].head = current
      /\ rotation'[r].second = rotation[r].second /\ rotation'[r].live = rotation[r].live
      /\ rotation'[r].old = rotation[r].old /\ rotation'[r].list = rotation[r].list
  <2>1. current = [kid |-> current.kid, material |-> rotation[r].jwk]
    BY <1>1, <1>2 DEF Collect, KeyInv, InStep, TypeOK, Key
  <2> QED
    BY <1>1, <1>2, <2>1 DEF Collect, TypeOK, Rotation
<1>2b. /\ UNCHANGED <<phase, current, previous, store, made, signed, excused>>
      /\ rotation[r].at = "exporting" /\ current # NoKey
  BY DEF Collect
<1>3. AllGenuine(r)'
  BY <1>2, <1>2a, <1>2b DEF KeyInv, AllGenuine, Genuine0
<1>4. PhaseInv(r)'
  BY <1>2a, <1>2b DEF KeyInv, PhaseInv
<1>5. Apart(r)'
  BY <1>2a, <1>2b DEF KeyInv, PhaseInv, Apart, RetiredStaysRetired
<1>6. InStep(r)'
  BY <1>2a, <1>2b DEF KeyInv, PhaseInv, InStep
<1>7. Kept(r)'
  BY <1>2a, <1>2b DEF KeyInv, Kept, CutShort, Running
<1> QED
  BY <1>1, <1>3, <1>4, <1>5, <1>6, <1>7 DEF KeyInv

\* Only a rotation that a shutdown has orphaned rejects.
LEMMA Keep_Reject ==
  ASSUME NEW r, Rotator = {r}, KeyInv(r), Reject(r)
  PROVE  KeyInv(r)'
<1>1. TypeOK /\ TypeOK'
  BY TypeStep DEF KeyInv, Next
<1>2. r \in Rotator /\ FreshKey \notin Genuine0 /\ NoKey \notin Genuine
      /\ ((made' = made + 1) => FreshKey \in Genuine' /\ Genuine \subseteq Genuine')
      /\ ((made' = made) => Genuine' = Genuine)
  BY <1>1, FreshIsNew
<1>3. AllGenuine(r)'
  BY <1>2 DEF Reject, KeyInv, AllGenuine, Genuine0, Idle
<1>4. PhaseInv(r)'
  BY DEF Reject, KeyInv, PhaseInv, Running, Idle
<1>5. Apart(r)'
  BY DEF Reject, KeyInv, Apart, RetiredStaysRetired, Idle
<1>6. InStep(r)'
  BY DEF Reject, InStep
<1>7. Kept(r)'
  BY DEF Reject, KeyInv, Kept, Running
<1> QED
  BY <1>1, <1>3, <1>4, <1>5, <1>6, <1>7 DEF KeyInv

\* The row becomes what the memory is.
LEMMA Keep_Save ==
  ASSUME NEW r, Rotator = {r}, KeyInv(r), Save(r)
  PROVE  KeyInv(r)'
<1>1. TypeOK /\ TypeOK'
  BY TypeStep DEF KeyInv, Next
<1>2. r \in Rotator /\ FreshKey \notin Genuine0 /\ NoKey \notin Genuine
      /\ ((made' = made + 1) => FreshKey \in Genuine' /\ Genuine \subseteq Genuine')
      /\ ((made' = made) => Genuine' = Genuine)
  BY <1>1, FreshIsNew
<1>3. AllGenuine(r)'
  BY <1>2 DEF Save, KeyInv, AllGenuine, Genuine0, Row, Idle
<1>4. PhaseInv(r)'
  BY DEF Save, KeyInv, PhaseInv, Running, Idle
<1>5. Apart(r)'
  BY DEF Save, KeyInv, Apart, RetiredStaysRetired, Row, Idle
<1>6. InStep(r)'
  BY DEF Save, KeyInv, InStep, Row, Idle
<1>7. Kept(r)'
  <2>1. CASE current = NoKey
    BY <2>1 DEF Save, KeyInv, Kept, Running
  <2>2. CASE current # NoKey
    <3>1. store' = Row(current, previous)
      BY <2>2 DEF Save, KeyInv, InStep
    <3>2. signed \ excused \subseteq {current} \cup previous \cup {rotation[r].old}
      BY <2>2 DEF KeyInv, Kept
    <3>3. CASE rotation[r].second
      <4>1. rotation[r].old \in previous \cup excused
        BY <2>2, <3>3 DEF KeyInv, Kept
      <4> QED  BY <2>2, <3>1, <3>2, <3>3, <4>1 DEF Save, Kept, Row, Running, Idle, KeyInv, TypeOK
    <3>4. CASE ~rotation[r].second
      <4>1. rotation'[r].at = "saved" /\ ~rotation'[r].second /\ rotation'[r].old = rotation[r].old
        BY <3>4 DEF Save, KeyInv, TypeOK
      <4>2. CutShort(r)' = {rotation[r].old} /\ Running(r)'
        BY <4>1 DEF CutShort, Running
      <4> QED  BY <2>2, <3>1, <3>2, <4>1, <4>2 DEF Save, Kept, Row
    <3> QED  BY <3>3, <3>4
  <2> QED  BY <2>1, <2>2
<1> QED
  BY <1>1, <1>3, <1>4, <1>5, <1>6, <1>7 DEF KeyInv

\* The old key goes to the previous keys, or all of them are excused.
LEMMA Keep_Retire ==
  ASSUME NEW r, Rotator = {r}, KeyInv(r), Retire(r)
  PROVE  KeyInv(r)'
<1>1. TypeOK /\ TypeOK'
  BY TypeStep DEF KeyInv, Next
<1>2. r \in Rotator /\ FreshKey \notin Genuine0 /\ NoKey \notin Genuine
      /\ ((made' = made + 1) => FreshKey \in Genuine' /\ Genuine \subseteq Genuine')
      /\ ((made' = made) => Genuine' = Genuine)
  BY <1>1, FreshIsNew
<1>2a. /\ rotation'[r].at = IF current # NoKey THEN "exporting" ELSE "collecting"
      /\ rotation'[r].second /\ rotation'[r].live
      /\ rotation'[r].jwk = current.material /\ rotation'[r].head = NoKey
      /\ rotation'[r].old = rotation[r].old /\ rotation'[r].list = rotation[r].list
  <2>1. PICK rot \in {rotation, Detached} : rotation' = PersistAgain(rot, r)
    BY DEF Retire
  <2>2. /\ rot \in [Rotator -> Rotation]
        /\ rot[r].old = rotation[r].old /\ rot[r].list = rotation[r].list
    BY <1>1, <1>2, <2>1, PartsTyped DEF TypeOK, Detached, Retire
  <2> QED
    BY <1>2, <2>1, <2>2 DEF PersistAgain, Rotation
<1>3. AllGenuine(r)'
  BY <1>2, <1>2a DEF Retire, KeyInv, AllGenuine, Genuine0, TypeOK, Running
<1>4. PhaseInv(r)'
  BY <1>2a DEF Retire, KeyInv, PhaseInv, Running
<1>5. Apart(r)'
  BY <1>2a DEF Retire, KeyInv, Apart, RetiredStaysRetired
<1>6. InStep(r)'
  BY <1>2a DEF Retire, KeyInv, InStep
<1>7. Kept(r)'
  BY <1>2a DEF Retire, KeyInv, Kept, CutShort, Running
<1> QED
  BY <1>1, <1>3, <1>4, <1>5, <1>6, <1>7 DEF KeyInv

-----------------------------------------------------------------------------
(* One caller: the theorems. *)

\* The first start finds no row; there is nothing to keep.
LEMMA KeyInit ==
  ASSUME NEW r, Rotator = {r}, Init
  PROVE  KeyInv(r)
<1>1. TypeOK
  BY DEF Init, TypeOK, NoKey, NoRow, Row, Key, Idle, Rotation, Awaits, Running
<1>2. NoKey \notin Genuine
  BY <1>1, FreshIsNew
<1> QED
  BY <1>1, <1>2 DEF Init, KeyInv, AllGenuine, PhaseInv, Apart, InStep, Kept,
     Genuine0, RetiredStaysRetired, NoRow, Row, Idle, Running

\* Every step keeps the invariant.
LEMMA KeyStep ==
  ASSUME NEW r, Rotator = {r}, KeyInv(r), [Next]_vars
  PROVE  KeyInv(r)'
<1>1. CASE UNCHANGED vars
  <2>1. Genuine' = Genuine
    BY <1>1 DEF vars, Genuine
  <2> QED
    BY <1>1, <2>1 DEF vars, KeyInv, TypeOK, AllGenuine, PhaseInv, Apart, InStep,
       Kept, Genuine0, RetiredStaysRetired, CutShort, Running
<1>2. CASE Next
  BY <1>2, Keep_initialize, Keep_sign, Keep_shutdown, Keep_Crash, Keep_rotate,
     Keep_generateNewKey, Keep_Collect, Keep_Reject, Keep_Save, Keep_Retire DEF Next
<1> QED
  BY <1>1, <1>2

\* Where the key of a token is, by the invariant, verify finds it.
LEMMA KeptVerify ==
  ASSUME NEW r, Rotator = {r}, KeyInv(r)
  PROVE  TokensHonoured
<1> SUFFICES ASSUME phase = "up", NEW key \in signed \ excused,
                    ~(Running(r) /\ rotation[r].old = key)
             PROVE  Verifies(key)
  BY DEF TokensHonoured
<1>1. key \in {current} \cup previous
  BY DEF KeyInv, PhaseInv, Kept
<1>2. /\ key \in Genuine /\ current \in Genuine /\ previous \subseteq Genuine
  BY DEF KeyInv, PhaseInv, AllGenuine, Genuine0
<1>3. \A a, b \in Genuine : a.kid = b.kid => a = b
  BY DEF Genuine, Key
<1>4. CASE current.kid = key.kid
  BY <1>2, <1>3, <1>4 DEF Verifies
<1>5. CASE current.kid # key.kid
  BY <1>1, <1>2, <1>3, <1>5 DEF Verifies
<1> QED
  BY <1>4, <1>5

\* persistent.ts: with one caller of rotate, a token signed before rotations and
\* restarts verifies, but for the exceptions TokensHonoured names.
THEOREM TokensVerify ==
  ASSUME NEW r, Rotator = {r}
  PROVE  Spec => []TokensHonoured
<1>1. Init => KeyInv(r)
  BY KeyInit
<1>2. KeyInv(r) /\ [Next]_vars => KeyInv(r)'
  BY KeyStep
<1>3. KeyInv(r) => TokensHonoured
  BY KeptVerify
<1> QED
  BY <1>1, <1>2, <1>3, PTL DEF Spec

\* persistent.ts: with one caller of rotate, a restart between rotations finds
\* the keys that were in memory.
THEOREM RowIsMemory ==
  ASSUME NEW r, Rotator = {r}
  PROVE  Spec => []RestartLosesNothing
<1>1. Init => KeyInv(r)
  BY KeyInit
<1>2. KeyInv(r) /\ [Next]_vars => KeyInv(r)'
  BY KeyStep
<1>3. KeyInv(r) => RestartLosesNothing
  BY DEF KeyInv, PhaseInv, InStep, RestartLosesNothing, NoneRuns, Running
<1> QED
  BY <1>1, <1>2, <1>3, PTL DEF Spec

\* persistent.ts: with one caller of rotate, a retired key never signs again,
\* whenever the process crashes.
THEOREM NoRetiredSigner ==
  ASSUME NEW r, Rotator = {r}
  PROVE  Spec => []RetiredStaysRetired
<1>1. Init => KeyInv(r)
  BY KeyInit
<1>2. KeyInv(r) /\ [Next]_vars => KeyInv(r)'
  BY KeyStep
<1>3. KeyInv(r) => RetiredStaysRetired
  BY DEF KeyInv, Apart
<1> QED
  BY <1>1, <1>2, <1>3, PTL DEF Spec

-----------------------------------------------------------------------------
(* The service. *)


\* The life left lasts at least until the next check.
LifeInv ==
  /\ left \in Nat /\ since \in Nat
  /\ orch => left + since > CheckEvery

LifeFacts == Ttl \in Nat /\ CheckEvery \in Nat /\ CheckEvery > 0 /\ 5 * CheckEvery <= Ttl

LEMMA Life == LifeFacts
BY LifeAssumption DEF LifeFacts

LEMMA LifeInit == AuthInit => LifeInv
BY DEF AuthInit, LifeInv

LEMMA LifeKept ==
  ASSUME UNCHANGED <<orch, left, since>>, LifeInv
  PROVE  LifeInv'
BY DEF LifeInv

LEMMA LifeStep ==
  ASSUME LifeInv, [AuthNext]_allVars
  PROVE  LifeInv'
<1> USE Life DEF LifeFacts
<1>1. CASE \/ ServiceStarts \/ Bootstrap \/ ServiceStops \/ Rotate \/ MintPeerToken
           \/ Revoke \/ PeerTokenExpires \/ Configure \/ Ask \/ CheckKey
           \/ CheckRevocation \/ CheckPolicy \/ UNCHANGED allVars
  <2>1. UNCHANGED <<orch, left, since>>
    BY <1>1 DEF ServiceStarts, Bootstrap, ServiceStops, Rotate, MintPeerToken, Revoke,
      PeerTokenExpires, Configure, Ask, CheckKey, CheckRevocation, CheckPolicy,
      Validating, allVars, authVars, nodeVars
  <2> QED BY <2>1, LifeKept
<1>2. CASE onInitialize
  BY <1>2 DEF onInitialize, mintNodeToken, LifeInv
<1>3. CASE Stops
  BY <1>3 DEF Stops, Ended, LifeInv
<1>4. CASE refreshNodeTokenIfNeeded
  <2>1. CASE ~Due /\ since' = 0 /\ UNCHANGED <<vars, orch, left, client, ask>>
    <3>1. left > CheckEvery
      BY <2>1 DEF Due, LifeInv
    <3> QED BY <2>1, <3>1 DEF LifeInv
  <2>2. CASE Due /\ mintNodeToken /\ since' = 0 /\ UNCHANGED <<orch, client, ask>>
    BY <2>2 DEF mintNodeToken, LifeInv
  <2>3. CASE Ended
    BY <2>3 DEF Ended, LifeInv
  <2> QED BY <1>4, <2>1, <2>2, <2>3 DEF refreshNodeTokenIfNeeded
<1>5. CASE Advance
  BY <1>5 DEF Advance, LifeInv
<1> QED BY <1>1, <1>2, <1>3, <1>4, <1>5 DEF AuthNext, AuthStep

SinceInv == since \in 0..CheckEvery

LEMMA SinceInit == AuthInit => SinceInv
BY Life DEF AuthInit, LifeFacts, SinceInv

LEMMA SinceStep ==
  ASSUME SinceInv, [AuthNext]_allVars
  PROVE  SinceInv'
<1> USE Life DEF LifeFacts, SinceInv
<1>1. since' = since \/ since' = 0 \/ (since < CheckEvery /\ since' = since + 1)
  BY DEF AuthNext, AuthStep, ServiceStarts, Bootstrap, ServiceStops, Rotate,
    MintPeerToken, Revoke, PeerTokenExpires, Configure, Ask, CheckKey, CheckRevocation,
    CheckPolicy, Validating, allVars, authVars, nodeVars, onInitialize, Stops, Ended,
    refreshNodeTokenIfNeeded, Advance
<1> QED BY <1>1

\* An orchestrator that is up has a node token that has not expired, for every
\* life and every interval of which five fit into it.
THEOREM NodeTokenIsFresh == AuthSpec => []NodeTokenFresh
<1>1. LifeInv /\ SinceInv => NodeTokenFresh
  BY Life DEF LifeInv, SinceInv, NodeTokenFresh, LifeFacts
<1>2. AuthSpec => [](LifeInv /\ SinceInv)
  BY LifeInit, LifeStep, SinceInit, SinceStep, PTL DEF AuthSpec
<1> QED BY <1>1, <1>2, PTL

-----------------------------------------------------------------------------
\* A validation of a token that was revoked when it began is never past the table.
RevokedInv ==
  ask.at # "none" /\ ask.revoked => peerToken.revoked /\ ask.at \in {"key", "row"}

AskType ==
  /\ ask \in [at : {"none", "key", "row", "policy"}, revoked : BOOLEAN,
              verdict : {"none", "valid", "invalid"}]
  /\ peerToken \in [key : {peerToken.key}, revoked : BOOLEAN, expired : BOOLEAN]

LEMMA RevokedInit == AuthInit => AskType /\ RevokedInv
BY DEF AuthInit, AskType, RevokedInv, Minted

LEMMA RevokedStep ==
  ASSUME AskType, RevokedInv, [AuthNext]_allVars
  PROVE  (AskType /\ RevokedInv)'
<1>1. CASE \/ ServiceStarts \/ Bootstrap \/ Rotate \/ Configure \/ onInitialize
           \/ Advance \/ UNCHANGED allVars
  <2>1. UNCHANGED <<ask, peerToken>>
    BY <1>1 DEF ServiceStarts, Bootstrap, Rotate, Configure, onInitialize, Advance,
      allVars, authVars, tokenVars
  <2> QED BY <2>1 DEF AskType, RevokedInv
<1>2. CASE ServiceStops
  <2>1. UNCHANGED peerToken /\ Hangup
    BY <1>2 DEF ServiceStops, tokenVars
  <2> QED BY <2>1 DEF Hangup, AskType, RevokedInv
<1>3. CASE MintPeerToken
  BY <1>3 DEF MintPeerToken, Minted, AskType, RevokedInv
<1>4. CASE Revoke
  BY <1>4 DEF Revoke, AskType, RevokedInv
<1>5. CASE PeerTokenExpires
  BY <1>5 DEF PeerTokenExpires, AskType, RevokedInv
<1>6. CASE Stops
  BY <1>6 DEF Stops, Ended, tokenVars, AskType, RevokedInv
<1>7. CASE refreshNodeTokenIfNeeded
  BY <1>7 DEF refreshNodeTokenIfNeeded, Ended, tokenVars, AskType, RevokedInv
<1>8. CASE Ask
  BY <1>8 DEF Ask, Validating, tokenVars, AskType, RevokedInv
<1>9. CASE CheckKey
  BY <1>9 DEF CheckKey, Verdict, Validating, tokenVars, AskType, RevokedInv
<1>10. CASE CheckRevocation
  BY <1>10 DEF CheckRevocation, Verdict, Validating, tokenVars, AskType, RevokedInv
<1>11. CASE CheckPolicy
  BY <1>11 DEF CheckPolicy, Verdict, Validating, tokenVars, AskType, RevokedInv
<1> QED BY <1>1, <1>2, <1>3, <1>4, <1>5, <1>6, <1>7, <1>8, <1>9, <1>10, <1>11
     DEF AuthNext, AuthStep

\* What ends such a validation is a refusal.
LEMMA RevokedEnd ==
  ASSUME AskType, RevokedInv, [AuthNext]_allVars
  PROVE  [Ends /\ ask'.revoked => ask'.verdict = "invalid"]_allVars
<1> SUFFICES ASSUME AuthNext, Ends, ask'.revoked PROVE ask'.verdict = "invalid"
  OBVIOUS
<1>1. ask'.at = "none" /\ orch' /\ (ask.at = "none" => Ask)
      /\ (ask.at # "none" /\ ask.revoked =>
            ask.at \in {"key", "row"} /\ peerToken.revoked)
  BY DEF Ends, RevokedInv
<1>0. CASE Ask
  BY <1>0, <1>1 DEF Ask
<1> SUFFICES ASSUME ~Ask PROVE ask'.verdict = "invalid"
  BY <1>0
<1>2. CASE ServiceStops
  BY <1>1, <1>2 DEF ServiceStops, Hangup, AskType
<1>3. CASE CheckKey
  BY <1>1, <1>3 DEF CheckKey, Verdict, AskType
<1>4. CASE CheckRevocation
  BY <1>1, <1>4 DEF CheckRevocation, Verdict, AskType
<1>5. CASE \/ ServiceStarts \/ Bootstrap \/ Rotate \/ MintPeerToken \/ Revoke
           \/ PeerTokenExpires \/ Configure \/ onInitialize \/ Advance
  <2>1. UNCHANGED ask
    BY <1>5 DEF ServiceStarts, Bootstrap, Rotate, MintPeerToken, Revoke,
      PeerTokenExpires, Configure, onInitialize, Advance, authVars
  <2> QED BY <1>1, <2>1
<1>6. CASE Stops \/ refreshNodeTokenIfNeeded
  BY <1>1, <1>6 DEF Stops, refreshNodeTokenIfNeeded, Ended
<1>7. CASE CheckPolicy
  BY <1>1, <1>7 DEF CheckPolicy, Verdict, AskType
<1> QED BY <1>2, <1>3, <1>4, <1>5, <1>6, <1>7 DEF AuthNext, AuthStep

\* A token revoked before it is presented is refused, by whatever keys.
THEOREM RevokedStaysOut == AuthSpec => RevokedIsRefused
<1>1. AuthSpec => [](AskType /\ RevokedInv)
  BY RevokedInit, RevokedStep, PTL DEF AuthSpec
<1> QED BY <1>1, RevokedEnd, PTL DEF AuthSpec, RevokedIsRefused

-----------------------------------------------------------------------------
\* What the auth service does with its keys is what the key manager allows.
LEMMA StepOfKeys == [AuthNext]_allVars => [Next]_vars
<1> SUFFICES ASSUME [AuthNext]_allVars PROVE [Next]_vars
  OBVIOUS
<1>1. CASE ServiceStarts \/ Bootstrap \/ ServiceStops \/ MintPeerToken \/ onInitialize
  BY <1>1 DEF ServiceStarts, Bootstrap, ServiceStops, MintPeerToken, onInitialize,
    mintNodeToken, Next
<1>2. CASE Rotate
  BY <1>2 DEF Rotate, Next
<1>3. CASE refreshNodeTokenIfNeeded
  BY <1>3 DEF refreshNodeTokenIfNeeded, mintNodeToken, Next
<1>4. CASE \/ Revoke \/ PeerTokenExpires \/ Configure \/ Stops \/ Advance \/ Ask
           \/ CheckKey \/ CheckRevocation \/ CheckPolicy \/ UNCHANGED allVars
  BY <1>4 DEF Revoke, PeerTokenExpires, Configure, Stops, Advance, Ask, CheckKey,
    CheckRevocation, CheckPolicy, Validating, allVars
<1> QED BY <1>1, <1>2, <1>3, <1>4 DEF AuthNext, AuthStep

\* The auth service implements the key manager: every behaviour of the whole is
\* one of the keys, so the theorems about them hold of it.
THEOREM ServiceKeepsKeys == AuthSpec => Spec
<1>1. AuthInit => Init
  BY DEF AuthInit
<1> QED BY <1>1, StepOfKeys, PTL DEF AuthSpec, Spec

-----------------------------------------------------------------------------
(* A validation without doubt. *)

\* Calls are served only while the key manager is up, and as long as there is
\* no doubt the peer's token is sound.
SoundInv == (served => phase = "up") /\ (~doubt => Sound)

LEMMA SoundInit == AuthInit => SoundInv
BY DEF AuthInit, SoundInv

LEMMA SoundStep ==
  ASSUME SoundInv, [AuthNext]_allVars
  PROVE  SoundInv'
<1>1. (~doubt => Sound)'
  <2>1. CASE AuthNext
    BY <2>1 DEF AuthNext
  <2>2. CASE UNCHANGED allVars
    BY <2>2 DEF SoundInv, allVars, authVars, vars, serviceVars, tokenVars, nodeVars,
                Sound, Running
  <2> QED BY <2>1, <2>2
<1>2. (served => phase = "up")'
  <2>1. CASE ServiceStarts \/ Bootstrap \/ ServiceStops
    BY <2>1 DEF ServiceStarts, Bootstrap, ServiceStops, initialize, sign, authVars,
                serviceVars, SoundInv
  <2>2. CASE Rotate \/ MintPeerToken \/ onInitialize \/ refreshNodeTokenIfNeeded
    BY <2>2 DEF Rotate, rotate, generateNewKey, Collect, Reject, Save, Retire,
                MintPeerToken, onInitialize, refreshNodeTokenIfNeeded, mintNodeToken,
                sign, vars, authVars, serviceVars, SoundInv
  <2>3. CASE \/ Revoke \/ PeerTokenExpires \/ Configure \/ Stops \/ Advance
             \/ Ask \/ CheckKey \/ CheckRevocation \/ CheckPolicy \/ UNCHANGED allVars
    BY <2>3 DEF Revoke, PeerTokenExpires, Configure, Stops, Advance, Ask, CheckKey,
                CheckRevocation, CheckPolicy, Validating, vars, authVars, allVars,
                serviceVars, SoundInv
  <2> QED BY <2>1, <2>2, <2>3 DEF AuthNext, AuthStep
<1> QED BY <1>1, <1>2 DEF SoundInv

\* Each of the three checks lets a sound token pass.
LEMMA SoundEnd ==
  ASSUME AskType, SoundInv, TokensHonoured, [AuthNext]_allVars
  PROVE  [Ends /\ ~doubt' => ask'.verdict = "valid"]_allVars
<1> SUFFICES ASSUME AuthNext, Ends, ~doubt' PROVE ask'.verdict = "valid"
  OBVIOUS
<1>1. ask'.at = "none" /\ orch' /\ Sound' /\ (ask.at = "none" => Ask)
      /\ (ask.at # "none" => Sound)
  BY DEF Ends, AuthNext, SoundInv
<1>0. CASE Ask
  BY <1>0, <1>1 DEF Ask, Validating, nodeVars, Sound
<1> SUFFICES ASSUME ~Ask PROVE ask'.verdict = "valid"
  BY <1>0
<1>2. CASE ServiceStops
  BY <1>1, <1>2 DEF ServiceStops, Sound
<1>3. CASE CheckKey
  <2>1. Verifies(peerToken.key) /\ ~peerToken.expired
    BY <1>1 DEF SoundInv, TokensHonoured, Sound
  <2> QED BY <1>1, <1>3, <2>1 DEF CheckKey, AskType
<1>4. CASE CheckRevocation
  BY <1>1, <1>4 DEF CheckRevocation, Sound, AskType
<1>5. CASE CheckPolicy
  BY <1>1, <1>5 DEF CheckPolicy, Verdict, Sound, AskType
<1>6. CASE \/ ServiceStarts \/ Bootstrap \/ Rotate \/ MintPeerToken \/ Revoke
           \/ PeerTokenExpires \/ Configure \/ onInitialize \/ Advance
  <2>1. UNCHANGED ask
    BY <1>6 DEF ServiceStarts, Bootstrap, Rotate, MintPeerToken, Revoke,
      PeerTokenExpires, Configure, onInitialize, Advance, authVars
  <2> QED BY <1>1, <2>1
<1>7. CASE Stops \/ refreshNodeTokenIfNeeded
  BY <1>1, <1>7 DEF Stops, refreshNodeTokenIfNeeded, Ended
<1> QED BY <1>2, <1>3, <1>4, <1>5, <1>6, <1>7 DEF AuthNext, AuthStep

\* With one caller of rotate, a token that all along is sound is accepted:
\* whatever rotations come between the three calls of its validation, and
\* whatever rotations and restarts came before the orchestrator connected to the
\* auth service (LocalTokenManager.verify, catalyst-service.ts onInitialize).
THEOREM SoundIsAccepted ==
  ASSUME NEW r, Rotator = {r}
  PROVE  AuthSpec => ValidIsAccepted
<1>1. AuthSpec => [](AskType /\ RevokedInv)
  BY RevokedInit, RevokedStep, PTL DEF AuthSpec
<1>2. AuthSpec => []SoundInv
  BY SoundInit, SoundStep, PTL DEF AuthSpec
<1>3. AuthSpec => []TokensHonoured
  BY ServiceKeepsKeys, TokensVerify, PTL
<1> QED BY <1>1, <1>2, <1>3, SoundEnd, PTL DEF AuthSpec, ValidIsAccepted
===============================================================================
