------------------------------ MODULE KeyManager ------------------------------
(***************************************************************************)
(* The signing keys of the auth service (packages/authorization, class     *)
(* PersistentLocalKeyManager): one current key, the previous keys that     *)
(* still verify, and the one row of the key store that both are saved to.  *)
(*                                                                         *)
(* rotate() and the persist() calls inside it await many times; between    *)
(* two awaits tokens are signed and verified, other callers rotate, the    *)
(* service shuts down, or the process crashes.  An action here is what     *)
(* runs between two awaits.  Nothing in the code reads a key's expiry but  *)
(* to log it, so keys have none here: a previous key verifies until an     *)
(* immediate rotation drops it.                                            *)
(***************************************************************************)
EXTENDS Naturals

CONSTANTS
  Rotator,   \* callers of rotate; one of them awaits each of its calls
  MaxKeys    \* bound: no rotation begins when so many keys were made

ASSUME KeyBound == MaxKeys \in Nat

VARIABLES
  phase,      \* "down", "up" or "stopping" (shut down, process still there)
  current,    \* currentKey
  previous,   \* previousKeys
  store,      \* the key_set row
  made,       \* keys generated so far; the n-th gets kid n
  rotation,   \* rotation[r]: where r's call of rotate stands
  signed,     \* history: keys that tokens were signed with
  excused     \* history: keys whose tokens need not verify any more

vars == <<phase, current, previous, store, made, rotation, signed, excused>>

\* A managed key; material tells which key pair it really is.
Key == [kid : Nat, material : Nat]
NoKey == [kid |-> 0, material |-> 0]
FreshKey == [kid |-> made + 1, material |-> made + 1]

\* What is saved; the current key is the one saved without an expiry.
Row(cur, prev) == [current |-> cur, previous |-> prev]
NoRow == Row(NoKey, {})

\* at: the await that rotate is at.  old: the key it replaces.  second: in the
\* second persist.  jwk, head, list: the export so far; list is the array the
\* loop over previousKeys runs on, once previousKeys is another array.
Idle == [at |-> "none", immediate |-> FALSE, old |-> NoKey, second |-> FALSE,
         jwk |-> 0, head |-> NoKey, live |-> TRUE, list |-> {}]
Awaits == {"none", "generating", "exporting", "collecting", "saved"}
Rotation == [at : Awaits, immediate : BOOLEAN, old : Key, second : BOOLEAN,
             jwk : Nat, head : Key, live : BOOLEAN, list : SUBSET Key]

Running(r) == rotation[r].at # "none"
NoneRuns == \A r \in Rotator : ~Running(r)

-----------------------------------------------------------------------------
Init ==
  /\ phase = "down"
  /\ current = NoKey /\ previous = {}
  /\ store = NoRow
  /\ made = 0
  /\ rotation = [r \in Rotator |-> Idle]
  /\ signed = {} /\ excused = {}

\* initialize: load the row; make and save a first key if it has no current one.
initialize ==
  /\ phase = "down"
  /\ phase' = "up"
  /\ previous' = store.previous
  /\ IF store.current # NoKey
     THEN current' = store.current /\ UNCHANGED <<store, made>>
     ELSE /\ current' = FreshKey
          /\ made' = made + 1
          /\ store' = Row(FreshKey, store.previous)
  /\ UNCHANGED <<rotation, signed, excused>>

sign ==
  /\ current # NoKey
  /\ signed' = signed \cup {current}
  /\ UNCHANGED <<phase, current, previous, store, made, rotation, excused>>

\* rotate, up to the generation of the key pair.
rotate(r, immediate) ==
  /\ ~Running(r) /\ made < MaxKeys
  /\ current # NoKey
  /\ rotation' = [rotation EXCEPT ![r] =
       [Idle EXCEPT !.at = "generating", !.immediate = immediate, !.old = current]]
  /\ UNCHANGED <<phase, current, previous, store, made, signed, excused>>

\* Faulty: the new key is saved only together with the old one's retirement.
GenerateUnsaved(r) ==
  /\ rotation[r].at = "generating"
  /\ current' = FreshKey
  /\ made' = made + 1
  /\ rotation' = [rotation EXCEPT ![r].at = "saved"]
  /\ UNCHANGED <<phase, previous, store, signed, excused>>

\* The new key pair is there: it signs from now on, and its export starts.
generateNewKey(r) ==
  /\ rotation[r].at = "generating"
  /\ current' = FreshKey
  /\ made' = made + 1
  /\ rotation' = [rotation EXCEPT ![r].at = "exporting",
                                  ![r].jwk = FreshKey.material]
  /\ UNCHANGED <<phase, previous, store, signed, excused>>

\* persist: the current key is exported, and named by the current kid; the
\* export of the previous keys follows (if there are any; that one await fewer
\* is needed otherwise makes no difference to anybody).
Collect(r) ==
  /\ rotation[r].at = "exporting" /\ current # NoKey
  /\ rotation' = [rotation EXCEPT
       ![r].at = "collecting",
       ![r].head = [kid |-> current.kid, material |-> rotation[r].jwk]]
  /\ UNCHANGED <<phase, current, previous, store, made, signed, excused>>

\* The key was taken away by a shutdown: rotate rejects.
Reject(r) ==
  /\ rotation[r].at = "exporting" /\ current = NoKey
  /\ rotation' = [rotation EXCEPT ![r] = Idle]
  /\ UNCHANGED <<phase, current, previous, store, made, signed, excused>>

\* persist: the last previous key is exported, and the row is written.
Save(r) ==
  /\ rotation[r].at = "collecting"
  /\ store' = Row(rotation[r].head,
                  IF rotation[r].live THEN previous ELSE rotation[r].list)
  /\ rotation' = [rotation EXCEPT ![r] =
       IF @.second THEN Idle ELSE [@ EXCEPT !.at = "saved"]]
  /\ UNCHANGED <<phase, current, previous, made, signed, excused>>

\* previousKeys becomes another array: a loop goes on over the one it started with.
Detached ==
  [r \in Rotator |->
     IF rotation[r].at = "collecting" /\ rotation[r].live
     THEN [rotation[r] EXCEPT !.live = FALSE, !.list = previous] ELSE rotation[r]]

\* persist starts again; with no current key it exports the previous ones only.
PersistAgain(rot, r) ==
  [rot EXCEPT ![r].second = TRUE, ![r].live = TRUE, ![r].jwk = current.material,
              ![r].head = NoKey,
              ![r].at = IF current # NoKey THEN "exporting" ELSE "collecting"]

\* Faulty: only the key retired last is kept; the retirement is not saved.
RetireLastOnly(r) ==
  /\ rotation[r].at = "saved"
  /\ IF rotation[r].immediate
     THEN /\ previous' = {}
          /\ rotation' = PersistAgain(Detached, r)
          /\ excused' = excused \cup previous \cup {rotation[r].old}
     ELSE /\ previous' = {rotation[r].old}
          /\ rotation' = PersistAgain(rotation, r)
          /\ UNCHANGED excused
  /\ UNCHANGED <<phase, current, store, made, signed>>
RetireUnsaved(r) ==
  /\ rotation[r].at = "saved"
  /\ rotation' = [rotation EXCEPT ![r] = Idle]
  /\ IF rotation[r].immediate
     THEN /\ previous' = {}
          /\ excused' = excused \cup previous \cup {rotation[r].old}
     ELSE /\ previous' = previous \cup {rotation[r].old}
          /\ UNCHANGED excused
  /\ UNCHANGED <<phase, current, store, made, signed>>

\* The old key becomes a previous one, or, in an immediate rotation, it and all
\* previous ones go.
Retire(r) ==
  /\ rotation[r].at = "saved"
  /\ IF rotation[r].immediate
     THEN /\ previous' = {}
          /\ rotation' = PersistAgain(Detached, r)
          /\ excused' = excused \cup previous \cup {rotation[r].old}
     ELSE /\ previous' = previous \cup {rotation[r].old}
          /\ rotation' = PersistAgain(rotation, r)
          /\ UNCHANGED excused
  /\ UNCHANGED <<phase, current, store, made, signed>>

\* shutdown forgets the keys; rotations that run go on.
shutdown ==
  /\ phase = "up"
  /\ phase' = "stopping"
  /\ current' = NoKey /\ previous' = {}
  /\ rotation' = Detached
  /\ excused' = IF NoneRuns THEN excused ELSE excused \cup signed
  /\ UNCHANGED <<store, made, signed>>

\* What a crash in r's rotation costs: the old key is in the row until the first
\* persist is through, and again after the second; the new one after the first.
CutShort(r) ==
  CASE rotation[r].at \in {"none", "generating"} -> {}
    [] rotation[r].second \/ rotation[r].at = "saved" -> {rotation[r].old}
    [] OTHER -> {current}

\* The process ends, at any time.
Crash ==
  /\ phase # "down"
  /\ phase' = "down"
  /\ current' = NoKey /\ previous' = {}
  /\ rotation' = [r \in Rotator |-> Idle]
  /\ excused' = excused \cup UNION {CutShort(r) : r \in Rotator}
  /\ UNCHANGED <<store, made, signed>>

Next ==
  \/ initialize \/ sign \/ shutdown \/ Crash
  \/ \E r \in Rotator :
       \/ \E immediate \in BOOLEAN : rotate(r, immediate)
       \/ generateNewKey(r) \/ Collect(r) \/ Reject(r) \/ Save(r) \/ Retire(r)

Spec == Init /\ [][Next]_vars

-----------------------------------------------------------------------------
\* The parts of the state have their types, and a rotation under way replaces
\* a key (persistent.ts rotate: "Not initialized").
TypeOK ==
  /\ phase \in {"down", "up", "stopping"}
  /\ current \in Key /\ previous \subseteq Key
  /\ store \in [current : Key, previous : SUBSET Key]
  /\ made \in Nat
  /\ rotation \in [Rotator -> Rotation]
  /\ \A r \in Rotator : Running(r) => rotation[r].old # NoKey
  /\ signed \subseteq Key /\ excused \subseteq Key

\* verify: the key with the token's kid, the current one first.
Verifies(key) ==
  IF current.kid = key.kid THEN current = key
  ELSE {k \in previous : k.kid = key.kid} = {key}

\* A token signed before a rotation, or several, or a restart, still verifies,
\* unless an immediate rotation dropped its key or a crash or shutdown cut a
\* rotation of its key short; the key a running rotation replaces is the one
\* that does not verify until it is retired.
TokensHonoured ==
  phase = "up" =>
    \A key \in signed \ excused :
      Verifies(key) \/ \E r \in Rotator : Running(r) /\ rotation[r].old = key

\* Between rotations the row is what is in memory: a restart changes nothing.
RestartLosesNothing ==
  (phase = "up" /\ NoneRuns) => store = Row(current, previous)

\* A key that was retired never signs again, not even when a crash comes
\* between the two writes of a rotation.
RetiredStaysRetired ==
  /\ current \notin previous
  /\ store.current # NoKey => store.current \notin previous
  /\ store.current \notin store.previous
===============================================================================
