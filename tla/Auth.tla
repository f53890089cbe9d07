---------------------------------- MODULE Auth ----------------------------------
(***************************************************************************)
(* The auth service (service.ts, rpc/server.ts, LocalTokenManager and its  *)
(* SQLite token table) on top of its signing keys, and the two things an   *)
(* orchestrator (catalyst-service.ts) asks of it: a node token, minted at  *)
(* the start and again when four fifths of its life are over, and whether  *)
(* the token another node presents is valid.                               *)
(*                                                                         *)
(* Three tokens are told apart: the system token in the orchestrator's     *)
(* configuration, the node token, and the token a peer presents.  Nobody   *)
(* ever presents the node token, so only its age is kept.  mintNodeToken   *)
(* runs its loop to the end: it mints five tokens and keeps the last, and  *)
(* the first call that fails ends it; here it is one step that fails or    *)
(* not.  A mint that neither answers nor fails before the next check is    *)
(* left out.  The system token outlives every run of the model (a year).   *)
(***************************************************************************)
EXTENDS KeyManager

CONSTANTS
  Ttl,             \* life of a node token
  CheckEvery,      \* interval of the refresh check
  Domain,          \* the orchestrator's first domain, and its name
  NodeName,
  TrustedDomains,  \* of the token the peer presents; no trusted nodes are all
  TrustedNodes

\* A check falls into the last fifth of a token's life (7 days and 1 hour).
ASSUME LifeAssumption ==
  Ttl \in Nat /\ CheckEvery \in Nat \ {0} /\ 5 * CheckEvery <= Ttl

VARIABLES
  served,      \* the auth service answers calls
  boot,        \* key of the system token it has logged last
  system,      \* the system token the orchestrator is configured with
  peerToken,   \* the token the peer presents
  orch,        \* whether the orchestrator is up
  left,        \* life left to its node token
  since,       \* time since its last refresh check
  client,      \* its validator's stub: "none", "open", or "broken" for good
  ask,         \* the validation under way, and the verdict of the last one
  doubt        \* history: whether its token may be found wanting

serviceVars == <<served, boot>>
tokenVars == <<system, peerToken>>
nodeVars == <<orch, left, since, client>>
authVars == <<serviceVars, tokenVars, nodeVars, ask>>
allVars == <<vars, authVars, doubt>>

\* A token's row in the table lives as long as the table: for good.
Token == [key : Key, revoked : BOOLEAN, expired : BOOLEAN]
Minted(key) == [key |-> key, revoked |-> FALSE, expired |-> FALSE]

-----------------------------------------------------------------------------
(* The auth service. *)

\* The system token is minted and logged at every start, then calls are served.
Bootstrap ==
  /\ phase = "up" /\ ~served /\ sign
  /\ served' = TRUE /\ boot' = current
  /\ UNCHANGED <<tokenVars, nodeVars, ask>>

\* Every call under way fails, and so will every later call over the same stub.
Hangup ==
  /\ client' = IF client = "open" THEN "broken" ELSE client
  /\ ask' = IF ask.at = "none" THEN ask
            ELSE [ask EXCEPT !.at = "none", !.verdict = "invalid"]

ServiceStops ==
  /\ shutdown \/ Crash
  /\ served' = FALSE /\ Hangup
  /\ UNCHANGED <<boot, tokenVars, orch, left, since>>

ServiceStarts == initialize /\ UNCHANGED authVars

\* certs.rotate, and what it does between its awaits; who holds its handlers
\* may still call it while the service shuts down.
Rotate ==
  /\ \E r \in Rotator :
       \/ (served \/ phase = "stopping") /\ \E immediate \in BOOLEAN : rotate(r, immediate)
       \/ generateNewKey(r) \/ Collect(r) \/ Reject(r) \/ Save(r) \/ Retire(r)
  /\ UNCHANGED authVars

\* tokens.create for the peer, which presents it from its next call on;
\* tokens.revoke by jti or SAN; its time is up.
MintPeerToken ==
  /\ served /\ ask.at = "none" /\ sign
  /\ peerToken' = Minted(current)
  /\ UNCHANGED <<serviceVars, system, nodeVars, ask>>

Revoke ==
  /\ served
  /\ \/ system' = [system EXCEPT !.revoked = TRUE] /\ UNCHANGED peerToken
     \/ peerToken' = [peerToken EXCEPT !.revoked = TRUE] /\ UNCHANGED system
  /\ UNCHANGED <<vars, serviceVars, nodeVars, ask>>

PeerTokenExpires ==
  /\ peerToken' = [peerToken EXCEPT !.expired = TRUE]
  /\ UNCHANGED <<vars, serviceVars, system, nodeVars, ask>>

-----------------------------------------------------------------------------
(* The orchestrator's own token. *)

\* The operator copies the token the auth service has logged.
Configure ==
  /\ ~orch /\ boot # NoKey
  /\ system' = Minted(boot)
  /\ UNCHANGED <<vars, serviceVars, peerToken, nodeVars, ask>>

\* tokens(systemToken).create: verified, signed and recorded.  The token names
\* the service's own domains, so the policy for an ADMIN always permits it.
Verified(token) == Verifies(token.key) /\ ~token.expired /\ ~token.revoked
CanMint == served /\ Verified(system)
mintNodeToken == CanMint /\ sign /\ left' = Ttl

\* onInitialize; it throws when no token can be minted.
onInitialize ==
  /\ ~orch /\ mintNodeToken
  /\ orch' = TRUE /\ since' = 0 /\ client' = "open"
  /\ UNCHANGED <<serviceVars, tokenVars, ask>>

\* The process ends.
Ended ==
  /\ orch' = FALSE /\ left' = 0 /\ since' = 0 /\ client' = "none"
  /\ ask' = [ask EXCEPT !.at = "none"]
Stops == orch /\ Ended /\ UNCHANGED <<vars, serviceVars, tokenVars>>

\* Faulty: the threshold must be passed.
DueAfter == 5 * (Ttl - left) > 4 * Ttl

Due == 5 * (Ttl - left) >= 4 * Ttl

\* The interval timer: nobody awaits what it starts, so a mint that throws
\* ends the process.
refreshNodeTokenIfNeeded ==
  /\ orch /\ since >= CheckEvery
  /\ UNCHANGED <<serviceVars, tokenVars>>
  /\ \/ ~Due /\ since' = 0 /\ UNCHANGED <<vars, orch, left, client, ask>>
     \/ Due /\ mintNodeToken /\ since' = 0 /\ UNCHANGED <<orch, client, ask>>
     \/ Due /\ Ended /\ UNCHANGED vars

Advance ==
  /\ orch /\ since < CheckEvery
  /\ since' = since + 1
  /\ left' = IF left = 0 THEN 0 ELSE left - 1
  /\ UNCHANGED <<vars, serviceVars, tokenVars, orch, client, ask>>

-----------------------------------------------------------------------------
(* Validation of the token a peer presents: getIBGPClient. *)

Verdict(v) == ask' = [ask EXCEPT !.at = "none", !.verdict = v]
Validating == UNCHANGED <<vars, serviceVars, tokenVars, nodeVars>>

Ask ==
  /\ orch /\ ask.at = "none"
  /\ ask' = IF client = "open"
            THEN [at |-> "key", revoked |-> peerToken.revoked, verdict |-> "none"]
            ELSE [at |-> "none", revoked |-> peerToken.revoked, verdict |-> "invalid"]
  /\ Validating

\* keyManager.verify.
CheckKey ==
  /\ ask.at = "key" /\ served
  /\ IF Verifies(peerToken.key) /\ ~peerToken.expired
     THEN ask' = [ask EXCEPT !.at = "row"] ELSE Verdict("invalid")
  /\ Validating

\* Faulty: the table is not asked about a token whose signature is right.
SkipRevocation ==
  ask.at = "row" /\ served /\ ask' = [ask EXCEPT !.at = "policy"] /\ Validating

\* isRevoked.
CheckRevocation ==
  /\ ask.at = "row" /\ served
  /\ IF peerToken.revoked THEN Verdict("invalid") ELSE ask' = [ask EXCEPT !.at = "policy"]
  /\ Validating

\* authorizeAction: a NODE may IBGP_CONNECT to the nodes of its trusted domains,
\* and if it names trusted nodes only to those.
Permitted ==
  /\ Domain \in TrustedDomains
  /\ TrustedNodes = {} \/ NodeName \in TrustedNodes
CheckPolicy ==
  /\ ask.at = "policy" /\ served
  /\ Verdict(IF Permitted THEN "valid" ELSE "invalid")
  /\ Validating

-----------------------------------------------------------------------------
\* No reason to find the peer's token wanting: the service is there, over the
\* connection made at the orchestrator's start, and the key is neither excused
\* nor being replaced.
Sound ==
  /\ served /\ client = "open" /\ ~peerToken.revoked /\ ~peerToken.expired
  /\ peerToken.key \in signed \ excused
  /\ \A r \in Rotator : Running(r) => rotation[r].old # peerToken.key
  /\ Permitted

AuthInit ==
  /\ Init
  /\ served = FALSE /\ boot = NoKey
  /\ system = Minted(NoKey) /\ peerToken = Minted(NoKey)
  /\ orch = FALSE /\ left = 0 /\ since = 0 /\ client = "none"
  /\ ask = [at |-> "none", revoked |-> FALSE, verdict |-> "none"]
  /\ doubt = TRUE

AuthStep ==
  \/ ServiceStarts \/ Bootstrap \/ ServiceStops \/ Rotate
  \/ MintPeerToken \/ Revoke \/ PeerTokenExpires
  \/ Configure \/ onInitialize \/ Stops \/ refreshNodeTokenIfNeeded \/ Advance
  \/ Ask \/ CheckKey \/ CheckRevocation \/ CheckPolicy

\* Doubt lasts until the validation it arises in is over.
AuthNext ==
  /\ AuthStep
  /\ doubt' = (~Sound' \/ (ask.at # "none" /\ doubt))

AuthSpec == AuthInit /\ [][AuthNext]_allVars

-----------------------------------------------------------------------------
\* An orchestrator that is up has a node token that has not expired: a check
\* falls into the last fifth of its life, and a mint that fails ends it
\* (catalyst-service.ts refreshNodeTokenIfNeeded).
NodeTokenFresh == orch => left > 0

\* A validation ends with a verdict, be it at once.
Ends == ask'.at = "none" /\ orch' /\ (ask.at # "none" \/ Ask)

\* A token that all along is neither revoked nor expired, whose key was not
\* dropped and is not just being replaced, is not refused, whatever rotations
\* there are and whatever the auth service went through before the orchestrator
\* started: as long as it has not stopped since, because the connection for
\* validations is made once (LocalTokenManager.verify on
\* PersistentLocalKeyManager.verify, catalyst-service.ts onInitialize).
ValidIsAccepted ==
  [][Ends /\ ~doubt' => ask'.verdict = "valid"]_allVars

\* The same once the auth service is back.  Not so: after one stop of it every
\* token is refused until the orchestrator restarts.  Checked by hand with
\* MCAuthBack.cfg, as README.md says.
AcceptedAgain ==
  [][Ask /\ served /\ Verified(peerToken) /\ Permitted => ask'.verdict # "invalid"]_allVars

\* A token revoked before it is presented is not accepted, by whatever keys
\* and after whatever restarts (LocalTokenManager.verify, SqliteTokenStore).
RevokedIsRefused ==
  [][Ends /\ ask'.revoked => ask'.verdict = "invalid"]_allVars
===============================================================================
