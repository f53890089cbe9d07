-------------------------------- MODULE Gateway --------------------------------
(***************************************************************************)
(* The GraphQL gateway: updateConfig checks the configuration it is given  *)
(* (rpc/server.ts), then reload asks every subgraph for its schema, all at *)
(* once, and installs the stitched result when the last one has answered;  *)
(* if anything fails the old schema stays (graphql/server.ts).  Nothing    *)
(* keeps a reload from starting while another one is under way.            *)
(*                                                                         *)
(* A configuration is a set of services, numbered by the commit of the bus *)
(* that it comes from.  Validation and introspection of a subgraph are one *)
(* answer; the requests have no timeout, so it may never come.             *)
(***************************************************************************)
EXTENDS Naturals

CONSTANTS
  Name,       \* services
  Endpoint,   \* their addresses
  Missing     \* no address

ASSUME MissingAssumption == Missing \notin Endpoint

VARIABLES
  serving,    \* the services whose schema is served
  reloads     \* reloads under way, with the services they wait for

gatewayVars == <<serving, reloads>>

Subgraph == [name : Name, url : Endpoint \cup {Missing}]

\* "Waiting for configuration..."
Waiting == {}

GatewayInit == serving = Waiting /\ reloads = {}

Malformed(config) == \E s \in config.services : s.url = Missing

StartReload(config) ==
  /\ reloads' = reloads \cup {[config |-> config, waiting |-> config.services]}
  /\ UNCHANGED serving

\* A subgraph answers with a schema.
SubgraphAnswers(reload, service) ==
  /\ service \in reload.waiting
  /\ reloads' = (reloads \ {reload}) \cup {[reload EXCEPT !.waiting = @ \ {service}]}
  /\ UNCHANGED serving

\* A subgraph is invalid or out of reach, or the schemas do not fit together.
ReloadFails(reload) ==
  /\ reloads' = reloads \ {reload}
  /\ UNCHANGED serving

Install(reload) ==
  /\ reload.waiting = {}
  /\ serving' = reload.config.services
  /\ reloads' = reloads \ {reload}

GatewayStarts == serving' = Waiting /\ reloads' = {}
===============================================================================
