----------------------------- MODULE XdsResources -----------------------------
(***************************************************************************)
(* The Envoy resources made of a route configuration: buildXdsSnapshot in  *)
(* apps/envoy/src/xds/resources.ts, with its builders.                     *)
(*                                                                         *)
(* A configuration is a record of                                          *)
(*   local            routes with name, protocol and endpoint              *)
(*   internal         routes with name, peer, origin, protocol, the port   *)
(*                    the route carries and the address of the peer's envoy*)
(*   portAllocations  a port or Missing for every listener key             *)
(* An entry of the arrays the code builds is a record with the route it is *)
(* made for, so that two entries of one name stay two.  What is the same   *)
(* in every resource (timeouts, balancing, the bind address) is left out.  *)
(***************************************************************************)
EXTENDS FiniteSets

Missing == "unset"

GraphQL  == {"http:graphql", "http:gql"}
Protocol == GraphQL \cup {"http", "http:grpc", "tcp"}

\* Listeners and their port allocations are named by the local service, or by
\* the learned one and the peer it is reached through.
IngressKey(name)      == <<name>>
EgressKey(name, peer) == <<name, peer>>

-----------------------------------------------------------------------------
(* Filters and clusters follow the protocol. *)

getListenerOptions(protocol) ==
  [webSocket |-> protocol \in GraphQL,
   noTimeout |-> protocol \in GraphQL \cup {"http:grpc"},
   http2Only |-> protocol = "http:grpc"]

\* Raw forwarding for tcp, else an HTTP connection manager.
Filter(protocol) ==
  IF protocol = "tcp" THEN [name |-> "tcp_proxy"]
  ELSE [name |-> "http_connection_manager", options |-> getListenerOptions(protocol)]

MakeListener(key, route, port) ==
  [name |-> key, route |-> route, port |-> port,
   filter |-> Filter(route.protocol), cluster |-> key]

MakeCluster(key, route, address, port) ==
  [name |-> key, route |-> route, address |-> address, port |-> port,
   http2 |-> route.protocol = "http:grpc"]

-----------------------------------------------------------------------------
(* Which routes get resources. *)

LocalServed(config) ==
  {r \in config.local :
     r.endpoint # Missing /\ config.portAllocations[IngressKey(r.name)] # Missing}

InternalServed(config) ==
  {r \in config.internal :
     /\ r.port # Missing /\ r.address # Missing
     /\ config.portAllocations[EgressKey(r.name, r.peer)] # Missing}

buildXdsSnapshot(config) ==
  [listeners |->
     {MakeListener(IngressKey(r.name), r, config.portAllocations[IngressKey(r.name)]) :
        r \in LocalServed(config)}
     \cup
     {MakeListener(EgressKey(r.name, r.peer), r,
               config.portAllocations[EgressKey(r.name, r.peer)]) :
        r \in InternalServed(config)},
   clusters |->
     {MakeCluster(IngressKey(r.name), r, r.endpoint, r.endpoint) : r \in LocalServed(config)}
     \cup
     {MakeCluster(EgressKey(r.name, r.peer), r, r.address, r.port) :
        r \in InternalServed(config)}]
===============================================================================
