------------------------------- MODULE MCPorts -------------------------------
(* An instance of Ports for TLC: two ports; two local services, one without an
   endpoint; one service of node c, learned from either peer, and one of node
   a.  Peer b runs no envoy. *)
EXTENDS Ports, TLC

CONSTANTS self, a, b, c, web, db, cam, cfg1

MCPool == <<"p1", "p2">>
MCProtocol == web :> "http:graphql" @@ db :> "tcp" @@ cam :> "http:grpc"
MCEndpoint == web :> "url" @@ db :> "unset" @@ cam :> "url"
MCAddress  == [n \in Node |-> IF n = b THEN "unset" ELSE "host"]

Advert(o, path) == [action |-> "add", name |-> cam, origin |-> o, path |-> path, data |-> "p2"]
Withdrawal(o) == [Advert(o, <<o>>) EXCEPT !.action = "remove"]

MCHappens ==
  {PeerCreate(a, cfg1), Open(a, NoHold), Close(a, "TRANSPORT_ERROR"), SystemTick(9),
   PeerDelete(a),
   RouteCreate(web, Unset), RouteDelete(web), RouteCreate(db, Unset),
   Update(a, {Advert(a, <<a>>)}), Update(a, {Advert(c, <<a, c>>)}),
   Update(a, {Withdrawal(a)}),
   Update(b, {Advert(c, <<b, a, c>>)}), Update(b, {[Withdrawal(c) EXCEPT !.path = <<b, c>>]})}
===============================================================================
