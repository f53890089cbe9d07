------------------------------- MODULE MCFleet -------------------------------
(* Instances of Fleet for TLC: small topologies and what may be dispatched. *)
EXTENDS Fleet

CONSTANTS a, b, c, web, d1, d2

Both(links) == links \cup {<<l[2], l[1]>> : l \in links}
Pair     == Both({<<a, b>>})
Tail3    == Both({<<b, c>>})
Triangle == Both({<<a, b>>, <<b, c>>, <<a, c>>})

At(n, tasks) == {[at |-> n, task |-> t] : t \in tasks}
Registers(n) == At(n, {RouteCreate(web, d1), RouteDelete(web)})
Meets(n, m)  == At(n, {PeerCreate(m, Conf)})
Drops(n, m)  == At(n, {PeerDelete(m)})

\* A service comes and goes in a triangle; the other two nodes may part.
Meshed     == Registers(a) \cup Drops(b, c) \cup Meets(b, c)
\* A node joins a pair that offers services and sends keepalives one way.
Joining    == Meets(a, b) \cup Meets(b, a) \cup Registers(b) \cup Registers(c)
                \cup At(c, {KeepaliveTick({b})})
\* Both peers of a session owe each other a keepalive.
CrossTicks == At(a, {KeepaliveTick({b})}) \cup At(b, {KeepaliveTick({a})})
\* A service changes health.
Health     == At(a, {RouteCreate(web, d1), RouteHealth(web, d2)})
\* A node forgets a peer and is told about it again.
Rejoining  == Drops(a, b) \cup Meets(a, b) \cup At(b, {RouteCreate(web, d1)})
===============================================================================
