------------------------------ MODULE UpdateLoop ------------------------------
(***************************************************************************)
(* The loop in planInternalProtocolUpdate (rib.ts): it takes the items of  *)
(* an update one after the other, each against the routes the items before *)
(* it have left.  RouteTable defines the outcome of the whole update at    *)
(* once, from the routes it started with.  The two agree when no two items *)
(* have the same key; the updates a node sends are made from one route     *)
(* table, which holds one route per key (Rib, OneRoutePerKey).             *)
(*                                                                         *)
(* at is what the loop holds: the code's routes and routeChanges.          *)
(***************************************************************************)
EXTENDS RouteTable

Same(routes, item) == {r \in routes : SameKey(r, item)}

Better(item, existing) == Len(item.path) < Len(existing.path) \/ existing.stale

Put(at, type, route, out) ==
  [routes  |-> (at.routes \ out) \cup {route},
   changes |-> at.changes \cup Announce(type, {route})]

\* findIndex: a table of distinct keys has at most one such route.
TakeAdd(self, p, at, item) ==
  LET same     == Same(at.routes, item)
      existing == CHOOSE r \in same : TRUE
  IN  IF Crosses(self, item.path) THEN at
      ELSE IF same = {} THEN Put(at, "added", Learned(p, item), {})
      ELSE IF Better(item, existing)
      THEN Put(at, "updated", Learned(p, item), {existing})
      ELSE at

TakeRemove(at, item) ==
  LET same == Same(at.routes, item)
  IN  [routes |-> at.routes \ same, changes |-> at.changes \cup Announce("removed", same)]

\* One turn of the loop.
Take(self, p, at, item) ==
  IF item.action = "add" THEN TakeAdd(self, p, at, item) ELSE TakeRemove(at, item)

\* What the loop holds after all the items of an update from p, in their order.
Loop(self, p, routes, items) ==
  LET after[k \in 0..Len(items)] ==
        IF k = 0 THEN [routes |-> routes, changes |-> {}]
        ELSE Take(self, p, after[k - 1], items[k])
  IN  after[Len(items)]
===============================================================================
