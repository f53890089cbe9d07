------------------------------ MODULE MCRecovery ------------------------------
(* Instances of Recovery for TLC: one peer, one service of each side. *)
EXTENDS Recovery

CONSTANTS self, a, web, d1, cfg1

Advert == [action |-> "add", name |-> web, origin |-> a, path |-> <<a>>, data |-> d1]
Withdrawal == [Advert EXCEPT !.action = "remove"]

MCHappens ==
  {PeerCreate(a, cfg1), PeerDelete(a), RouteCreate(web, d1), RouteDelete(web),
   Connected(a), Open(a, 1), Close(a, "TRANSPORT_ERROR"),
   Update(a, {Advert}), Update(a, {Withdrawal})}
===============================================================================
