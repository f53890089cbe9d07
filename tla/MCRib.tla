-------------------------------- MODULE MCRib --------------------------------
(* Instances of Rib for TLC: this node, its two peers, a node behind
   them, one service name. *)
EXTENDS Rib

CONSTANTS self, a, b, c

\* A service of a, direct and through b; a service of c, through either peer,
\* and a path to it that loops back through this node.
MCPath == {<<a>>, <<b, a>>, <<a, c>>, <<b, c>>, <<b, self, c>>}
===============================================================================
