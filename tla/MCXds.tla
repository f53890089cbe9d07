--------------------------------- MODULE MCXds ---------------------------------
(* An instance of Xds for TLC. *)
EXTENDS Xds
===============================================================================
