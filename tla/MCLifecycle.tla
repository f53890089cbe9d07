------------------------------ MODULE MCLifecycle ------------------------------
(* An instance of Lifecycle for TLC: three services on one server, three clients. *)
EXTENDS Lifecycle
===============================================================================
