------------------------------ MODULE MCSession ------------------------------
(* An instance of Session for TLC: a unit is a third of the hold time. *)
EXTENDS Session
===============================================================================
