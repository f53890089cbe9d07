--------------------------------- MODULE MCAuth ---------------------------------
(* An instance of Auth for TLC: one caller of rotate, which awaits each. *)
EXTENDS Auth
CONSTANTS r1, d, n
===============================================================================
