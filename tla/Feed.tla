--------------------------------- MODULE Feed ---------------------------------
(***************************************************************************)
(* What a component that is fed configurations promises: it shows one that *)
(* was published, and never goes back to an earlier one.  Configurations   *)
(* are numbered in the order they are published; 0 is none at all.         *)
(***************************************************************************)
EXTENDS Naturals

VARIABLES
  published,   \* number of configurations published
  shown        \* number of the one shown

vars == <<published, shown>>

Init == published = 0 /\ shown = 0

Publish == published' = published + 1 /\ UNCHANGED shown

Show ==
  /\ \E n \in (shown + 1)..published : shown' = n
  /\ UNCHANGED published

Next == Publish \/ Show

Spec == Init /\ [][Next]_vars
===============================================================================
