----------------------------- MODULE ExclusiveTurns -----------------------------
(***************************************************************************)
(* What a rolling upgrade promises: nodes work in turns.  A node that has  *)
(* begun keeps its turn until its work is over; only then may another one  *)
(* begin.                                                                  *)
(***************************************************************************)
CONSTANT Units
VARIABLE working     \* the nodes at work

Init == working = {}

Begin(u) == working = {} /\ working' = {u}

End(u) == working = {u} /\ working' = {}

Next == \E u \in Units : Begin(u) \/ End(u)

Spec == Init /\ [][Next]_working
================================================================================
