---------------------------- MODULE MCResourceRollout ----------------------------
(* TLC instances of ResourceRollout: three hosts at most, in the order a, b, c. *)
EXTENDS ResourceRolloutInv, TLC

CONSTANTS a, b, c

MCUnits2 == {a, b}
MCUnits3 == {a, b, c}
MCLate == {b}                        \* a, first in the order, joins later
MCRank == (a :> 1 @@ b :> 2 @@ c :> 3)
MCRank2 == (a :> 1 @@ b :> 2)
================================================================================
