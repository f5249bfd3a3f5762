-------------------------- MODULE MCRollingUpgrade --------------------------
EXTENDS RollingUpgrade

\* The second node's clock is a minute ahead of the others.
MCSkew == [n \in 1 .. Last |-> IF n = 2 THEN 1 ELSE 0]
=============================================================================
