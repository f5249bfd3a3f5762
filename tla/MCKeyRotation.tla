---------------------------- MODULE MCKeyRotation ----------------------------
\* Two OSDs, on one host or on two.
EXTENDS KeyRotation, TLC

CONSTANTS m1, m2, o1, o2, h1, h2

MCOneHost == o1 :> h1 @@ o2 :> h1
MCTwoHosts == o1 :> h1 @@ o2 :> h2
=============================================================================
