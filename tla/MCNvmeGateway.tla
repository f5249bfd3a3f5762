----------------------------- MODULE MCNvmeGateway -----------------------------
(* TLC instances of NvmeGateway: two units are alike.                       *)
EXTENDS NvmeGateway, TLC

UnitSymmetry == Permutations(Units)
================================================================================
