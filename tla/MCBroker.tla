-------------------------------- MODULE MCBroker --------------------------------
(* TLC instances of Broker: a gateway with pools in a group, whose second   *)
(* request adds a pool of no group, and a client that has its key put in    *)
(* that group.                                                             *)
EXTENDS Broker, TLC

CONSTANTS m1, m2, gateway, nova, images, ns1, novaKey, p1, p2, gw1, gw2, nova1

MCMons == {m1, m2}
MCClients == {gateway, nova}
MCPools == {p1, p2}
MCRequests == {gw1, gw2, nova1}
MCRequestsOf == (gateway :> {gw1, gw2} @@ nova :> {nova1})
MCFirst == (gateway :> gw1 @@ nova :> nova1)

Create(p, g, n) ==
  [op |-> "create-pool", pool |-> p, service |-> None, group |-> g, ns |-> n]

Grant(s, g, n) ==
  [op |-> "add-permissions-to-key", pool |-> None, service |-> s, group |-> g, ns |-> n]

OpsIn(n) ==
  (gw1 :> <<Create(p1, images, n)>>
   @@ gw2 :> <<Create(p1, images, n), Create(p2, None, None)>>
   @@ nova1 :> <<Grant(novaKey, images, n)>>)

MCOps == OpsIn(None)
MCOpsNamespaced == OpsIn(ns1)
================================================================================
