-------------------------- MODULE MCOsdAllocation --------------------------
EXTENDS OsdAllocation

Node0 == "node0"
Node1 == "node1"

\* Two nodes: OSD 1's disk is on the first, OSD 2's on the second.
MCNodes == {Node0, Node1}
MCCpusOf == [n \in MCNodes |-> IF n = Node0 THEN {1, 2} ELSE {3}]
MCProfiles == {"performance", "balanced", "minimal"}
MCWant ==
  [p \in MCProfiles |->
     CASE p = "performance" -> <<[node |-> Node0, count |-> 2],
                                 [node |-> Node1, count |-> 1]>>
       [] p = "balanced" -> <<[node |-> Node0, count |-> 1],
                              [node |-> Node1, count |-> 1]>>
       [] p = "minimal" -> <<[node |-> AnyNode, count |-> 2],
                             [node |-> AnyNode, count |-> 2]>>]
=============================================================================
