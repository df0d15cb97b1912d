---------------------------- MODULE MCEdgeParts ----------------------------
(* Three deployments, two of them of one project; two environments for two   *)
(* processors; seven console calls; five attempts at a tunnel.               *)
EXTENDS EdgeParts

CONSTANTS d1, d2, d3, p1, p2
OneNameTwice == [d \in Deploys |-> IF d = d3 THEN "other" ELSE "same"]
TwoProcessors == <<p1, p2>>
=============================================================================
