---------------------------- MODULE MCCRFormat ----------------------------
(* Statuses and cluster names of up to three parts.                       *)
EXTENDS CRFormat

CONSTANTS n1, n2, d1, d2, c1

MCStatuses ==
  {<<>>, <<Text("ASSIGNED")>>, <<Text("ASSIGNED"), Text("DNS")>>, <<Text("PENDING")>>,
   <<Text("PENDING"), Text("DNS")>>, <<Text("ASSIGNED"), Text("DNS"), Text("DNS")>>}
MCClusters == {<<>>, <<Text(c1)>>, <<Text(c1), Text("DNS")>>}
MCLeases == {0, 7}
=============================================================================
