--------------------------- MODULE MCClusterbook ---------------------------
(* Small instances of Clusterbook.                                         *)
EXTENDS Clusterbook, TLC

CONSTANTS n1, n2, d1, d2, c1, c2, p1, p2, h1, h2, rc

Full(n, d) == [net |-> n, host |-> d]
FullAddress == {Full(n1, d) : d \in Digit} \cup {Full(n2, d1)}

AssignReq(dns, leases) ==
  [kind : {"assign"}, key : {n1}, ip : {Full(n1, d) : d \in Digit}, cluster : Cluster,
   status : {""}, dns : dns, lease : leases]
ReserveAny(dns, leases) ==
  [kind : {"reserve"}, key : {n1}, any : {TRUE},
   cluster : Cluster, status : {""}, dns : dns, lease : leases]
ReserveOne(dns, leases) ==
  [kind : {"reserve"}, key : {n1}, any : {FALSE}, ip : {Full(n1, d) : d \in Digit}, add_to_pool : {TRUE},
   cluster : Cluster, status : {"PENDING"}, dns : dns, lease : leases]
ReleaseReq == [kind : {"release"}, key : {n1}, ip : {Full(n1, d) : d \in Digit}]
RenewReq == [kind : {"renew"}, key : {n1}, ip : {Full(n1, d) : d \in Digit}, lease : {1}]
EditReq(digits, dns) ==
  [kind : {"edit"}, key : {n1}, ip : {Full(n1, d) : d \in digits}, cluster : Cluster,
   status : {"ASSIGNED"}, dns : dns]
DeleteReq(digits) ==
  [kind : {"delete ip"}, key : {n1}, ip : {[net |-> HostPart, host |-> d] : d \in digits}]
GrpcReserve ==
  [kind : {"ReserveIpAddresses"}, key : {n1}, count : 1..2, cluster : Cluster, status : {""}]
SetInfo(status) ==
  [kind : {"SetClusterInfo"}, ips : {FullAddress, {Full(n1, d1)}}, cluster : Cluster, status : status]
HtmxForm(kinds, dns) ==
  [kind : kinds, ip : {Full(n1, d) : d \in Digit}, cluster : Cluster, status : {"ASSIGNED"}, dns : dns]
HtmxRelease == [kind : {"htmx release"}, ip : FullAddress]

(* The REST API with DNS, one process.  Both addresses can be assigned,    *)
(* reserved and released, one of them also edited and deleted.             *)
MCRest ==
  AssignReq(BOOLEAN, {0}) \cup ReserveAny({TRUE}, {1}) \cup ReleaseReq
  \cup EditReq({d1}, BOOLEAN) \cup DeleteReq({d1})

(* Replicas that reserve, renew, release and reclaim.                      *)
MCReplicas ==
  ReserveAny({FALSE}, {1}) \cup ReserveOne({FALSE}, {0}) \cup GrpcReserve
  \cup ReleaseReq \cup RenewReq

(* Every handler, on two networks and with DNS.                            *)
MCAll ==
  AssignReq(BOOLEAN, {1}) \cup ReserveAny({TRUE}, {0}) \cup ReserveOne({FALSE}, {0})
  \cup ReleaseReq \cup RenewReq \cup EditReq(Digit, BOOLEAN) \cup DeleteReq(Digit) \cup GrpcReserve
  \cup SetInfo({"", "ASSIGNED"}) \cup HtmxForm({"htmx assign"}, {TRUE})
  \cup HtmxForm({"htmx edit"}, BOOLEAN) \cup HtmxRelease
  \cup [kind : {"create network"}, pools : {[n \in Network |-> {d1}], [n \in Network |-> {}]}]
  \cup [kind : {"delete network", "htmx delete network"}, key : {n1}]
  \cup [kind : {"add ip"}, key : {n1}, hosts : {Digit, {}}]
  \cup [kind : {"htmx add network"}, key : {n2}, hosts : {{}, {d1}}]
  \cup [kind : {"htmx add ip"}, key : {n1}, host : {d2}]
  \cup [kind : {"htmx delete ip"}, key : {n1}, ip : {Full(n1, d1), Full(n2, d1)}]

MCPools == [n \in Network |-> IF n = n1 THEN NewPool(Digit) ELSE NoPool]
MCHome == [w \in Writer |-> IF w = h2 THEN p2 ELSE p1]
MCPDNS == <<"pdns">>
MCBoth == <<"pdns", "ddwrt">>
MCNoDNS == <<>>
(* The requests and pools of ClusterbookReplicas name clusters and digits  *)
(* only through sets.                                                      *)
MCSymmetry == Permutations(Cluster) \cup Permutations(Digit)
=============================================================================
