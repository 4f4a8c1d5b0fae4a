----------------------------- MODULE MCProvider -----------------------------
(* Small instances of Provider.                                            *)
EXTENDS Provider, TLC

CONSTANTS n1, a1, m1, c1, c2

AskFor(count, dns, lease) ==
  a1 :> [networkKey |-> n1, cluster |-> c1, countIPs |-> count, status |-> "ASSIGNED",
         createDNS |-> dns, lease |-> lease]
MCForProvider == AskFor(2, TRUE, 2)
MCShortLease == AskFor(2, FALSE, 1)
MCOneAddress == AskFor(1, TRUE, 0)

UpTo(host) ==
  m1 :> [networkKey |-> n1, ips |-> {}, ipFrom |-> 1, ipTo |-> host,
         cidr |-> [n \in Network |-> {}]]
MCNetworkParams == UpTo(2)
MCThreeAddresses == UpTo(3)

(* c2 takes the address that c1 is given first, or one that it adds        *)
(* itself ...                                                              *)
Rivals(host) ==
  {[kind |-> "assign", key |-> n1, ip |-> [net |-> n1, host |-> 1], cluster |-> c2,
    status |-> "ASSIGNED", dns |-> FALSE, lease |-> 0],
   [kind |-> "reserve", key |-> n1, any |-> FALSE, ip |-> [net |-> n1, host |-> host],
    add_to_pool |-> TRUE, cluster |-> c2, status |-> "ASSIGNED", dns |-> FALSE, lease |-> 0]}
MCRivals == Rivals(2)

(* ... or somebody releases or deletes an address.                         *)
MCOthers ==
  Rivals(3) \cup {ReleaseIP(n1, 1),
                  [kind |-> "delete ip", key |-> n1, ip |-> [net |-> HostPart, host |-> 2]]}

MCFaults == {"http", "dns", "crash", "status"}
(* The network is new, or has fewer addresses than its object asks for.    *)
MCNoNetworks == NoNetworks
MCFirstAddress == [n \in Network |-> NewPool({1})]

(* In these instances only the provider claims addresses for c1 and sets   *)
(* leases, which is what the proofs in ProviderClaimsProofs assume.        *)
ASSUME ClaimsAssumption == OnlyProviderClaims /\ OnlyProviderLeases
=============================================================================
