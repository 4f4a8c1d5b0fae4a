------------------------------ MODULE IPLedger ------------------------------
(***************************************************************************)
(* The ledger, a map[string]IPs, and what every handler of clusterbook     *)
(* makes of it: for a request r and a loaded ledger l, each handler below  *)
(* is the set of ledgers it may hand to Save.  The set is empty when the   *)
(* handler returns without saving, and has several members where the code  *)
(* picks an address at random or in map order.  DNSWork is the list of DNS *)
(* calls that follow a successful Save.                                    *)
(*                                                                         *)
(* Pool keys are host parts of addresses.  An address in a request is a    *)
(* record: net is the network of a full address, HostPart when only the    *)
(* host part was given, Malformed when it is neither.                      *)
(***************************************************************************)
EXTENDS Naturals, FiniteSets, Sequences

CONSTANTS
  Network,   \* network keys such as 10.31.103
  Digit,     \* host parts
  Cluster,   \* non-empty cluster names
  NoPool,    \* l[n] when the ledger does not have network n
  NoEntry    \* l[n][d] when the pool of n does not list d

NoCluster == ""
Marked == [ASSIGNED |-> "ASSIGNED:DNS", PENDING |-> "PENDING:DNS"]
DNSStatus == {Marked[s] : s \in DOMAIN Marked}
Status == {""} \cup DOMAIN Marked \cup DNSStatus
HostPart == "host part"
Malformed == "malformed"

IPInfo(Time) == [status : Status, cluster : Cluster \cup {NoCluster}, lease : Time]
Blank == [status |-> "", cluster |-> NoCluster, lease |-> 0]
IPs(Time) == [Digit -> IPInfo(Time) \cup {NoEntry}]
Ledgers(Time) == [Network -> IPs(Time) \cup {NoPool}]
NoNetworks == [n \in Network |-> NoPool]
Address == Network \X Digit

ASSUME NameAssumption ==
  /\ NoCluster \notin Cluster
  /\ HostPart \notin Network /\ Malformed \notin Network
  /\ NoEntry \notin IPInfo(Nat)
  /\ NoPool \notin IPs(Nat)

(* The addresses that a /24 key and a host part stand for are finitely     *)
(* many.                                                                   *)
ASSUME FiniteAssumption == IsFiniteSet(Network) /\ IsFiniteSet(Digit)

-----------------------------------------------------------------------------
Configured(l, n) == l[n] # NoPool

InPool(l, n, d) == Configured(l, n) /\ l[n][d] # NoEntry

(* Reading an absent key of a Go map gives the zero IPInfo.                *)
Entry(l, n, d) == IF InPool(l, n, d) THEN l[n][d] ELSE Blank

Put(l, n, d, e) == [l EXCEPT ![n][d] = e]

isFree(info) == info.status = ""

hasDNSSuffix(s) == s \in DNSStatus

withDNSSuffix(s) == IF hasDNSSuffix(s) THEN s ELSE Marked[s]

wantsDNS(r) == r.dns \/ hasDNSSuffix(r.status)

(* assign and reserve default an empty status; the others reject it.       *)
DefaultStatus(s) == IF s = "" THEN "ASSIGNED" ELSE s

SavedStatus(r) ==
  IF wantsDNS(r) THEN withDNSSuffix(DefaultStatus(r.status)) ELSE DefaultStatus(r.status)

LeaseEnd(duration, now) == IF duration > 0 THEN now + duration ELSE 0

(* The host part, as a set: empty when the code returns an error.          *)
hostDigit(ip, key) == IF ip.net \in {key, HostPart} THEN {ip.host} ELSE {}

GetLastIPDigit(ip) == IF ip.net \in Network THEN {ip.host} ELSE {}

(* The path value of edit and delete: the network prefix is stripped, and  *)
(* what is left must be a key of the pool.                                 *)
PathDigit(ip, key) == hostDigit(ip, key)

FreeDigits(l, n) == {d \in Digit : InPool(l, n, d) /\ isFree(l[n][d])}

-----------------------------------------------------------------------------
(* REST handlers.                                                          *)

Claim(r, now) ==
  [status |-> SavedStatus(r), cluster |-> r.cluster, lease |-> LeaseEnd(r.lease, now)]

handleAPIAssign(r, now, l) ==
  {Put(l, r.key, d, Claim(r, now)) :
     d \in {x \in hostDigit(r.ip, r.key) : r.cluster # NoCluster /\ Configured(l, r.key)}}

(* With an address: in the pool and free, or absent and add_to_pool set.   *)
(* Without: the first free one of a map iteration.                         *)
Reservable(r, l) ==
  IF r.any THEN FreeDigits(l, r.key)
  ELSE {d \in hostDigit(r.ip, r.key) :
          IF InPool(l, r.key, d) THEN isFree(l[r.key][d]) ELSE r.add_to_pool}

handleAPIReserve(r, now, l) ==
  {Put(l, r.key, d, Claim(r, now)) :
     d \in {x \in Reservable(r, l) : r.cluster # NoCluster /\ Configured(l, r.key)}}

(* Mutant: the lease stays.                                                *)
ReleaseKeepsLease(r, l) ==
  {Put(l, r.key, d, [Entry(l, r.key, d) EXCEPT !.status = "", !.cluster = NoCluster]) :
     d \in {x \in GetLastIPDigit(r.ip) : Configured(l, r.key)}}

handleAPIRelease(r, l) ==
  {Put(l, r.key, d, Blank) : d \in {x \in GetLastIPDigit(r.ip) : Configured(l, r.key)}}

(* Mutant: the duration is added to the old expiry.                        *)
RenewFromExpiry(r, now, l) ==
  {Put(l, r.key, d, [l[r.key][d] EXCEPT !.lease = @ + r.lease]) :
     d \in {x \in GetLastIPDigit(r.ip) :
              r.lease > 0 /\ InPool(l, r.key, x) /\ ~isFree(l[r.key][x])}}

handleAPIRenewLease(r, now, l) ==
  {Put(l, r.key, d, [l[r.key][d] EXCEPT !.lease = now + r.lease]) :
     d \in {x \in GetLastIPDigit(r.ip) :
              r.lease > 0 /\ InPool(l, r.key, x) /\ ~isFree(l[r.key][x])}}

NewPool(hosts) == [d \in Digit |-> IF d \in hosts THEN Blank ELSE NoEntry]

(* Mutant: a network that exists is created again.                         *)
CreateAnyNetwork(r, l) ==
  LET asked == {n \in Network : r.pools[n] # {}}
  IN  IF asked = {} THEN {}
      ELSE {[n \in Network |-> IF n \in asked THEN NewPool(r.pools[n]) ELSE l[n]]}

(* r.pools[n]: the host parts to create in network n, from a flat list or  *)
(* from CIDRToNetworks; {} where the request has nothing for n.            *)
handleAPICreateNetwork(r, l) ==
  LET asked == {n \in Network : r.pools[n] # {}}
  IN  IF asked = {} \/ \E n \in asked : Configured(l, n) THEN {}
      ELSE {[n \in Network |-> IF n \in asked THEN NewPool(r.pools[n]) ELSE l[n]]}

handleAPIDeleteNetwork(r, l) ==
  IF Configured(l, r.key) THEN {[l EXCEPT ![r.key] = NoPool]} ELSE {}

(* Mutant: an address that is in the pool is added again.                  *)
AddAgain(r, l) ==
  IF r.hosts = {} \/ ~Configured(l, r.key) THEN {}
  ELSE {[l EXCEPT ![r.key] = [d \in Digit |-> IF d \in r.hosts THEN Blank ELSE @[d]]]}

handleAPIAddIP(r, l) ==
  IF r.hosts = {} \/ ~Configured(l, r.key) THEN {}
  ELSE {[l EXCEPT ![r.key] =
          [d \in Digit |-> IF d \in r.hosts /\ @[d] = NoEntry THEN Blank ELSE @[d]]]}

handleAPIDeleteIP(r, l) ==
  {Put(l, r.key, d, NoEntry) : d \in {x \in PathDigit(r.ip, r.key) : InPool(l, r.key, x)}}

(* Edit keeps the lease.                                                   *)
Edited(r, info) == [info EXCEPT !.status = SavedStatus(r), !.cluster = r.cluster]

Complete(r) == r.cluster # NoCluster /\ r.status # ""

handleAPIEditIP(r, l) ==
  {Put(l, r.key, d, Edited(r, l[r.key][d])) :
     d \in {x \in PathDigit(r.ip, r.key) : Complete(r) /\ InPool(l, r.key, x)}}

-----------------------------------------------------------------------------
(* HTMX handlers of the dashboard.  The network comes from the address; a  *)
(* write to a network that is not configured panics, which net/http        *)
(* recovers from after the deferred End.                                   *)

handleHTMXEdit(r, l) ==
  {Put(l, r.ip.net, d, Edited(r, Entry(l, r.ip.net, d))) :
     d \in {x \in GetLastIPDigit(r.ip) : Complete(r) /\ Configured(l, r.ip.net)}}

(* Assign changes the ledger like edit: the lease of the entry stays.      *)
handleHTMXAssign(r, l) == handleHTMXEdit(r, l)

(* Unlike handleAPIRelease, the lease stays.                               *)
handleHTMXRelease(r, l) ==
  {Put(l, r.ip.net, d, [Entry(l, r.ip.net, d) EXCEPT !.status = "", !.cluster = NoCluster]) :
     d \in {x \in GetLastIPDigit(r.ip) : Configured(l, r.ip.net)}}

(* r.hosts: ip_from .. ip_to, which may be empty.                          *)
handleHTMXAddNetwork(r, l) ==
  IF Configured(l, r.key) THEN {} ELSE {[l EXCEPT ![r.key] = NewPool(r.hosts)]}

handleHTMXAddIP(r, l) ==
  IF Configured(l, r.key) /\ ~InPool(l, r.key, r.host)
    THEN {Put(l, r.key, r.host, Blank)} ELSE {}

handleHTMXDeleteIP(r, l) ==
  {IF Configured(l, r.key) THEN Put(l, r.key, d, NoEntry) ELSE l : d \in GetLastIPDigit(r.ip)}

handleHTMXDeleteNetwork(r, l) == {[l EXCEPT ![r.key] = NoPool]}

-----------------------------------------------------------------------------
(* gRPC handlers (main.go).                                                *)

Overlay(l, n, ds, e) == [l EXCEPT ![n] = [d \in Digit |-> IF d \in ds THEN e ELSE @[d]]]

(* r.ips: the addresses of the range.  One that is malformed or in a       *)
(* network that is not configured refuses the whole request.  The lease of *)
(* an entry stays.                                                         *)
SetClusterInfo(r, l) ==
  IF \E ip \in r.ips : ip.net \notin Network \/ ~Configured(l, ip.net) THEN {}
  ELSE {[n \in Network |->
          IF ~Configured(l, n) THEN NoPool
          ELSE [d \in Digit |->
                 IF [net |-> n, host |-> d] \in r.ips
                   THEN [Entry(l, n, d) EXCEPT !.status = r.status, !.cluster = r.cluster]
                   ELSE l[n][d]]]}

GenerateIPs(count, key, l) == {ds \in SUBSET FreeDigits(l, key) : Cardinality(ds) = count}

ReserveIpAddresses(r, l) ==
  IF r.cluster = NoCluster \/ r.count < 1 \/ hasDNSSuffix(r.status) \/ ~Configured(l, r.key)
    THEN {}
  ELSE LET info == [status |-> DefaultStatus(r.status), cluster |-> r.cluster, lease |-> 0]
       IN  {Overlay(l, r.key, ds, info) : ds \in GenerateIPs(r.count, r.key, l)}

-----------------------------------------------------------------------------
(* The lease reclaimer.  Its time is the one it had before the lock.       *)

(* Mutant: a lease that ends now is left alone.                            *)
FindOverdueLeases(l, now) ==
  {a \in Network \X Digit :
     /\ InPool(l, a[1], a[2])
     /\ l[a[1]][a[2]].lease # 0
     /\ l[a[1]][a[2]].lease < now}

FindExpiredLeases(l, now) ==
  {a \in Network \X Digit :
     /\ InPool(l, a[1], a[2])
     /\ l[a[1]][a[2]].lease # 0
     /\ l[a[1]][a[2]].lease <= now}

ReclaimExpiredLeases(l, now) ==
  [n \in Network |->
     IF ~Configured(l, n) THEN NoPool
     ELSE [d \in Digit |-> IF <<n, d>> \in FindExpiredLeases(l, now) THEN Blank ELSE l[n][d]]]

reclaimOnce(r, l) ==
  IF FindExpiredLeases(l, r.now) = {} THEN {} ELSE {ReclaimExpiredLeases(l, r.now)}

-----------------------------------------------------------------------------
(* What the fields of a decoded request or form may hold, Duration being   *)
(* the leases that are asked for.                                          *)
IPArgument == [net : Network \cup {HostPart, Malformed}, host : Digit]

WithKey == {"assign", "reserve", "release", "renew", "delete network", "add ip", "delete ip",
            "edit", "htmx add network", "htmx add ip", "htmx delete ip", "htmx delete network",
            "ReserveIpAddresses"}
WithAddress == {"assign", "release", "renew", "delete ip", "edit", "htmx assign",
                "htmx release", "htmx edit", "htmx delete ip"}
WithDNS == {"assign", "reserve", "edit", "htmx assign", "htmx edit"}
WithInfo == WithDNS \cup {"SetClusterInfo", "ReserveIpAddresses"}

ValidRequest(r, Duration) ==
  /\ r.kind \in WithKey \cup WithAddress \cup {"create network", "SetClusterInfo"}
  /\ r.kind \in WithKey => r.key \in Network
  /\ r.kind \in WithAddress => r.ip \in IPArgument
  /\ r.kind \in WithInfo => r.cluster \in Cluster \cup {NoCluster} /\ r.status \in Status
  /\ r.kind \in WithDNS => r.dns \in BOOLEAN
  /\ r.kind \in {"assign", "reserve", "renew"} => r.lease \in Duration
  /\ r.kind = "reserve" =>
       r.any \in BOOLEAN /\ (~r.any => r.ip \in IPArgument /\ r.add_to_pool \in BOOLEAN)
  /\ r.kind = "create network" => r.pools \in [Network -> SUBSET Digit]
  /\ r.kind \in {"add ip", "htmx add network"} => r.hosts \subseteq Digit
  /\ r.kind = "htmx add ip" => r.host \in Digit
  /\ r.kind = "SetClusterInfo" => r.ips \subseteq IPArgument

Handle(r, now, l) ==
  CASE r.kind = "assign" -> handleAPIAssign(r, now, l)
    [] r.kind = "reserve" -> handleAPIReserve(r, now, l)
    [] r.kind = "release" -> handleAPIRelease(r, l)
    [] r.kind = "renew" -> handleAPIRenewLease(r, now, l)
    [] r.kind = "create network" -> handleAPICreateNetwork(r, l)
    [] r.kind = "delete network" -> handleAPIDeleteNetwork(r, l)
    [] r.kind = "add ip" -> handleAPIAddIP(r, l)
    [] r.kind = "delete ip" -> handleAPIDeleteIP(r, l)
    [] r.kind = "edit" -> handleAPIEditIP(r, l)
    [] r.kind = "htmx assign" -> handleHTMXAssign(r, l)
    [] r.kind = "htmx release" -> handleHTMXRelease(r, l)
    [] r.kind = "htmx edit" -> handleHTMXEdit(r, l)
    [] r.kind = "htmx add network" -> handleHTMXAddNetwork(r, l)
    [] r.kind = "htmx add ip" -> handleHTMXAddIP(r, l)
    [] r.kind = "htmx delete ip" -> handleHTMXDeleteIP(r, l)
    [] r.kind = "htmx delete network" -> handleHTMXDeleteNetwork(r, l)
    [] r.kind = "SetClusterInfo" -> SetClusterInfo(r, l)
    [] r.kind = "ReserveIpAddresses" -> ReserveIpAddresses(r, l)
    [] r.kind = "reclaim" -> reclaimOnce(r, l)

(* ConvertToCRFormat, then ConvertFromCRFormat: an entry without a status  *)
(* or without a cluster keeps only its lease, a network without entries is *)
(* gone.                                                                   *)
RoundTrip(l) ==
  [n \in Network |->
     IF \A d \in Digit : ~InPool(l, n, d) THEN NoPool
     ELSE [d \in Digit |->
            IF InPool(l, n, d) /\ (isFree(l[n][d]) \/ l[n][d].cluster = NoCluster)
              THEN [Blank EXCEPT !.lease = l[n][d].lease] ELSE l[n][d]]]

-----------------------------------------------------------------------------
(* DNS after the save.  A record belongs to a cluster name, not to an      *)
(* address.                                                                *)

CreateRecord(c, n, d) == [op |-> "create", cluster |-> c, addr |-> <<n, d>>]
DeleteRecord(c) == [op |-> "remove", cluster |-> c]

Task == [op : {"create"}, cluster : Cluster, addr : Address]
        \cup [op : {"remove"}, cluster : Cluster \cup {NoCluster}]

HadDNS(info) == hasDNSSuffix(info.status)

(* The address a handler wrote, given what it loaded and what it saved.    *)
Written(r, l, saved) ==
  CASE r.kind = "reserve" -> {a \in Network \X Digit : Entry(l, a[1], a[2]) # Entry(saved, a[1], a[2])}
    [] r.kind \in {"assign", "delete ip", "edit"} -> {r.key} \X hostDigit(r.ip, r.key)
    [] r.kind \in {"release", "htmx delete ip"} -> {r.key} \X GetLastIPDigit(r.ip)
    [] OTHER -> {r.ip.net} \X GetLastIPDigit(r.ip)

(* Mutant: assign does not look at the previous holder.                    *)
WithdrawnNotByAssign(r, previous) ==
  CASE r.kind \in {"release", "htmx release", "delete ip", "htmx delete ip"} -> HadDNS(previous)
    [] r.kind \in {"edit", "htmx edit"} ->
         HadDNS(previous) /\ (~wantsDNS(r) \/ previous.cluster # r.cluster)
    [] OTHER -> FALSE

Withdrawn(r, previous) ==
  CASE r.kind \in {"release", "htmx release", "delete ip", "htmx delete ip"} -> HadDNS(previous)
    [] r.kind \in {"edit", "htmx edit"} ->
         HadDNS(previous) /\ (~wantsDNS(r) \/ previous.cluster # r.cluster)
    [] r.kind = "assign" ->
         HadDNS(previous) /\ previous.cluster # NoCluster
           /\ (~wantsDNS(r) \/ previous.cluster # r.cluster)
    [] OTHER -> FALSE

Created(r) == r.kind \in {"assign", "reserve", "edit", "htmx assign", "htmx edit"} /\ wantsDNS(r)

DNSKinds == {"assign", "reserve", "release", "delete ip", "edit",
             "htmx assign", "htmx release", "htmx edit", "htmx delete ip"}

(* removeReclaimedDNS: the reclaimed entries that had a record.            *)
ReclaimedDNS(l, now) ==
  {a \in FindExpiredLeases(l, now) :
     HadDNS(l[a[1]][a[2]]) /\ l[a[1]][a[2]].cluster # NoCluster}

Orders(S) == {f \in [1..Cardinality(S) -> S] : \A i, j \in DOMAIN f : f[i] = f[j] => i = j}

(* removeDNS, then createDNS.                                              *)
RecordChanges(r, previous, a) ==
  (IF Withdrawn(r, previous) THEN <<DeleteRecord(previous.cluster)>> ELSE <<>>)
  \o (IF Created(r) THEN <<CreateRecord(r.cluster, a[1], a[2])>> ELSE <<>>)

Removals(l, order) == [i \in DOMAIN order |-> DeleteRecord(l[order[i][1]][order[i][2]].cluster)]

(* The lists of DNS operations that may follow the save of r, one for each *)
(* order the code may take them in.                                        *)
DNSWork(r, l, saved) ==
  CASE r.kind \in DNSKinds ->
         {RecordChanges(r, Entry(l, a[1], a[2]), a) : a \in Written(r, l, saved)}
    [] r.kind = "reclaim" -> {Removals(l, order) : order \in Orders(ReclaimedDNS(l, r.now))}
    [] OTHER -> {<<>>}

=============================================================================
