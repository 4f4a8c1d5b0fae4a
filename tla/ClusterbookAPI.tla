--------------------------- MODULE ClusterbookAPI ---------------------------
(***************************************************************************)
(* clusterbook as the Crossplane provider sees it through its HTTP client  *)
(* (provider/internal/client/clusterbook.go): the handlers of IPLedger,    *)
(* each an atomic change of the ledger (which LedgerWrite implements),     *)
(* together with the other clients, the reclaimer, the clock and what may  *)
(* go wrong between the provider and clusterbook.                          *)
(***************************************************************************)
EXTENDS IPLedger, Integers

CONSTANTS
  Others,       \* requests that other clients may send
  Faults,       \* what may go wrong: "http", "dns", "crash", "status"
  MaxFaults,    \* bound: faults in a behaviour
  MaxOthers,    \* bound: requests of other clients
  MaxNow,       \* bound: the clock stops here
  NoRecord      \* a cluster name without a DNS record

ASSUME BoundsAssumption ==
  /\ MaxFaults \in Nat /\ MaxOthers \in Nat /\ MaxNow \in Nat
  /\ Digit \subseteq Nat

ASSUME OthersAssumption == \A r \in Others : ValidRequest(r, Nat)

VARIABLES
  ledger,
  records,     \* records[c]: the address the DNS provider resolves cluster c to
  now,         \* time.Now().Unix(), on the server and in the provider
  faults, others   \* how many of each there were

apiVars == <<ledger, records, now, faults, others>>

APIInit(pools) ==
  /\ ledger = pools
  /\ records = [c \in Cluster |-> NoRecord]
  /\ now = 0 /\ faults = 0 /\ others = 0

Fault(f) == f \in Faults /\ faults < MaxFaults /\ faults' = faults + 1

(* The records after the tasks in done: of those of a cluster, the last.   *)
Performed(tasks, done) ==
  [c \in Cluster |->
     LET mine == {i \in done : tasks[i].cluster = c}
     IN  IF mine = {} THEN records[c]
         ELSE LET last == tasks[CHOOSE i \in mine : \A j \in mine : j <= i]
              IN  IF last.op = "create" THEN last.addr ELSE NoRecord]

-----------------------------------------------------------------------------
(* What the client reads.                                                  *)

(* getPoolInfos: an element for every network, with its number of          *)
(* addresses (the other numbers are only reported).                        *)
handleAPINetworks(l) ==
  [n \in {x \in Network : Configured(l, x)} |->
     Cardinality({d \in Digit : InPool(l, n, d)})]

(* getIPEntries: the host parts; 404 without the network.                  *)
handleAPINetworkIPs(l, n) == {d \in Digit : InPool(l, n, d)}

ListNetworks == handleAPINetworks(ledger)
NetworkExists(n) == n \in DOMAIN ListNetworks
PoolTotal(n) == ListNetworks[n]

(* 404 and an empty pool (JSON null) are both a nil slice.                 *)
GetNetworkIPs(n) == handleAPINetworkIPs(ledger, n)

(* What it writes.  Every call but edit and delete network goes through    *)
(* postJSON.                                                               *)
ReserveIP(n, c, status, dns, lease) ==
  [kind |-> "reserve", key |-> n, any |-> TRUE, cluster |-> c, status |-> status,
   dns |-> dns, lease |-> lease]
RenewLease(n, d, lease) ==
  [kind |-> "renew", key |-> n, ip |-> [net |-> n, host |-> d], lease |-> lease]
ReleaseIP(n, d) == [kind |-> "release", key |-> n, ip |-> [net |-> n, host |-> d]]
EditIP(n, d, c, status, dns) ==
  [kind |-> "edit", key |-> n, ip |-> [net |-> HostPart, host |-> d], cluster |-> c,
   status |-> status, dns |-> dns]
(* A flat list is one pool, a CIDR block one for each network it covers.   *)
CreateNetwork(pools) == [kind |-> "create network", pools |-> pools]
DeleteNetwork(n) == [kind |-> "delete network", key |-> n]
AddIPs(n, hosts) == [kind |-> "add ip", key |-> n, hosts |-> hosts]

-----------------------------------------------------------------------------
(* One call.  "refused" is a status code that says so, "error" a call      *)
(* without an answer or with a 409 or 500 of the ledger, which the server  *)
(* may have carried out nevertheless; "dns failed" is a 200 whose body     *)
(* says that a DNS call went wrong, before or after it took effect.  A     *)
(* call without an answer is carried out at once or never: a handler that  *)
(* still waits for the lock (ledger.go) when its client has given up acts  *)
(* later, and that is left out.                                            *)
Call(r, answer) ==
  /\ UNCHANGED <<now, others>>
  /\ \/ /\ answer = "refused"
        /\ Handle(r, now, ledger) = {}
        /\ UNCHANGED <<ledger, records, faults>>
     \/ /\ answer = "error"
        /\ Fault("http")
        /\ UNCHANGED <<ledger, records>>
     \/ \E saved \in Handle(r, now, ledger) : \E tasks \in DNSWork(r, ledger, saved) :
          /\ ledger' = saved
          /\ \/ /\ answer = "ok" /\ UNCHANGED faults
                /\ records' = Performed(tasks, DOMAIN tasks)
             \/ /\ answer = "error" /\ Fault("http")
                /\ records' = Performed(tasks, DOMAIN tasks)
             \/ /\ answer = "dns failed" /\ tasks # <<>> /\ Fault("dns")
                /\ \E done \in SUBSET DOMAIN tasks : records' = Performed(tasks, done)

(* A DNSError counts as a failed call: checkDNSOutcome is part of          *)
(* postJSONResult.  EditIP sends its request itself and reads only the     *)
(* status code.                                                            *)
Succeeded(r, answer) ==
  answer = "ok" \/ (r.kind = "edit" /\ answer = "dns failed")

-----------------------------------------------------------------------------
(* The rest of the world.                                                  *)

Serve(r) ==
  \E saved \in Handle(r, now, ledger) : \E tasks \in DNSWork(r, ledger, saved) :
    /\ ledger' = saved
    /\ records' = Performed(tasks, DOMAIN tasks)

OtherClient ==
  /\ others < MaxOthers
  /\ others' = others + 1
  /\ \E r \in Others : Serve(r)
  /\ UNCHANGED <<now, faults>>

Reclaim ==
  /\ Serve([kind |-> "reclaim", now |-> now])
  /\ UNCHANGED <<now, faults, others>>

Pass ==
  /\ now < MaxNow
  /\ now' = now + 1
  /\ UNCHANGED <<ledger, records, faults, others>>

=============================================================================
