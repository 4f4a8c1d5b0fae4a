---------------------------- MODULE NetworkPool ----------------------------
(***************************************************************************)
(* The Network controller (provider/internal/controller/network): the      *)
(* second worker of the provider, which creates, fills up and deletes the  *)
(* pools of clusterbook.  Its status only reports numbers and is left out, *)
(* its annotations are those of IPAssignment.                              *)
(***************************************************************************)
EXTENDS ClusterbookAPI

CONSTANTS
  NetworkCR,      \* Network objects
  NetworkParams,  \* NetworkParams[m]: networkKey, ips, ipFrom, ipTo, cidr
  NoNetworkCR

(* cidr is the pools the block expands to (CIDR), {} in each if not given. *)
ASSUME NetworkAssumption ==
  /\ NoNetworkCR \notin NetworkCR
  /\ \A m \in NetworkCR :
       LET p == NetworkParams[m]
       IN  /\ p.networkKey \in Network
           /\ p.ips \subseteq Digit
           /\ p.ipFrom \in Nat /\ p.ipTo \in Nat
           /\ p.ipFrom > 0 => p.ipFrom..p.ipTo \subseteq Digit
           /\ p.cidr \in [Network -> SUBSET Digit]

VARIABLES
  netDeleting, netFinalizer, netGone, netPending,  \* as in IPAssignment
  netStep, netCR,  \* the worker
  missing          \* the host parts that Update adds

netCRVars == <<netDeleting, netFinalizer, netGone, netPending>>
netVars == <<netCRVars, netStep, netCR, missing>>

NetworkTypeOK ==
  /\ netGone \subseteq netDeleting /\ netDeleting \subseteq netFinalizer
  /\ netFinalizer \subseteq NetworkCR /\ netPending \subseteq netFinalizer \ netGone
  /\ netStep \in {"idle", "create", "annotate", "update", "add", "delete"}
  /\ netCR \in IF netStep = "idle" THEN {NoNetworkCR} ELSE NetworkCR \ netGone
  /\ missing \subseteq Digit

NetworkInit ==
  /\ netDeleting = {} /\ netFinalizer = {} /\ netGone = {} /\ netPending = {}
  /\ netStep = "idle" /\ netCR = NoNetworkCR
  /\ missing = {}

-----------------------------------------------------------------------------
NetKey(m) == NetworkParams[m].networkKey

(* Mutant: one address too many.                                           *)
DesiredPastTo(m) ==
  LET p == NetworkParams[m]
  IN  IF p.ips # {} THEN p.ips
      ELSE IF p.ipFrom > 0 /\ p.ipTo >= p.ipFrom THEN p.ipFrom..(p.ipTo + 1) ELSE {}

computeDesiredIPs(m) ==
  LET p == NetworkParams[m]
  IN  IF p.ips # {} THEN p.ips
      ELSE IF p.ipFrom > 0 /\ p.ipTo >= p.ipFrom THEN p.ipFrom..p.ipTo ELSE {}

(* Mutant: a pool with any address in it will do.                          *)
NetworkHasSome(m) == computeDesiredIPs(m) = {} \/ PoolTotal(NetKey(m)) >= 1

NetworkUpToDate(m) ==
  \/ computeDesiredIPs(m) = {}
  \/ PoolTotal(NetKey(m)) >= Cardinality(computeDesiredIPs(m))

(* With cidr that block, otherwise the desired addresses of one network.   *)
NetworkPools(m) ==
  IF \E n \in Network : NetworkParams[m].cidr[n] # {} THEN NetworkParams[m].cidr
  ELSE [n \in Network |-> IF n = NetKey(m) THEN computeDesiredIPs(m) ELSE {}]

-----------------------------------------------------------------------------
NetToIdle ==
  netStep' = "idle" /\ netCR' = NoNetworkCR /\ missing' = {}

DeleteNetworkCR(m) ==
  /\ m \in netFinalizer \ netDeleting
  /\ netDeleting' = netDeleting \cup {m}
  /\ UNCHANGED <<netFinalizer, netGone, netPending, netStep, netCR, missing, apiVars>>

NetRefused(m) == m \in netPending /\ netCR # m

NetUnblock(m) ==
  /\ NetRefused(m)
  /\ netPending' = netPending \ {m}
  /\ UNCHANGED <<netDeleting, netFinalizer, netGone, netStep, netCR, missing, apiVars>>

(* Reconcile reads the object and calls Observe, which lists the networks. *)
NetReads(m) == netStep = "idle" /\ m \notin netGone \cup netPending

NetGoOn(m, s) ==
  /\ netStep' = s /\ netCR' = m
  /\ netFinalizer' = netFinalizer \cup {m}
  /\ UNCHANGED <<netDeleting, netGone, missing, apiVars>>

NetObserveAbsent(m) ==
  /\ NetReads(m) /\ m \notin netDeleting
  /\ ~NetworkExists(NetKey(m))
  /\ NetGoOn(m, "create")
  /\ netPending' = netPending \cup {m}

NetObserveOutdated(m) ==
  /\ NetReads(m) /\ m \notin netDeleting
  /\ NetworkExists(NetKey(m)) /\ ~NetworkUpToDate(m)
  /\ NetGoOn(m, "update")
  /\ UNCHANGED netPending

(* Up to date: the reconcile ends with the finalizer set.                  *)
NetObserveUpToDate(m) ==
  /\ NetReads(m) /\ m \notin netDeleting
  /\ NetworkExists(NetKey(m)) /\ NetworkUpToDate(m)
  /\ netFinalizer' = netFinalizer \cup {m}
  /\ UNCHANGED <<netDeleting, netGone, netPending, netStep, netCR, missing, apiVars>>

NetObserveForDeletion(m) ==
  /\ NetReads(m) /\ m \in netDeleting
  /\ NetworkExists(NetKey(m))
  /\ NetGoOn(m, "delete")
  /\ UNCHANGED netPending

NetObserveGone(m) ==
  /\ NetReads(m) /\ m \in netDeleting /\ ~NetworkExists(NetKey(m))
  /\ netGone' = netGone \cup {m}
  /\ UNCHANGED <<netDeleting, netFinalizer, netPending, netStep, netCR, missing, apiVars>>

(* A list that fails changes nothing but conditions and events.            *)
NetReconcile(m) ==
  \/ NetObserveAbsent(m) \/ NetObserveOutdated(m) \/ NetObserveUpToDate(m)
  \/ NetObserveForDeletion(m) \/ NetObserveGone(m)

NetCall(r) ==
  /\ \E answer \in {"ok", "refused", "error"} : Call(r, answer)
  /\ UNCHANGED netCRVars

(* Without addresses the server refuses as Create does ("no IPs            *)
(* specified").                                                            *)
NetCreate ==
  /\ netStep = "create"
  /\ NetCall(CreateNetwork(NetworkPools(netCR)))
  /\ netStep' = "annotate"
  /\ UNCHANGED <<netCR, missing>>

(* Success or failure, the annotations are written and the reconcile is    *)
(* over.                                                                   *)
NetAnnotate ==
  /\ netStep = "annotate"
  /\ netPending' = netPending \ {netCR}
  /\ NetToIdle
  /\ UNCHANGED <<netDeleting, netFinalizer, netGone, apiVars>>

NetAnnotateFails ==
  /\ netStep = "annotate"
  /\ Fault("status")
  /\ NetToIdle
  /\ UNCHANGED <<netCRVars, ledger, records, now, others>>

(* Update reads the pool ...                                               *)
NetUpdate ==
  /\ netStep = "update"
  /\ LET lacking == computeDesiredIPs(netCR) \ GetNetworkIPs(NetKey(netCR))
     IN  IF lacking = {} THEN NetToIdle
         ELSE netStep' = "add" /\ missing' = lacking /\ UNCHANGED netCR
  /\ UNCHANGED <<netCRVars, apiVars>>

NetUpdateFails ==
  /\ netStep = "update"
  /\ Fault("http")
  /\ NetToIdle
  /\ UNCHANGED <<netCRVars, ledger, records, now, others>>

(* ... and then adds what it found missing.                                *)
NetAdd == netStep = "add" /\ NetCall(AddIPs(NetKey(netCR), missing)) /\ NetToIdle

NetDelete == netStep = "delete" /\ NetCall(DeleteNetwork(NetKey(netCR))) /\ NetToIdle

NetWork ==
  \/ NetCreate \/ NetAnnotate \/ NetAnnotateFails
  \/ NetUpdate \/ NetUpdateFails \/ NetAdd \/ NetDelete

=============================================================================
