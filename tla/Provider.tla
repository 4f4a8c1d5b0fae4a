------------------------------ MODULE Provider ------------------------------
(***************************************************************************)
(* The Crossplane provider (provider/main.go): its two controllers, each   *)
(* with one worker, at work on the same clusterbook.                       *)
(***************************************************************************)
EXTENDS IPAssignment, NetworkPool

CONSTANT Pools   \* the ledger to start with

ASSUME PoolsAssumption == Pools \in Ledgers(Nat)

vars == <<apiVars, assignmentVars, netVars>>

TypeOK ==
  /\ ledger \in Ledgers(Nat)
  /\ records \in [Cluster -> Address \cup {NoRecord}]
  /\ now \in 0..MaxNow /\ faults \in 0..MaxFaults /\ others \in 0..MaxOthers
  /\ AssignmentTypeOK
  /\ NetworkTypeOK

Init == APIInit(Pools) /\ AssignmentInit /\ NetworkInit

(* Keeps track of assignments that lose an address to somebody else.       *)
Notice ==
  /\ disturbed' = disturbed \cup {a \in Assignment : heldBy(a) \ heldBy(a)' # {}}
  /\ UNCHANGED <<crVars, workerVars, seen, observedAt, synced, unheard>>

Crash ==
  /\ step # "idle" \/ netStep # "idle"
  /\ Fault("crash")
  /\ WorkerCrash
  /\ NetToIdle
  /\ UNCHANGED <<netCRVars, ledger, records, now, others>>

(* Every object is deleted.                                                *)
Done == gone = Assignment /\ netGone = NetworkCR /\ UNCHANGED vars

Next ==
  \/ Work /\ UNCHANGED netVars
  \/ (\E a \in Assignment : Reconcile(a) \/ DeleteAssignment(a) \/ Unblock(a)) /\ UNCHANGED netVars
  \/ NetWork /\ Notice
  \/ /\ \E m \in NetworkCR : NetReconcile(m) \/ DeleteNetworkCR(m) \/ NetUnblock(m)
     /\ UNCHANGED assignmentVars
  \/ (OtherClient \/ Reclaim \/ Pass) /\ Notice /\ UNCHANGED netVars
  \/ Crash
  \/ Done

Spec == Init /\ [][Next]_vars

(* The reconciler requeues every object again and again, unless it refuses *)
(* it (Reconcile is then not enabled), calls return, and the reclaimer     *)
(* runs.  Nobody has to remove an annotation.                              *)
Fairness ==
  /\ WF_vars(Work /\ UNCHANGED netVars)
  /\ \A a \in Assignment : SF_vars(Reconcile(a) /\ UNCHANGED netVars)
  /\ WF_vars(NetWork /\ Notice)
  /\ \A m \in NetworkCR : SF_vars(NetReconcile(m) /\ UNCHANGED assignmentVars)
  /\ WF_vars(Reclaim /\ Notice /\ UNCHANGED netVars)

FairSpec == Spec /\ Fairness

-----------------------------------------------------------------------------
(* Create "must not, on retry, take a full new set and strand what it      *)
(* already reserved" (ipassignment_test.go): however calls, answers, the   *)
(* status and the process get lost, a cluster that only the provider       *)
(* reserves for never holds more addresses than its assignment asks for.   *)
(* This rests on Call, by which a reserve that is not answered does not    *)
(* act later: one that did would come on top of those of the retry.        *)
NeverMoreThanAsked ==
  \A a \in Assignment : Cardinality(heldBy(a)) <= ForProvider[a].countIPs

(* Create never takes an address another cluster holds, and Update and     *)
(* Delete, which do not ask who holds an address, only one that the other  *)
(* cluster took after the Observe of this very reconcile: an address lost  *)
(* earlier, to a lease that ran out or an assign, is left alone.           *)
TakesOnlyWhatItSaw ==
  [][ \A a \in Address :
        LET was == Entry(ledger, a[1], a[2])
        IN  /\ ~isFree(was)
            /\ Entry(ledger', a[1], a[2]) # was
            /\ \E x \in Assignment : cr = x /\ was.cluster # Owner(x) /\ Key(x) = a[1]
            /\ step \in {"reserve", "send"} /\ <<step, todo, need>> # <<step, todo, need>>'
            => step = "send" /\ a[2] \in seen ]_vars

(* "keeps the lease alive" (types.go): an address is reclaimed from an     *)
(* assignment only when the last reconcile that left its lease in order is *)
(* half the lease duration or more ago.                                    *)
LeaseOutlivesHalf ==
  [][ \A a \in Assignment, d \in Digit :
        /\ Leased(a) /\ d \in atProvider[a] /\ synced[a][d] >= 0
        /\ InPool(ledger', Key(a), d) /\ isFree(ledger'[Key(a)][d])
        /\ InPool(ledger, Key(a), d) /\ d \in heldBy(a)
        /\ ledger[Key(a)][d].lease \in 1..now
        => now - synced[a][d] >= ForProvider[a].lease \div 2 ]_vars

(* checkDNSOutcome: "the reconcile retries instead of settling on a        *)
(* resource whose DNS record never landed".  Observe reports an assignment *)
(* up to date only when its record is there, or when the failure of the    *)
(* last attempt was met by EditIP, which does not call checkDNSOutcome, or *)
(* by a Create over an older status, or when the Update after an adoption  *)
(* did not get to re-create the record.                                    *)
RetriesDNS ==
  [][ \A a \in Assignment :
        ObserveUpToDate(a) /\ ForProvider[a].createDNS =>
          records[Owner(a)] # NoRecord \/ a \in unheard ]_vars

(* Observe, of addresses it adopts: "Let Update re-create the record once  *)
(* (idempotent) instead of settling on one that may never have landed".    *)
(* Without these exceptions, then, it would never report an assignment up  *)
(* to date whose record is missing.                                        *)
NeverSettlesWithoutRecord ==
  [][ \A a \in Assignment :
        ObserveUpToDate(a) /\ ForProvider[a].createDNS => records[Owner(a)] # NoRecord ]_vars

(* An assignment that met no fault, and whose addresses nobody else took,  *)
(* leaves none behind when it is deleted.                                  *)
GoneLeavesNothing == \A a \in gone \ disturbed : heldBy(a) = {}

(* The Network controller touches no entry that exists, except by deleting *)
(* the network of a deleted object: what Update adds may have been added   *)
(* and assigned since it looked.                                           *)
NetworkKeepsEntries ==
  [][ (netStep \in {"create", "add"}) /\ netStep' # netStep =>
        \A a \in Address : InPool(ledger, a[1], a[2]) =>
          InPool(ledger', a[1], a[2]) /\ ledger'[a[1]][a[2]] = ledger[a[1]][a[2]] ]_vars

(* The deleted objects of both controllers disappear in the end, unless    *)
(* the reconciler refuses them: the process died in their Create, or its   *)
(* outcome could not be written down, and nobody removes the annotation.   *)
DeletionEnds ==
  /\ \A a \in Assignment : <>[](a \in deleting => a \in gone \/ Refused(a))
  /\ \A m \in NetworkCR : <>[](m \in netDeleting => m \in netGone \/ NetRefused(m))

(* Whatever else goes wrong on the way (calls and answers get lost,        *)
(* statuses are not written, the process dies outside Create), as long as  *)
(* its network is wanted a cluster ends up with the addresses its          *)
(* assignment asks for, or settles on those in its status and holds every  *)
(* one of them.  (It settles on fewer when an address is released between  *)
(* two reserves of a Create and given out again: Observe never counts the  *)
(* addresses of a status.)                                                 *)
Wanted(a) ==
  /\ a \notin deleting /\ ~Refused(a)
  /\ \A m \in NetworkCR : NetKey(m) = Key(a) => m \notin netDeleting /\ ~NetRefused(m)

KeepsItsAddresses ==
  \A a \in Assignment :
    <>[](Wanted(a) => \/ Cardinality(heldBy(a)) = ForProvider[a].countIPs
                      \/ atProvider[a] # {} /\ atProvider[a] \subseteq heldBy(a))

(* ... and its status lists addresses: what a failed or unrecorded Create  *)
(* reserved is adopted.                                                    *)
ReadyAtLast ==
  \A a \in Assignment : <>[](Wanted(a) => atProvider[a] # {})

(* The pool of a Network object has the addresses it asks for in the end,  *)
(* also those that somebody deletes, if nobody adds others and the object  *)
(* is not refused.                                                         *)
PoolIsFilled ==
  \A m \in NetworkCR :
    <>[](\/ m \in netDeleting \/ NetRefused(m)
         \/ computeDesiredIPs(m) \subseteq GetNetworkIPs(NetKey(m)))

-----------------------------------------------------------------------------
(* What the proofs of these need.  The calls that Update or Delete still   *)
(* has to make are of the object it works on and for addresses in its      *)
(* status.                                                                 *)
Edits(a) ==
  {EditIP(Key(a), d, Owner(a), ForProvider[a].status, ForProvider[a].createDNS) : d \in Digit}
  \cup {RenewLease(Key(a), d, ForProvider[a].lease) : d \in Digit}

Releases(a) == {ReleaseIP(Key(a), d) : d \in Digit}

CallsOfCR ==
  step = "send" =>
    /\ todo \in Seq(IF doomed THEN Releases(cr) ELSE Edits(cr))
    /\ \A i \in DOMAIN todo : todo[i].ip.host \in ips

InductiveInv == TypeOK /\ CallsOfCR

(* heldBy of a given ledger.                                               *)
Held(l, a) ==
  {d \in Digit : Entry(l, Key(a), d).cluster = Owner(a) /\ ~isFree(Entry(l, Key(a), d))}

(* Only the provider claims addresses for the clusters of its assignments: *)
(* two of them do not share a cluster and a network, other clients ask for *)
(* other clusters, and nothing is theirs to begin with.                    *)
OnlyProviderClaims ==
  /\ \A a, b \in Assignment : Key(a) = Key(b) /\ Owner(a) = Owner(b) => a = b
  /\ \A r \in Others, a \in Assignment : r.kind \in WithInfo => r.cluster # Owner(a)
  /\ \A a \in Assignment, x \in Address : Entry(Pools, x[1], x[2]).cluster # Owner(a)

(* Then an entry with the name of such a cluster is not free, ...          *)
OwnedIn(l) ==
  \A a \in Assignment, d \in Digit :
    Entry(l, Key(a), d).cluster = Owner(a) => ~isFree(Entry(l, Key(a), d))

(* ... what a cluster holds, what Update may take back for it and what     *)
(* Create still reserves stays within what is asked for, ...               *)
Claims(a) == Held(ledger, a) \cup (IF cr = a /\ step = "send" THEN ips ELSE {})
Due(a) == IF cr = a /\ step = "reserve" THEN need ELSE 0
WithinCount == \A a \in Assignment : Cardinality(Claims(a)) + Due(a) <= ForProvider[a].countIPs

(* ... and Update and Delete go for addresses that were its own.           *)
GoesByWhatItSaw ==
  step = "send" =>
    /\ ips \subseteq seen
    /\ \A b \in Assignment \ {cr} : Key(b) = Key(cr) => ips \cap Held(ledger, b) = {}

(* An assignment that was not disturbed holds all or nothing while nobody  *)
(* works on it, and its status, if it has one, lists what it holds; a      *)
(* worker in the middle of Create or Delete knows what is left.            *)
AllOrNothing(a) ==
  Held(ledger, a) = {} \/ Cardinality(Held(ledger, a)) = ForProvider[a].countIPs

AtRest(a) ==
  /\ AllOrNothing(a)
  /\ atProvider[a] \in {{}, Held(ledger, a)} \/ (a \in deleting /\ Held(ledger, a) = {})
  /\ a \in gone => Held(ledger, a) = {}

AtCreate(a) == ~doomed /\ Held(ledger, a) = {} /\ ips = {} /\ atProvider[a] = {}

AtReserve(a) ==
  /\ ~doomed /\ Held(ledger, a) = taken
  /\ Cardinality(taken) + need = ForProvider[a].countIPs
  /\ ips = {} /\ atProvider[a] = {}

AtRelease(a) == Held(ledger, a) \subseteq {todo[i].ip.host : i \in DOMAIN todo}

AtUpdate(a) == AllOrNothing(a) /\ {ips, atProvider[a]} \subseteq {{}, Held(ledger, a)}

AtWork(a) ==
  /\ step = "create" => AtCreate(a)
  /\ step = "reserve" => AtReserve(a)
  /\ step = "send" => IF doomed THEN AtRelease(a) ELSE AtUpdate(a)
  /\ step \in {"annotate", "store"} => IF doomed THEN Held(ledger, a) = {} ELSE AtUpdate(a)

Undisturbed ==
  \A a \in Assignment \ disturbed : IF cr = a THEN AtWork(a) ELSE AtRest(a)

ClaimsInv == OwnedIn(ledger) /\ WithinCount /\ GoesByWhatItSaw /\ Undisturbed

(* Only the provider sets leases in the networks of leased assignments.    *)
OnlyProviderLeases ==
  \A r \in Others, a \in Assignment :
    Leased(a) /\ r.kind \in {"assign", "reserve", "renew"} /\ r.key = Key(a) =>
      r.kind # "renew" /\ r.lease = 0

(* Then the lease of an address that an assignment holds, or that Update   *)
(* may take back for it, is missing or runs for half its duration from the *)
(* reconcile that last left it in order, ...                               *)
LeaseLeft(a, d, t) ==
  LET lease == Entry(ledger, Key(a), d).lease
  IN  lease = 0 \/ lease >= t + (ForProvider[a].lease \div 2)

LeasesLast ==
  \A a \in Assignment, d \in Digit :
    Leased(a) /\ synced[a][d] >= 0 /\ d \in Claims(a) => LeaseLeft(a, d, synced[a][d])

(* ... and so does, from the Observe of this reconcile, every lease that   *)
(* Update does not have to renew any more.                                 *)
RenewedSoFar ==
  step = "send" /\ ~doomed /\ Leased(cr) =>
    \A d \in ips :
      \/ \E i \in DOMAIN todo : todo[i] = RenewLease(Key(cr), d, ForProvider[cr].lease)
      \/ LeaseLeft(cr, d, observedAt)

InThePast ==
  observedAt <= now /\ \A a \in Assignment, d \in Digit : synced[a][d] <= now

LeaseInv == LeasesLast /\ RenewedSoFar /\ InThePast

=============================================================================
