---------------------------- MODULE IPAssignment ----------------------------
(***************************************************************************)
(* The IPAssignment controller (provider/internal/controller/ipassignment) *)
(* under the managed reconciler of crossplane-runtime.  One worker         *)
(* (MaxConcurrentReconciles 1) reads an IPAssignment, calls Observe and    *)
(* then Create, Update or Delete, and writes the status back.  Each HTTP   *)
(* call is a step; between two of them other clients, the reclaimer, the   *)
(* clock and the user act, and the provider may crash.                     *)
(*                                                                         *)
(* The reconciler notes on the object that a Create begins and, after it,  *)
(* how it ended.  It has not been told that the external name is           *)
(* deterministic, so that it refuses an object with a Create of unknown    *)
(* end, one that is being deleted too, until a person removes the note.    *)
(*                                                                         *)
(* The list status.atProvider.ipAddresses is the set of its host parts;    *)
(* Update and Delete go through it in any order.                           *)
(***************************************************************************)
EXTENDS ClusterbookAPI

CONSTANTS
  Assignment,         \* IPAssignments
  ForProvider,   \* ForProvider[a]: networkKey, cluster, countIPs, status, createDNS, lease
  NoCR        \* what an idle worker reconciles

ASSUME AssignmentAssumption ==
  /\ NoCR \notin Assignment
  /\ \A a \in Assignment :
       /\ ForProvider[a].networkKey \in Network
       /\ ForProvider[a].cluster \in Cluster
       /\ ForProvider[a].countIPs \in Nat \ {0}
       /\ ForProvider[a].status \in DOMAIN Marked
       /\ ForProvider[a].createDNS \in BOOLEAN
       /\ ForProvider[a].lease \in Nat

VARIABLES
  \* in the Kubernetes API
  atProvider,   \* the stored status.atProvider.ipAddresses of each assignment
  deleting,     \* those with a deletion timestamp
  finalizer,    \* those that carry the provider's finalizer
  gone,         \* those that have been deleted
  pending,      \* those whose annotations tell of a Create and not of its end
  \* of the worker
  step, cr,
  ips,          \* status.atProvider.ipAddresses of the object in memory
  doomed,       \* it has a deletion timestamp
  todo,         \* the calls that Update or Delete still makes
  taken, need,  \* Create: what it has so far, and how many it still reserves
  \* history
  seen,         \* the addresses Observe went by in this reconcile that were its own
  observedAt,   \* when that was
  synced,       \* synced[a][d]: the Observe of the last reconcile with the lease of d in order
  unheard,      \* those with a DNS failure that nothing in the provider remembers
  disturbed     \* those that met a fault or lost an address to somebody else

crVars == <<atProvider, deleting, finalizer, gone, pending>>
history == <<seen, observedAt, synced, unheard, disturbed>>
workerVars == <<step, cr, ips, doomed, todo, taken, need>>
assignmentVars == <<crVars, workerVars, history>>

AssignmentTypeOK ==
  /\ atProvider \in [Assignment -> SUBSET Digit]
  /\ gone \subseteq deleting /\ deleting \subseteq finalizer /\ finalizer \subseteq Assignment
  /\ pending \subseteq finalizer \ gone
  /\ step \in {"idle", "create", "reserve", "annotate", "send", "store"}
  /\ cr \in IF step = "idle" THEN {NoCR} ELSE Assignment \ gone
  /\ ips \in SUBSET Digit /\ taken \in SUBSET Digit /\ need \in Nat
  /\ doomed \in BOOLEAN /\ (doomed => cr \in deleting)
  /\ step # "send" => todo = <<>>
  /\ seen \in SUBSET Digit /\ observedAt \in 0..MaxNow
  /\ unheard \in SUBSET Assignment /\ disturbed \in SUBSET Assignment
  /\ synced \in [Assignment -> [Digit -> {-1} \cup 0..MaxNow]]

AssignmentInit ==
  /\ atProvider = [a \in Assignment |-> {}]
  /\ deleting = {} /\ finalizer = {} /\ gone = {} /\ pending = {}
  /\ step = "idle" /\ cr = NoCR
  /\ ips = {} /\ doomed = FALSE /\ todo = <<>> /\ taken = {} /\ need = 0
  /\ seen = {} /\ observedAt = 0
  /\ synced = [a \in Assignment |-> [d \in Digit |-> -1]]
  /\ unheard = {} /\ disturbed = {}

-----------------------------------------------------------------------------
Key(a) == ForProvider[a].networkKey
Owner(a) == ForProvider[a].cluster
Leased(a) == ForProvider[a].lease > 0

heldBy(a) ==
  {d \in GetNetworkIPs(Key(a)) :
     ledger[Key(a)][d].cluster = Owner(a) /\ ~isFree(ledger[Key(a)][d])}

countFree(a) == Cardinality(FreeDigits(ledger, Key(a)))

(* The first k in the order of the server, which sorts by host part.       *)
FirstOf(S, k) == {d \in S : Cardinality({e \in S : e < d}) < k}

(* Mutant: Observe looks for the addresses and not at who holds them.      *)
ResourceListed(a) ==
  IF atProvider[a] = {} THEN heldBy(a) # {} /\ Cardinality(heldBy(a)) >= ForProvider[a].countIPs
  ELSE \A d \in atProvider[a] : InPool(ledger, Key(a), d)

(* Mutant: nothing is adopted.                                             *)
ResourceRecorded(a) ==
  /\ atProvider[a] # {}
  /\ \A d \in atProvider[a] :
       InPool(ledger, Key(a), d) /\ ledger[Key(a)][d].cluster = Owner(a)

(* Observe: ResourceExists.                                                *)
ResourceExists(a) ==
  IF atProvider[a] = {} THEN heldBy(a) # {} /\ Cardinality(heldBy(a)) >= ForProvider[a].countIPs
  ELSE \A d \in atProvider[a] :
         InPool(ledger, Key(a), d) /\ ledger[Key(a)][d].cluster = Owner(a)

(* Observe: the addresses in the status when it returns with               *)
(* ResourceExists, adopted if there were none.                             *)
Observed(a) ==
  IF atProvider[a] = {} THEN FirstOf(heldBy(a), ForProvider[a].countIPs) ELSE atProvider[a]

ExpectedStatus(a) ==
  IF ForProvider[a].createDNS THEN Marked[ForProvider[a].status] ELSE ForProvider[a].status

(* Mutant: only a lease that is missing is renewed.                        *)
LeaseMissing(a, d) == ledger[Key(a)][d].lease = 0

(* Less than half the duration is left.                                    *)
LeaseDue(a, d) ==
  ledger[Key(a)][d].lease = 0 \/ ledger[Key(a)][d].lease < now + (ForProvider[a].lease \div 2)

InOrder(a, d) ==
  ledger[Key(a)][d].status = ExpectedStatus(a) /\ (Leased(a) => ~LeaseDue(a, d))

(* Mutant: an adopted address is looked at like any other.                 *)
UpToDateIfInOrder(a) == \A d \in Observed(a) : InOrder(a, d)

(* Observe: ResourceUpToDate.                                              *)
ResourceUpToDate(a) ==
  IF atProvider[a] = {} THEN ~ForProvider[a].createDNS
  ELSE \A d \in atProvider[a] : InOrder(a, d)

-----------------------------------------------------------------------------
(* The managed reconciler.                                                 *)

ToStore == step' = "store" /\ todo' = <<>> /\ taken' = {} /\ need' = 0

ToAnnotate == step' = "annotate" /\ todo' = <<>> /\ taken' = {} /\ need' = 0

ToIdle ==
  /\ step' = "idle" /\ cr' = NoCR
  /\ ips' = {} /\ doomed' = FALSE /\ todo' = <<>> /\ taken' = {} /\ need' = 0
  /\ seen' = {} /\ observedAt' = 0

(* Create is over: UpdateCriticalAnnotations.  The answer overwrites the   *)
(* object in memory, and with it the status of Create, or it does not.     *)
Annotated == ips' \in {ips, atProvider[cr]} /\ step' = "store"

Annotate ==
  /\ step = "annotate"
  /\ pending' = pending \ {cr}
  /\ Annotated
  /\ UNCHANGED <<atProvider, deleting, finalizer, gone, cr, doomed, todo, taken, need,
                 history, apiVars>>

(* Its retries fail, and the reconcile goes on to the status.              *)
AnnotateFails ==
  /\ step = "annotate"
  /\ Fault("status")
  /\ Annotated
  /\ disturbed' = disturbed \cup {cr}
  /\ UNCHANGED <<crVars, cr, doomed, todo, taken, need, seen, observedAt, synced, unheard,
                 ledger, records, now, others>>

(* Status().Update writes the object back, unless it was changed since it  *)
(* was read.                                                               *)
StoreStatus ==
  /\ step = "store"
  /\ atProvider' = IF doomed = (cr \in deleting)
                     THEN [atProvider EXCEPT ![cr] = ips] ELSE atProvider
  /\ ToIdle
  /\ UNCHANGED <<deleting, finalizer, gone, pending, synced, unheard, disturbed, apiVars>>

StoreStatusFails ==
  /\ step = "store"
  /\ Fault("status")
  /\ disturbed' = disturbed \cup {cr}
  /\ ToIdle
  /\ UNCHANGED <<crVars, synced, unheard, ledger, records, now, others>>

(* The process ends; the next one starts without a memory, but for the     *)
(* annotations.                                                            *)
WorkerCrash ==
  /\ disturbed' = IF cr = NoCR THEN disturbed ELSE disturbed \cup {cr}
  /\ ToIdle
  /\ UNCHANGED <<crVars, synced, unheard>>

(* The user deletes it.  Without the finalizer it is just gone, and *)
(* the provider has reserved nothing for it.                               *)
DeleteAssignment(a) ==
  /\ a \in finalizer \ deleting
  /\ deleting' = deleting \cup {a}
  /\ UNCHANGED <<atProvider, finalizer, gone, pending, workerVars, history, apiVars>>

(* Requeue is FALSE, and every later reconcile ends before Observe ...     *)
Refused(a) == a \in pending /\ cr # a

(* ... until a person has looked into it and removes the annotation.       *)
Unblock(a) ==
  /\ Refused(a)
  /\ pending' = pending \ {a}
  /\ UNCHANGED <<atProvider, deleting, finalizer, gone, workerVars, history, apiVars>>

-----------------------------------------------------------------------------
(* Observe, and what the reconciler does next.                             *)

(* Reconcile reads the object and calls Observe, which makes one GET.      *)
Reads(a) == step = "idle" /\ a \notin gone \cup pending

(* That fails, and nothing changes but conditions and events.              *)
ObserveFails(a) ==
  /\ Reads(a)
  /\ Fault("http")
  /\ disturbed' = disturbed \cup {a}
  /\ UNCHANGED <<crVars, workerVars, seen, observedAt, synced, unheard,
                 ledger, records, now, others>>

Saw(a, S) ==
  cr' = a /\ doomed' = (a \in deleting) /\ seen' = S \cap heldBy(a) /\ observedAt' = now

(* AddFinalizer updates the object, which overwrites the one in memory     *)
(* with what is stored: the status Observe set is lost.                    *)
AddFinalizer(a) ==
  /\ finalizer' = finalizer \cup {a}
  /\ ips' = IF a \in finalizer /\ ResourceExists(a) THEN Observed(a) ELSE atProvider[a]

Synced(a, S, t) == [synced EXCEPT ![a] = [d \in Digit |-> IF d \in S THEN t ELSE @[d]]]

ObserveAbsent(a) ==
  /\ Reads(a) /\ a \notin deleting
  /\ ~ResourceExists(a)
  /\ AddFinalizer(a)
  /\ pending' = pending \cup {a}
  /\ step' = "create"
  /\ Saw(a, {})
  /\ UNCHANGED <<atProvider, deleting, gone, todo, taken, need,
                 synced, unheard, disturbed, apiVars>>

ObserveUpToDate(a) ==
  /\ Reads(a) /\ a \notin deleting
  /\ ResourceExists(a) /\ ResourceUpToDate(a)
  /\ AddFinalizer(a)
  /\ Saw(a, Observed(a))
  /\ synced' = Synced(a, atProvider[a], now)
  /\ ToStore
  /\ UNCHANGED <<atProvider, deleting, gone, pending, unheard, disturbed, apiVars>>

(* Update: EditIP and then, with a lease, RenewLease for every address.    *)
UpdateCalls(a, order) ==
  LET p == ForProvider[a]
      edit(d) == EditIP(Key(a), d, Owner(a), p.status, p.createDNS)
      renew(d) == RenewLease(Key(a), d, p.lease)
  IN  IF Leased(a)
        THEN [i \in 1..(2 * Len(order)) |->
                IF i % 2 = 1 THEN edit(order[(i + 1) \div 2]) ELSE renew(order[i \div 2])]
        ELSE [i \in DOMAIN order |-> edit(order[i])]

ObserveOutdated(a) ==
  /\ Reads(a) /\ a \notin deleting
  /\ ResourceExists(a) /\ ~ResourceUpToDate(a)
  /\ AddFinalizer(a)
  /\ Saw(a, Observed(a))
  /\ \E order \in Orders(ips') : todo' = UpdateCalls(a, order)
  /\ step' = "send"
  /\ UNCHANGED <<atProvider, deleting, gone, pending, taken, need, synced, unheard, disturbed,
                 apiVars>>

(* Mutant: only the address in the convenience field ipAddress is released. *)
DeleteFirst(a, order) == <<ReleaseIP(Key(a), order[1])>>

(* Mutant: addresses are left to their leases.                             *)
DeleteNone(a, order) == <<>>

(* Delete: ReleaseIP for every address in the status.                      *)
DeleteCalls(a, order) == [i \in DOMAIN order |-> ReleaseIP(Key(a), order[i])]

ObserveForDeletion(a) ==
  /\ Reads(a) /\ a \in deleting
  /\ ResourceExists(a)
  /\ ips' = Observed(a)
  /\ Saw(a, Observed(a))
  /\ \E order \in Orders(ips') : todo' = DeleteCalls(a, order)
  /\ step' = "send"
  /\ UNCHANGED <<crVars, taken, need, synced, unheard, disturbed, apiVars>>

(* Nothing is left to delete: RemoveFinalizer.                             *)
ObserveGone(a) ==
  /\ Reads(a) /\ a \in deleting
  /\ ~ResourceExists(a)
  /\ gone' = gone \cup {a}
  /\ UNCHANGED <<atProvider, deleting, finalizer, pending, workerVars, history, apiVars>>

Reconcile(a) ==
  \/ ObserveAbsent(a) \/ ObserveUpToDate(a) \/ ObserveOutdated(a)
  \/ ObserveForDeletion(a) \/ ObserveGone(a) \/ ObserveFails(a)

-----------------------------------------------------------------------------
(* Create.                                                                 *)

(* Mutant: Create reserves a full set, whatever the cluster holds.         *)
StartFromNothing(a) == {}

StartFrom(a) == FirstOf(heldBy(a), ForProvider[a].countIPs)

Missing(a) == ForProvider[a].countIPs - Cardinality(StartFrom(a))

CreateLists ==
  /\ step = "create"
  /\ GetNetworkIPs(Key(cr)) # {}
  /\ countFree(cr) >= Missing(cr)
  /\ taken' = StartFrom(cr)
  /\ need' = Missing(cr)
  /\ step' = "reserve"
  /\ UNCHANGED <<crVars, cr, ips, doomed, todo, history, apiVars>>

(* "network not found" or "not enough available IPs".                      *)
CreateRefused ==
  /\ step = "create"
  /\ GetNetworkIPs(Key(cr)) = {} \/ countFree(cr) < Missing(cr)
  /\ ToAnnotate
  /\ UNCHANGED <<crVars, cr, ips, doomed, history, apiVars>>

(* A DNS failure is forgotten when EditIP meets it, when Create does while *)
(* an older status is there, which the next Observe goes by, and when the  *)
(* Update that was to re-create the record of adopted addresses ends       *)
(* early: the status lists them from then on.                              *)
Remember(answer, forgets) ==
  CASE answer = "dns failed" /\ forgets -> unheard \cup {cr}
    [] answer = "ok" /\ forgets -> unheard \ {cr}
    [] OTHER -> unheard

CreateListFails ==
  /\ step = "create"
  /\ Fault("http")
  /\ disturbed' = disturbed \cup {cr}
  /\ ToAnnotate
  /\ UNCHANGED <<crVars, cr, ips, doomed, seen, observedAt, synced, unheard,
                 ledger, records, now, others>>

Reserve(answer) ==
  LET p == ForProvider[cr]
      r == ReserveIP(p.networkKey, p.cluster, p.status, p.createDNS, p.lease)
  IN  /\ step = "reserve" /\ need > 0
      /\ Call(r, answer)
      /\ IF Succeeded(r, answer)
           THEN /\ taken' = taken \cup
                     {d \in Digit : ledger'[p.networkKey][d] # ledger[p.networkKey][d]}
                /\ need' = need - 1
                /\ UNCHANGED <<step, todo, disturbed>>
           ELSE ToAnnotate /\ disturbed' = disturbed \cup {cr}
      /\ unheard' = Remember(answer, ips # {})
      /\ UNCHANGED <<crVars, cr, ips, doomed, seen, observedAt, synced>>

(* The status is set.                                                      *)
CreateDone ==
  /\ step = "reserve" /\ need = 0
  /\ ips' = taken
  /\ ToAnnotate
  /\ UNCHANGED <<crVars, cr, doomed, history, apiVars>>

-----------------------------------------------------------------------------
(* Update and Delete make their calls; the first that fails ends them.     *)

Send(answer) ==
  /\ step = "send" /\ todo # <<>>
  /\ Call(Head(todo), answer)
  /\ IF Succeeded(Head(todo), answer)
       THEN todo' = Tail(todo) /\ UNCHANGED <<step, taken, need>> ELSE ToStore
  /\ unheard' = IF ~doomed /\ atProvider[cr] = {} /\ ~Succeeded(Head(todo), answer)
                  THEN unheard \cup {cr} ELSE Remember(answer, Head(todo).kind = "edit")
  /\ disturbed' = IF answer = "ok" THEN disturbed ELSE disturbed \cup {cr}
  /\ UNCHANGED <<crVars, cr, ips, doomed, seen, observedAt, synced>>

Sent ==
  /\ step = "send" /\ todo = <<>>
  /\ synced' = IF doomed THEN synced ELSE Synced(cr, ips, observedAt)
  /\ ToStore
  /\ UNCHANGED <<crVars, cr, ips, doomed, seen, observedAt, unheard, disturbed, apiVars>>

Answers == {"ok", "refused", "error", "dns failed"}

(* A step of the worker after Observe.                                     *)
Work ==
  \/ CreateLists \/ CreateRefused \/ CreateListFails \/ CreateDone
  \/ Annotate \/ AnnotateFails
  \/ \E answer \in Answers : Reserve(answer) \/ Send(answer)
  \/ Sent \/ StoreStatus \/ StoreStatusFails

=============================================================================
