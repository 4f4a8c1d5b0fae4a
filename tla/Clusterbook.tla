---------------------------- MODULE Clusterbook ----------------------------
(***************************************************************************)
(* clusterbook as a whole: replicas whose HTTP and gRPC handlers and lease *)
(* reclaimers change the ledger (IPLedger) through write transactions      *)
(* (LedgerWrite) and then bring the DNS providers in line, while time      *)
(* passes, calls fail and processes crash.                                 *)
(***************************************************************************)
EXTENDS IPLedger

CONSTANTS
  Process, Writer, Home, Source, Nobody,   \* see LedgerWrite
  Requests,     \* the requests that clients may send
  Reclaimer,    \* the writers that run StartReclaimer, the others run handlers
  Providers,    \* the enabled DNS providers, as the sequence they are called in
  Faults,       \* what may go wrong: "load", "save", "dns", "crash"
  Pools,        \* the ledger to start with
  MaxNow,       \* bound: the clock stops here
  MaxLease,     \* the longest lease asked for
  MaxRevision,  \* bound: see LedgerWrite
  NoRecord,     \* a cluster name without a DNS record
  NoRequest     \* what an idle writer works on

VARIABLES ledgerMu, pc, loaded, version, next, reply,
          config, resourceVersion, revision, late,
  now,       \* time.Now().Unix()
  req,       \* the request each writer works on
  work,      \* the DNS calls that it still has to make
  dnsErr,    \* dnsResult.errs is not empty
  records    \* records[p][c]: the address provider p resolves cluster c to

Time == 0..(MaxNow + MaxLease)
Stored(l) == IF Source = "cr" THEN RoundTrip(l) ELSE l

(* What reclaimOnce is called with.                                        *)
Reclaims == [kind : {"reclaim"}, now : 0..MaxNow]

(* A handler and the time.Now() it calls.                                  *)
Change(o, l) == Handle(o.req, o.now, l)

TX == INSTANCE LedgerWrite
  WITH Ledger <- Ledgers(Time), EmptyLedger <- NoNetworks, Edits <- {},
       Op <- [req : Requests \cup Reclaims, now : 0..MaxNow], MaxLate <- 0

ledgerVars == <<ledgerMu, pc, loaded, version, next, reply,
                config, resourceVersion, revision, late>>
vars == <<ledgerVars, now, req, work, dnsErr, records>>

Provider == {Providers[i] : i \in DOMAIN Providers}
Call == [provider : Provider, task : Task]

ASSUME SourceAssumption == Source \in {"disk", "cr"}

ASSUME HomeAssumption == Home \in [Writer -> Process] /\ Nobody \notin Writer

(* A config file is written by one process (ledger.go).                    *)
ASSUME DiskAssumption == Source = "disk" => \A p, q \in Process : p = q

ASSUME BoundAssumption == MaxNow \in Nat /\ MaxLease \in Nat /\ MaxRevision \in Nat

ASSUME RequestAssumption == \A r \in Requests : ValidRequest(r, 0..MaxLease)

ASSUME ProvidersAssumption == Providers \in Seq(Provider)

(* Pools is a ledger that clusterbook itself saved earlier.                *)
ASSUME PoolsAssumption == Pools \in Ledgers(Time) /\ Stored(Pools) = Pools

TypeOK ==
  /\ TX!TypeOK
  /\ now \in 0..MaxNow
  /\ req \in [Writer -> Requests \cup Reclaims \cup {NoRequest}]
  /\ work \in [Writer -> Seq(Call)]
  /\ dnsErr \in [Writer -> BOOLEAN]
  /\ records \in [Provider -> [Cluster -> Address \cup {NoRecord}]]

Init ==
  /\ ledgerMu = [p \in Process |-> Nobody]
  /\ pc = [w \in Writer |-> "idle"]
  /\ loaded = [w \in Writer |-> NoNetworks]
  /\ version = [w \in Writer |-> 0]
  /\ next = [w \in Writer |-> NoNetworks]
  /\ reply = [w \in Writer |-> "ok"]
  /\ config = Pools
  /\ revision = IF Source = "cr" /\ Pools # NoNetworks THEN 1 ELSE 0
  /\ resourceVersion = revision
  /\ late = {}
  /\ now = 0
  /\ req = [w \in Writer |-> NoRequest]
  /\ work = [w \in Writer |-> <<>>]
  /\ dnsErr = [w \in Writer |-> FALSE]
  /\ records = [p \in Provider |-> [c \in Cluster |-> NoRecord]]

-----------------------------------------------------------------------------
Keep == UNCHANGED <<now, req, work, dnsErr, records>>

(* A client's request reaches a handler.                                   *)
Receive(w, r) ==
  /\ w \notin Reclaimer
  /\ TX!Request(w)
  /\ req' = [req EXCEPT ![w] = r]
  /\ UNCHANGED <<now, work, dnsErr, records>>

(* The ticker of StartReclaimer fires; reclaimOnce gets the time of now.   *)
Tick(w) ==
  /\ w \in Reclaimer
  /\ TX!Request(w)
  /\ req' = [req EXCEPT ![w] = [kind |-> "reclaim", now |-> now]]
  /\ UNCHANGED <<now, work, dnsErr, records>>

Begin(w) == TX!BeginLedgerWrite(w) /\ Keep

Load(w) == TX!Load(w) /\ Keep

LoadError(w) == "load" \in Faults /\ TX!LoadError(w) /\ Keep

Asked(w) == [req |-> req[w], now |-> now]

Decide(w) == TX!Decide(w, Asked(w)) /\ Keep

Refuse(w) == TX!Refuse(w, Asked(w)) /\ Keep

SaveError(w) == "save" \in Faults /\ TX!SaveError(w) /\ Keep

SaveGet(w) == TX!SaveGet(w) /\ Keep

SavePutConflict(w) == TX!SavePutConflict(w) /\ Keep

SavePutError(w) == "save" \in Faults /\ TX!SavePutLost(w) /\ Keep

(* dnsResult.create and remove call every enabled provider in turn.        *)
OnEveryProvider(tasks) ==
  [i \in 1..(Len(tasks) * Len(Providers)) |->
     [provider |-> Providers[1 + ((i - 1) % Len(Providers))],
      task |-> tasks[1 + ((i - 1) \div Len(Providers))]]]

(* Save returns nil, and what is to be done in DNS is determined.          *)
Save(w) ==
  /\ TX!SaveYAMLToDisk(w) \/ TX!SavePut(w)
  /\ \E tasks \in DNSWork(req[w], loaded[w], next[w]) :
       work' = [work EXCEPT ![w] = OnEveryProvider(tasks)]
  /\ UNCHANGED <<now, req, dnsErr, records>>

(* One CreateRecord or DeleteRecord.  An empty cluster name has no record. *)
Result(t) == IF t.op = "create" THEN t.addr ELSE NoRecord

Performed(t, recs) ==
  IF t.cluster = NoCluster THEN recs ELSE [recs EXCEPT ![t.cluster] = Result(t)]

DNSCall(w) ==
  /\ pc[w] = "saved"
  /\ work[w] # <<>>
  /\ work' = [work EXCEPT ![w] = Tail(@)]
  /\ records' = [records EXCEPT ![Head(work[w]).provider] = Performed(Head(work[w]).task, @)]
  /\ UNCHANGED <<ledgerVars, now, req, dnsErr>>

(* Mutant: the error is logged and not collected.                          *)
DNSErrorLogged(w) ==
  /\ "dns" \in Faults
  /\ pc[w] = "saved"
  /\ work[w] # <<>>
  /\ work' = [work EXCEPT ![w] = Tail(@)]
  /\ UNCHANGED <<ledgerVars, now, req, dnsErr, records>>

(* The provider answers with an error, before or after it has acted (a     *)
(* lost answer, a router that committed nvram but could not reload).       *)
DNSError(w) ==
  /\ "dns" \in Faults
  /\ pc[w] = "saved"
  /\ work[w] # <<>>
  /\ work' = [work EXCEPT ![w] = Tail(@)]
  /\ dnsErr' = [dnsErr EXCEPT ![w] = TRUE]
  /\ \/ records' = records
     \/ records' = [records EXCEPT ![Head(work[w]).provider] = Performed(Head(work[w]).task, @)]
  /\ UNCHANGED <<ledgerVars, now, req>>

(* All DNS calls are made; the answer says "ok" and how they went.         *)
Answer(w) == work[w] = <<>> /\ TX!UpdateDNS(w) /\ Keep

Drop(ws) ==
  /\ req' = [w \in Writer |-> IF w \in ws THEN NoRequest ELSE req[w]]
  /\ work' = [w \in Writer |-> IF w \in ws THEN <<>> ELSE work[w]]
  /\ dnsErr' = [w \in Writer |-> IF w \in ws THEN FALSE ELSE dnsErr[w]]

End(w) == TX!End(w) /\ Drop({w}) /\ UNCHANGED <<now, records>>

Crash(p) ==
  /\ "crash" \in Faults
  /\ TX!Crash(p)
  /\ Drop({w \in Writer : Home[w] = p})
  /\ UNCHANGED <<now, records>>

Pass ==
  /\ now < MaxNow
  /\ now' = now + 1
  /\ UNCHANGED <<ledgerVars, req, work, dnsErr, records>>

Rest == TX!Rest /\ Keep

(* What a handler or reclaimer does once it has the lock.                  *)
Proceed(w) ==
  \/ Load(w) \/ LoadError(w) \/ Decide(w) \/ Refuse(w)
  \/ SaveError(w) \/ SaveGet(w) \/ SavePutConflict(w) \/ SavePutError(w) \/ Save(w)
  \/ DNSCall(w) \/ DNSError(w) \/ Answer(w) \/ End(w)

Next ==
  \/ \E w \in Writer : Tick(w) \/ Begin(w) \/ Proceed(w)
  \/ \E w \in Writer, r \in Requests : Receive(w, r)
  \/ \E p \in Process : Crash(p)
  \/ Pass
  \/ Rest

Spec == Init /\ [][Next]_vars

(* Calls return, sync.Mutex does not starve a waiter, the ticker keeps     *)
(* firing, and a backend that is asked again and again does not fail for   *)
(* ever.                                                                   *)
Fairness ==
  /\ \A w \in Writer : WF_vars(Proceed(w)) /\ SF_vars(Begin(w))
  /\ \A w \in Reclaimer : WF_vars(Tick(w)) /\ SF_vars(Load(w)) /\ SF_vars(Save(w))

FairSpec == Spec /\ Fairness

-----------------------------------------------------------------------------
(* Properties.                                                             *)

Committing(w) == pc[w] \in {"save", "put"} /\ pc'[w] = "saved"

Kinds == {"reserve", "ReserveIpAddresses"}

(* reserve and ReserveIpAddresses never take an address from anybody       *)
(* ("Unlike assign it never overwrites", handleAPIReserve): every address  *)
(* that a successful save changes was free in the very ledger it replaces, *)
(* however many replicas reserve at the same time, and is now the          *)
(* caller's.  Two callers cannot be given the same address.                *)
ReserveTakesFreeOnly ==
  [][ \A w \in Writer : Committing(w) /\ req[w].kind \in Kinds =>
        \A a \in Address : Entry(config', a[1], a[2]) # Entry(config, a[1], a[2]) =>
          /\ isFree(Entry(config, a[1], a[2]))
          /\ Entry(config', a[1], a[2]).cluster = req[w].cluster ]_vars

(* The reclaimer frees only addresses whose lease has run out in the       *)
(* ledger it replaces: a lease that was renewed, or an address that was    *)
(* assigned anew, after it loaded is out of its reach.                     *)
ReclaimsExpiredOnly ==
  [][ \A w \in Writer : Committing(w) /\ req[w].kind = "reclaim" =>
        \A a \in Address : Entry(config', a[1], a[2]) # Entry(config, a[1], a[2]) =>
          Entry(config, a[1], a[2]).lease \in 1..now ]_vars

(* A holder loses an address only to a request that names it or to an      *)
(* expired lease: no other write, stale replica or conversion takes it.    *)
Names(r, a) ==
  \/ r.kind \in {"delete network", "htmx delete network"} /\ r.key = a[1]
  \/ r.kind \in {"assign", "edit", "delete ip", "release", "renew", "htmx delete ip"}
       /\ r.key = a[1] /\ r.ip.host = a[2]
  \/ r.kind \in {"htmx assign", "htmx edit", "htmx release"}
       /\ r.ip = [net |-> a[1], host |-> a[2]]
  \/ r.kind = "SetClusterInfo" /\ [net |-> a[1], host |-> a[2]] \in r.ips

HolderKeepsAddress ==
  [][ \A a \in Address :
        LET was == Entry(config, a[1], a[2])
            is == Entry(config', a[1], a[2])
        IN  was.cluster # NoCluster /\ is.cluster # was.cluster /\ ~isFree(was) =>
              \E w \in Writer : Committing(w) /\
                (Names(req[w], a) \/ (req[w].kind = "reclaim" /\ was.lease \in 1..now)) ]_vars

(* While one process writes, a record that is created is the one the       *)
(* ledger asks for at that moment: no handler creates one for a ledger it  *)
(* could not save, and no other handler or reclaimer gets in between the   *)
(* save and the DNS calls (ledger.go: "Keep it open across the DNS         *)
(* calls").  It says nothing of a record that is withdrawn: a withdrawal   *)
(* takes whatever record the name has, also that of another address.       *)
DNSFollowsLedger ==
  [][ \A p \in Provider, c \in Cluster :
        records'[p][c] # records[p][c] /\ records'[p][c] # NoRecord =>
          LET e == Entry(config, records'[p][c][1], records'[p][c][2])
          IN  e.cluster = c /\ HadDNS(e) ]_vars

Settled == \A w \in Writer : work[w] = <<>>

(* The record of the holder before the request is not to stay.  (reserve   *)
(* finds the address free, and assign on the dashboard never withdraws.)   *)
Lapses(r, previous) ==
  /\ HadDNS(previous) /\ previous.cluster # NoCluster
  /\ ~(Created(r) /\ r.cluster = previous.cluster)
  /\ r.kind \notin {"reserve", "htmx assign"}

(* The records that the write of address a by w decides: of which cluster, *)
(* and what each is to be.                                                 *)
Target(w, a) ==
  LET previous == Entry(loaded[w], a[1], a[2])
  IN  (IF Created(req[w]) THEN {<<req[w].cluster, a>>} ELSE {})
      \cup (IF Lapses(req[w], previous) THEN {<<previous.cluster, NoRecord>>} ELSE {})

(* README: dns "ok" means "The record was written or withdrawn on every    *)
(* enabled provider": the new one, and that of another cluster which had   *)
(* the address before.  (After a crash there is no answer and no verdict.) *)
DNSVerdictTrue ==
  \A w \in Writer :
    pc[w] = "replied" /\ reply[w] = "ok" /\ ~dnsErr[w] /\ req[w].kind \in DNSKinds =>
      \A a \in Written(req[w], loaded[w], next[w]) : \A t \in Target(w, a) :
        \A p \in Provider : records[p][t[1]] = t[2]

(* A record points at an address that is its cluster's and marked as       *)
(* having a record: none is left behind when an address is released,       *)
(* reclaimed, edited or changes hands.                                     *)
NoOrphanRecord ==
  Settled =>
    \A p \in Provider, c \in Cluster : records[p][c] # NoRecord =>
      LET e == Entry(config, records[p][c][1], records[p][c][2])
      IN  e.cluster = c /\ HadDNS(e)

(* A ":DNS" status has a record ("A \":DNS\" status without a record would *)
(* claim something untrue", main.go).                                      *)
DNSStatusHasRecord ==
  Settled =>
    \A a \in Address :
      LET e == Entry(config, a[1], a[2])
      IN  HadDNS(e) => \A p \in Provider : records[p][e.cluster] # NoRecord

(* An address that becomes free keeps no lease, which its next holder      *)
(* would inherit, except by a release on the dashboard, which leaves       *)
(* LeaseExpiresAt alone, and a SetClusterInfo that clears the status.      *)
LeaseEndsWithAssignment ==
  [][ \A w \in Writer :
        Committing(w) /\ req[w].kind \notin {"htmx release", "SetClusterInfo"} =>
          \A a \in Address :
            ~isFree(Entry(config, a[1], a[2])) /\ isFree(Entry(config', a[1], a[2])) =>
              Entry(config', a[1], a[2]).lease = 0 ]_vars

(* What the proofs of these need.  A writer that is not idle works on a    *)
(* request or on a tick of the past; what it is about to save is what its  *)
(* handler made of what it loaded; and reading the stored ledger again     *)
(* changes nothing.                                                        *)
Asking == \A w \in Writer : pc[w] # "idle" => req[w] \in Requests \cup [kind : {"reclaim"}, now : 0..now]

Decided ==
  \A w \in Writer : pc[w] \in {"save", "put"} =>
    \E t \in 0..now : next[w] \in Handle(req[w], t, loaded[w])

InductiveInv ==
  TypeOK /\ TX!InductiveInv /\ Asking /\ Decided /\ Stored(config) = config

OneProcess == \A p, q \in Process : p = q

(* While one process writes, the calls that are left to a writer after its *)
(* save create the records that the stored ledger asks for.                *)
CallsAreDue ==
  \A w \in Writer :
    /\ work[w] # <<>> => pc[w] = "saved"
    /\ \A i \in DOMAIN work[w] : work[w][i].task.op = "create" =>
         LET t == work[w][i].task
             e == Entry(config, t.addr[1], t.addr[2])
         IN  e.cluster = t.cluster /\ HadDNS(e)

(* A call that w still has to make decides the record of c at p.           *)
Pending(w, p, c) ==
  \E i \in DOMAIN work[w] : work[w][i].provider = p /\ work[w][i].task.cluster = c

(* The record of c is v on every provider, or a call will make it so, and  *)
(* no call makes it otherwise.                                             *)
OnItsWay(w, c, v) ==
  /\ c \in Cluster
  /\ \A p \in Provider : records[p][c] = v \/ Pending(w, p, c)
  /\ \A i \in DOMAIN work[w] : work[w][i].task.cluster = c => Result(work[w][i].task) = v

(* From the save to the answer, unless a provider failed.                  *)
VerdictInTheMaking ==
  \A w \in Writer :
    /\ pc[w] = "saved" \/ (pc[w] = "replied" /\ reply[w] = "ok")
    /\ ~dnsErr[w] /\ req[w].kind \in DNSKinds
    => \A a \in Written(req[w], loaded[w], next[w]) : \A t \in Target(w, a) :
         OnItsWay(w, t[1], t[2])

(* What leaves records behind in this code: a provider that fails, a crash *)
(* between the save and the calls, and the handlers that free or change an *)
(* address without looking at its record.                                  *)
Withdrawing ==
  /\ Faults \cap {"dns", "crash"} = {}
  /\ \A r \in Requests :
       r.kind \notin {"delete network", "htmx delete network", "htmx assign", "SetClusterInfo"}

(* Otherwise a record that the ledger no longer asks for is about to be    *)
(* withdrawn or replaced.                                                  *)
RecordsAreDue ==
  \A p \in Provider, c \in Cluster : records[p][c] # NoRecord =>
    \/ LET e == Entry(config, records[p][c][1], records[p][c][2])
       IN  e.cluster = c /\ HadDNS(e)
    \/ \E w \in Writer : Pending(w, p, c)

(* Expired leases are reclaimed in the background.                         *)
Expired(a) == Entry(config, a[1], a[2]).lease \in 1..now

ExpiredIsReclaimed == \A a \in Address : Expired(a) ~> ~Expired(a)

=============================================================================
