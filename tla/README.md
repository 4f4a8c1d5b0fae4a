# A TLA+ model of clusterbook

clusterbook keeps a *ledger*: for every network (`10.31.103`) a pool of host
parts, each free or held by a cluster, with a status and perhaps a lease. The
ledger is a YAML file or a `NetworkConfig` custom resource (CR). HTTP and gRPC
handlers and a background reclaimer load the whole ledger, change it and save
it again, and then create or remove DNS records in PowerDNS and on a DD-WRT
router. These modules model that, TLC checks them on small instances, and TLAPS
proves most of the safety properties for every instance. `PROJECT.json` holds the
correspondence of every definition with the lines it models, the runs, mutants,
hazards, findings and theorems.

## 1. Inventory

| Part | State | Operations | What makes it correct |
|---|---|---|---|
| Ledger write (`internal/ledger.go`, `load.go`, `save.go`) | `ledgerMu`, the version a `Load` saw; the file, or the CR with its `resourceVersion` | `BeginLedgerWrite`, `Load`, `Save`, `End` | one writer per process; no update is lost, across replicas either; every write ends |
| Handlers (`internal/web.go`, `main.go`, `generate.go`) | none of their own | assign, reserve, release, renew, edit, create, add, delete, on REST and dashboard; `SetClusterInfo`, `ReserveIpAddresses` on gRPC | reserve takes free addresses only; a holder loses its address only to somebody who names it |
| Reclaimer (`internal/reclaimer.go`) | the ticker | `reclaimOnce` | frees expired leases only, and all of them in the end |
| DNS outcome, PowerDNS (`web.go`, `pdns.go`) | the records in the zone | `CreateRecord`, `DeleteRecord` through `dnsResult` | records follow the ledger; the answer's `dns` field is true |
| DD-WRT (`internal/ddwrt.go`) | `dnsmasq_options` in nvram and flash, the running dnsmasq | the same two, as a sequence of SSH commands | a nil result has taken hold; other lines are kept |
| CR format (`internal/transform.go`) | none | `ConvertToCRFormat`, `ConvertFromCRFormat` | what was saved is loaded |
| CIDR expansion (`internal/cidr.go`) | none | `CIDRToNetworks`, `CIDRToIPList` | exactly the usable addresses, in order; it terminates |
| Provider: IPAssignment controller (`provider/internal/controller/ipassignment`) | `status.atProvider.ipAddresses` and the finalizer of its objects; within a reconcile the object in memory | `Observe`, `Create`, `Update`, `Delete`, each of several HTTP calls | a cluster gets what it asks for and keeps it, no address is doubled, stolen or left behind |
| Provider: Network controller (`provider/internal/controller/network`) | the finalizer | the same four | the pool is filled and no entry is touched |
| Provider: HTTP client (`provider/internal/client`) | none | one per REST call | a failure, the `dns` verdict included, is an error |
| Pages, portal prefix, version, proto, manifests | none | | |

**Interaction.** A request is a goroutine: it takes the process's lock, loads,
decides, saves, makes its DNS calls, answers and, deferred, unlocks. The
reclaimer is one more such goroutine, and the time it works with is read before
it waits for the lock. Replicas share the CR (optimistic concurrency on
`resourceVersion`) and the DNS providers (no concurrency control). kubectl
writes to the CR as well. The Crossplane provider is an HTTP client of the REST
API with one worker per controller; the reconciler of crossplane-runtime calls
it again and again and keeps its status in the Kubernetes API.

**What is hard here.** Two writers of one process or of two replicas; a write
whose answer is lost and that the apiserver performs later; a CR that is deleted
and created again; a crash between save and DNS; a renewal racing the reclaimer;
a provider that fails after acting; a router write that breaks off half way; a
reconcile that is a sequence of calls on a ledger that others change between any
two, and that may stop after each of them with or without its status recorded;
handlers that differ in detail (dashboard and REST, gRPC and HTTP) composed over
a long sequence of requests. The list with lines is under `hazards` in
`PROJECT.json`.

## 2. Modules

```
AtomicLedger  <-- implemented by --  LedgerWrite
                                          ^ INSTANCE
IPLedger (pure) <------ EXTENDS ----- Clusterbook
    ^ EXTENDS
    |-- CRFormat            CIDR               DDWRT
    |-- ClusterbookAPI <-- EXTENDS -- IPAssignment, NetworkPool <-- EXTENDS -- Provider
```

Each has an `MC...` module with the definitions its configurations use. The
proofs are in modules of their own, each extending the module it is about:

```
LedgerWriteProofs     IPLedgerProofs <-- ClusterbookProofs
                            ^-- CRFormatProofs                       CIDRProofs
                            ^-- ProviderProofs <-- ProviderClaimsProofs      DDWRTProofs
```

### LedgerWrite and AtomicLedger

`LedgerWrite` is the transaction. `Writer` are goroutines, `Home` says which
process each belongs to, `Source` is `LOAD_CONFIG_FROM`. What a handler does to
the ledger is the parameter `Change(op, ledger)`, the set of ledgers it may save
(empty: it returns without saving); `Stored` is what a `Load` gives back of a
saved ledger. Its actions are the calls in their order:

| Action | Code |
|---|---|
| `BeginLedgerWrite`, `Load`, `LoadError`, `End` | `ledger.go`, `load.go`: a CR that does not exist loads as the empty ledger at version `""` (`NoVersion`, 0) |
| `Decide`, `Refuse` | the body of a handler between `Load` and `Save`, and its returns without a save |
| `SaveYAMLToDisk`, `SaveError` | temporary file and rename: the rename is the commit, an earlier failure leaves the file intact |
| `SaveGet` | the `Get` of `CreateOrUpdateNetworkConfig` and its comparison with the loaded version |
| `SavePut`, `SavePutConflict`, `SavePutLost` | `Create` or `Update`; 409 and AlreadyExists are a conflict, NotFound on `Update` is an error; the connection may break with the request on its way |
| `UpdateDNS` | the DNS calls after the save, with the lock still held |
| `Crash`, `LateApply`, `LateDrop` | the process dies; a write nobody waits for is performed later or never |
| `KubectlEdit`, `KubectlDelete` | somebody changes the CR by hand |

`reply` is how the call ended: `ok`, `refused` (4xx, or nothing to reclaim),
`conflict` (409, `ErrLedgerConflict`) or `error`.

`AtomicLedger` is the promise to callers: a change takes effect in one step on
the ledger as it is at that moment; `ok` means it did, once; `refused` and
`conflict` mean it never does, so retrying is safe; after `error` or a crash it
may still take effect once. The refinement mapping takes `config` for the ledger
and `callBar` for the state of the calls; the change takes effect at the rename,
or when the apiserver performs the conditional write.

### IPLedger, Clusterbook

`IPLedger` has one operator per handler: for a request and a loaded ledger, the
set of ledgers it may save, several where the code picks at random or in map
order. `DNSWork` is the list of DNS calls that follow the save. `RoundTrip` is
what the CR conversion makes of a ledger. Statuses are `""`, `ASSIGNED`,
`PENDING` and the `:DNS` forms; an address in a request is full, a host part, or
malformed.

`Clusterbook` composes it with `LedgerWrite` (as `INSTANCE`, `Op` being a
request and the time of its `time.Now()`) and adds the clock, the requests the
writers work on, the DNS calls still to be made and the records of each
provider. `Receive` and `Tick` start a write; `Save` is a successful save
together with the decision what to do in DNS; `DNSCall` and `DNSError` are one
call to one provider each, `DNSError` before or after the provider has acted;
`Answer` is the reply with the `dns` field.

Abstractions: a request that is rejected before the lock is taken (body not
JSON, cluster missing) is rejected by `Refuse` under the lock; it changes
nothing either way. The requests of an instance are well-formed
JSON. Handlers that only read (lists, pages, `GetIpAddressRange`, `TestDNS`) are
left out: they change nothing and no write depends on them. Late writes and
kubectl are switched off in `Clusterbook` (`MaxLate` 0, no edits): they are the
business of `LedgerWrite`, where they are proved harmless, so a failed `Update`
is here one that was not performed. A panic of a dashboard handler on a network
that is not configured is recovered by net/http and is a refusal.

### CRFormat, CIDR, DDWRT

`CRFormat` has the two conversions on strings that are sequences of the parts
between colons; one step is a save and a load. A part is text or `exp=N`; a
cluster that is itself called `exp=N` is left out.

`CIDR` is the loop of `CIDRToNetworks` one iteration per step, on unsigned
integers of `Width` bits that wrap, and the exchange sort of `sortedKeys`,
started from any order the map iteration may give.

`DDWRT` is a router with `dnsmasq_options` in memory, in flash and in the
running dnsmasq, and processes that send `nvram get`, `set`, `commit` and the
three reload commands one after the other. A command may fail before or after it
took effect, of `stopservice && startservice` the second half alone, and the
router may reboot. Lines of the router's owner are opaque; none contains
`/fqdn/` of a cluster, which the code would take for its own. `LinesAt` is the
loop that keeps some lines of a list in their order, written by place and rank
and not with `SelectSeq`, of which the provers know nothing.

### ClusterbookAPI, IPAssignment, NetworkPool, Provider

The Crossplane provider, on top of the handlers of `IPLedger`. In
`ClusterbookAPI` a call of the HTTP client is one atomic change of the ledger,
which is what `AtomicLedger` promises and `LedgerWrite` is proved to keep,
together with its DNS calls. `Call(r, answer)` is the call and what the client
hears of it: `ok`, `refused` (a 4xx), `error` (no answer, or a 5xx or 409 of the
ledger, and the change may have been made or not) and `dns failed` (a 200 whose
body says so, after any part of the DNS work). `Succeeded` is what the client
makes of that: `postJSONResult` turns `dns failed` into an error, `EditIP` does
not look. `OtherClient`, `Reclaim` and `Pass` are the rest of the world.

`IPAssignment` is one worker. `Reconcile(a)` is the read of the object with
`Observe` (a single GET), split by what the reconciler does next:

| Action | Code |
|---|---|
| `ObserveAbsent`, then `CreateLists` or `CreateRefused`, `Reserve` per missing address, `CreateDone` | `ResourceExists` false, and `Create` |
| `Annotate`, `AnnotateFails` | the annotations that the reconciler writes after `Create` |
| `Unblock` | a person removes the annotation of an object that is refused |
| `ObserveOutdated`, then `Send` per call and `Sent` | `ResourceUpToDate` false, and `Update`: `EditIP` and `RenewLease` for each address |
| `ObserveForDeletion`, then `Send` and `Sent` | `Delete`: `ReleaseIP` for each address |
| `ObserveUpToDate`, `ObserveGone` | nothing to do; the finalizer is removed |
| `ObserveFails`, `CreateListFails`, a `Reserve` or `Send` that does not succeed | the error returns |
| `StoreStatus`, `StoreStatusFails` | the reconciler's `Status().Update` at the end of every branch, which conflicts if the object was deleted meanwhile |
| `WorkerCrash`, `DeleteAssignment` | the process dies; the user deletes the object |

The reconciler is crossplane-runtime, which is not in the repository, and is
modelled from how the controllers use it. Two of its habits matter. The objects
have a status subresource, so an `Update` of the object, as for the finalizer and
after `Create` for the annotations, reads the stored status back over the one in
memory: `AddFinalizer` models the first, and `Annotated` allows both outcomes
for the second. And it notes on the object that a `Create` begins (`pending`),
and after it how it ended. Neither controller tells it that the external name is
deterministic (`ipassignment.go:39`, `network.go:34`), so the version in
`provider/go.mod` refuses an object whose `Create` has no known end, because the
process died in it or the second note could not be written: no reconcile of it
goes as far as `Observe`, also when it is deleted, until a person removes the
annotation (`Refused`, `Unblock`; `NetRefused`, `NetUnblock`). The addresses of
such an object stay reserved, its leases run out and its finalizer stays.
Objects are read as they are stored; the lag of a cache is not modelled.
The order of addresses in a status is left open.

`NetworkPool` is the second worker; in `Update` the list and the call that adds
are two steps, and so are `Create` and the annotations after it (`NetAnnotate`,
`NetAnnotateFails`). With `cidr`, `Create` makes all pools of the block at once.
`Provider` puts the two side by side and states the properties. The history
variables `seen`, `observedAt`, `synced`, `unheard` and `disturbed` record what an
`Observe` saw and when, when the last reconcile was that left the lease of each
address in order, DNS failures that nothing remembers, and assignments that met a fault or lost an address; no guard
reads them.

## 3. Runs

| Run | Checks | Instance and why it is enough |
|---|---|---|
| `ledger_disk` | `TypeOK`, `MutualExclusion`, `NoLostUpdate`, `EveryWriteEnds` | three goroutines of one process: one in the lock and two waiting; two addresses, crashes, errors |
| `ledger_cr` | `SafeToCommit`, `NoLostUpdate`, `ImplementsAtomicLedger`, `EveryWriteEnds` | two replicas, one write late, crashes, kubectl that edits, deletes and recreates (`MaxRevision` 2 bounds new requests, not the writes under way); a client that gives no cluster, whose entry the CR does not keep; larger instances are left to the proofs |
| `rest_dns` | `NoOrphanRecord`, `DNSVerdictTrue`, `DNSFollowsLedger`, `ExpiredIsReclaimed` | a handler and the reclaimer, two addresses (one of them edited and deleted too), two clusters, so that an address changes hands and the old holder's record has to go, PowerDNS, leases, failing loads and saves |
| `replicas` | `ReserveTakesFreeOnly`, `ReclaimsExpiredOnly`, `HolderKeepsAddress` | two replicas and a reclaimer on one CR; clusters and host parts symmetric |
| `all_handlers` | `TypeOK`, `DNSVerdictTrue`, `HolderKeepsAddress`, `LeaseEndsWithAssignment` | every handler of the REST, gRPC and dashboard APIs, two networks of which one exists at the start, both DNS providers, failing before or after acting, and crashes; one cluster and no reclaimer, since with two the instance is out of reach: what changes hands meets DNS in `rest_dns`, and all four are proved for any number of clusters and goroutines |
| `cr_format` | `LeaseSurvives`, `ConversionIsStable`, `ConversionIsRoundTrip` | all ledgers of two addresses with statuses of up to three parts and clusters of up to two; entries are converted independently |
| `cidr_blocks` | `PoolsAreUsable`, `IPListIsSorted`, `TerminatesButForAll` | all blocks of 6-bit addresses of three octets, so that blocks lie within a network, are one, and span several, one touches the end of the space and one is all of it |
| `ddwrt_writes` | `WriteTakesHold`, `OthersKept`, `ForeignLinesKept`, `OneLinePerHost` | two replicas, three calls, one reboot, two clusters and two addresses: what an aborted or racing call leaves behind, the next one meets |
| `provider` | `TypeOK`, `GoneLeavesNothing`, `TakesOnlyWhatItSaw`, `LeaseOutlivesHalf`, `RetriesDNS`, `NetworkKeepsEntries` | an assignment of two addresses with DNS and a lease of 2, a Network object for two addresses of which one is there, two faults (call, DNS, status or crash), so that one can hit what should repair the other, two addresses taken by another cluster at any moment, and the clock up to 2, so that a lease can be renewed at half time or run out |
| `provider_live` | `NeverMoreThanAsked`, `DeletionEnds`, `KeepsItsAddresses`, `ReadyAtLast`, `PoolIsFilled` | the same for three addresses (so that there is one more to take than is asked for), with one fault and from an empty clusterbook, where others may also release or delete an address, without DNS and with a lease of 1, so that it can run out while the fault and the other client are still to come; a crash in `Create` leaves the object refused |

`DNSVerdictTrue` speaks of the record that a request writes and of the one that a
change of hands removes, wherever there is an answer. After a crash between save
and DNS calls there is none, and the missing record is nobody's claim (a hazard
without a property). `DNSFollowsLedger` speaks of the records that are created: a
withdrawal takes whatever record the cluster's name has (`shared_name`).

`NoOrphanRecord` is checked for the REST requests that promise it: assign,
reserve, release, edit, delete of an address, and reclaiming. Deleting a network
and assigning on the dashboard leave records behind; no document says what
should happen to them (see the hazards).

What the provider's properties leave open, the code leaves open as well.
`DeletionEnds`, `KeepsItsAddresses`, `ReadyAtLast` and `PoolIsFilled` exempt the
objects that the reconciler refuses, for as long as it does: nothing in the code
goes on with them. Crashes outside `Create`, lost calls and answers and statuses
that are not written are not exempt. `PoolIsFilled` is checked where nobody adds
addresses to the pool: `Observe` counts them.
`TakesOnlyWhatItSaw`: `edit` and `release` do not say whose address they mean, so
within one reconcile `Update` and `Delete` can hit an address that changed hands
after `Observe`; what was lost earlier is never touched. `GoneLeavesNothing`:
after a partial `Create` or `Delete`, or the loss of one address, `Observe` says
that the resource does not exist, the finalizer goes, and the other addresses
stay reserved. `KeepsItsAddresses`: `Observe` never compares a non-empty status
with `countIPs`; TLC found the cluster that stays with one of two addresses, when
somebody releases the first between the two reserves of a `Create` and the second
reserve is given it again. `RetriesDNS`: the verdict that `EditIP` receives is
dropped, a `Create` that fails on DNS over an older status that fits again is
not retried, and neither is the record of an adoption whose `Update` fails (the
run `provider_dns_lost`), although `checkDNSOutcome` says "so the reconcile
retries instead of settling on a resource whose DNS record never landed". It is
checked with clients that take addresses and never release one: the record of a
cluster is withdrawn with any of its addresses (the run `shared_name`), and
`Observe`, which reads statuses, cannot tell.
`NeverMoreThanAsked` needs
that only the provider reserves for the cluster, and that a call acts before its
caller goes on, which is how `Call` is defined, although a handler that waits for
the ledger does not notice that its client is gone; a reserve that is performed after the provider has crashed and
listed the pool again makes one too many. `LeaseOutlivesHalf` counts, for each
address, from the last reconcile that looked at its lease; adoption does not look.
It cannot count from the last reconcile of the assignment: with a status that lists
fewer addresses than the cluster holds, `Observe` keeps finding the listed ones in
order while the lease of another runs down, and a later `Create` puts that one into
the status.

`DNSFollowsLedger` is checked with one process, and `WriteTakesHold` and
`OthersKept` speak of calls that no other replica's call overlaps (the history
variable `alone`): replicas have no common lock around their DNS calls, and the
code says so.

Bounds: `MaxRevision` (no new request or edit once so many revisions exist; the
writes under way go on), `MaxLate` (unanswered writes on their way), `MaxNow`
and `MaxLease` (clock and lease durations), `MaxKeys` and `MaxPool` (CIDR; a
pool has fewer entries than `MaxPool` unless the loop goes round again),
`MaxCalls` and `MaxReboots` (DD-WRT), `MaxFaults` and `MaxOthers` (faults and
requests of others in the provider's runs; the provider itself is not bounded and
reconciles for ever). With the ledger in a file there is no
counter and the runs go on for ever.

### Runs that find a disagreement

| Run | What TLC shows |
|---|---|
| `shared_name` | A record belongs to a cluster name. With two `:DNS` addresses of one cluster, releasing one removes the record, and the other keeps a `:DNS` status without a record, which `main.go` calls claiming something untrue. |
| `provider_dns_lost` | A `Create` reserves and fails on DNS; `Observe` adopts the address and leaves the record to `Update`, "instead of settling on one that may never have landed"; one call of that `Update` fails, the status is written back all the same, and the next `Observe` finds the stored `:DNS` status and settles without a record. |

More were met while modelling and have no run of their own. A release on the
dashboard keeps the lease, which the next holder on the dashboard inherits and
loses the address by (the exception of `LeaseEndsWithAssignment`). For `/0` the
loop of `CIDRToNetworks` never ends, with the ledger locked
(`TerminatesButForAll`). The provider's are described above.
`SetClusterInfo` stores a `:DNS` status, as the model's operator does, although
the README says that gRPC rejects it (only `ReserveIpAddresses` does). And when
`stopservice` succeeds and `startservice` fails, `ReloadFails` leaves dnsmasq
stopped, while the error says that it is still serving.

## 4. Fairness

- *Calls return* (`WF` of `Proceed`). Kubernetes and file calls do. The
  PowerDNS client has no timeout and neither has an SSH command once it is
  connected: a provider that accepts and never answers breaks this assumption,
  and the ledger stays locked (listed as a hazard).
- *The lock is not withheld for ever* (`SF` of `BeginLedgerWrite`). A
  `sync.Mutex` goes into starvation mode after a waiter has waited for a
  millisecond and hands the lock to it.
- *The ticker fires* (`WF` of `Tick`).
- For `ExpiredIsReclaimed` only: *a backend asked again and again does not fail
  for ever* (`SF` of the reclaimer's `Load` and `Save`). A cycle that fails is
  not retried before the next tick.
- The CIDR loop is sequential code and takes its next step.
- The provider: *its calls return* (`WF` of `Work` and `NetWork`; its HTTP client
  has no timeout, see the hazards), *every object is reconciled again and again*
  (`SF` of `Reconcile(a)` and `NetReconcile(m)`: the work queue is first in, first
  out, and the reconciler requeues after success as after an error; an object that
  it refuses after a `Create` of unknown end it does not requeue, and there these
  actions are not enabled), and *the reclaimer runs*. Faults, crashes, other
  clients and the user have none, and nobody has to remove an annotation
  (`Unblock`, `NetUnblock`).

Crashes, lost answers, late writes, kubectl and failing commands have no
fairness. With the lock and the file or CR alone, `EveryWriteEnds` does not need
crashes to stop: a crash ends the writes of its process.

## 5. Proofs

All theorems hold for every value of the constants under the named assumptions
of the modules, which TLC evaluates on the instances; where a theorem needs more,
it says so in an `ASSUME ... PROVE`. A theorem with a property next to it states
what a run checks on its instance.

| Module | Theorem | Property | Hypothesis |
|---|---|---|---|
| `LedgerWriteProofs` | `TypeCorrect` | `TypeOK` | |
| | `MutexCorrect` | `MutualExclusion` | |
| | `CommitCorrect` | `SafeToCommit` | |
| | `NoUpdateLost` | `NoLostUpdate` | |
| | `Refinement` | `ImplementsAtomicLedger` | |
| `IPLedgerProofs` | `HandleEffect` | what each handler may change | |
| `ClusterbookProofs` | `TypeCorrect` | `TypeOK` | |
| | `EveryStepIsTransaction` | every step is one of `LedgerWrite` | |
| | `ReservesFreeOnly` | `ReserveTakesFreeOnly` | |
| | `ReclaimsOnlyExpired` | `ReclaimsExpiredOnly` | |
| | `HoldersKeepTheirs` | `HolderKeepsAddress` | |
| | `LeaseGoesWithHolder` | `LeaseEndsWithAssignment` | |
| | `ServesAtomicLedger` | implements `AtomicLedger` | |
| | `RecordsFollowLedger` | `DNSFollowsLedger` | `OneProcess` |
| | `VerdictIsTrue` | `DNSVerdictTrue` | `OneProcess` |
| | `NoRecordLeftBehind` | `NoOrphanRecord` | `OneProcess`, `Withdrawing` |
| `CRFormatProofs` | `LeasesSurvive` | `LeaseSurvives` | |
| | `RewritesAreHarmless` | `ConversionIsStable` | |
| | `StoresRoundTrip` | `ConversionIsRoundTrip` | |
| `DDWRTProofs` | `SuccessTakesHold` | `WriteTakesHold` | |
| | `ForeignStays` | `ForeignLinesKept` | |
| | `NoSecondLine` | `OneLinePerHost` | |
| | `OnlyOwnRecord` | `OthersKept` | |
| `CIDRProofs` | `PoolsAlwaysUsable` | `PoolsAreUsable` | |
| | `IPListAlwaysSorted` | `IPListIsSorted` | |
| | `AllAddressesNeverReturns` | the loop over all addresses never ends | |
| `ProviderProofs` | `TypeCorrect` | `TypeOK` | |
| | `EntriesAreKept` | `NetworkKeepsEntries` | |
| `ProviderClaimsProofs` | `CountIsKept` | `NeverMoreThanAsked` | `OnlyProviderClaims` |
| | `OnlyWhatItSaw` | `TakesOnlyWhatItSaw` | `OnlyProviderClaims` |
| | `NothingIsLeft` | `GoneLeavesNothing` | `OnlyProviderClaims` |
| | `LeasesOutliveHalf` | `LeaseOutlivesHalf` | `OnlyProviderClaims`, `OnlyProviderLeases` |

Every invariant of every run is stated by one of them. The theorems about a
specification rest on its `Invariance` (and `ClaimsInvariance` for the last four):
the inductive invariant, proved action by action; the theorems on records add
parts of their own.

**LedgerWrite.** `InductiveInv` is the conjunction of

- `TypeOK`;
- `MutualExclusion`, which in disk mode is what keeps the file from changing
  between `Load` and `Save`;
- `VersionsOfMode`: no version is from the future, so that a revision given to a
  write is one that nobody has loaded; without a CR the ledger is empty; a file
  has no versions and no late writes;
- `SafeToCommit`: whatever would still pass the version check was computed from
  the ledger it is about to replace. It has to speak of late writes and of
  version `""` too. Revisions are never used twice, but "there is no CR" can
  come back, so what was loaded then must have been the empty ledger.

`NoLostUpdate` alone is not inductive: it says nothing about a writer that has
loaded and not yet saved. The step of `SafeToCommit` goes action by action; in
disk mode the writer that saves holds the lock, hence no other has loaded; in cr
mode a successful write gets a fresh revision, which makes every other loaded
version unequal to the current one. The refinement uses the same invariant before
and after a step: `SavePut` and `SaveYAMLToDisk` are `Commit`, `LateApply` is
`TakeLateEffect`, the `Get`, the load and the decision are stuttering steps.

Assumptions: `SourceAssumption` (disk or cr), `HomeAssumption` (every goroutine
has a process), `DiskAssumption` (a file has one process, as `ledger.go`
demands), `LedgerAssumption` (handlers and kubectl make ledgers of ledgers),
`DiskStoresAll` (a YAML file gives back what was saved), `BoundAssumption`.

**IPLedger.** `HandleEffect` says, for each kind of request and any ledger, that
what the handler saves is a ledger, and which entries it may differ in, and how:
reserve in free ones that become the caller's, the reclaimer in expired ones,
create and add in none that is there, the others in those they name. There is one
lemma per group of handlers.

**Clusterbook.** `InductiveInv` is `TypeOK`, the inductive invariant of
`LedgerWrite` for these requests, `Asking` (a writer that is not idle works on a
request, or on a tick of the past), `Decided` (what is about to be saved is what
the handler made of what was loaded, at some time not later than now), and that
the stored ledger does not change when it is stored and loaded again. Every step
is a step of the transaction, so the last state that a successful save saw is the
one it replaces; with `Decided`, its effect on that one is what `HandleEffect`
says. The four action properties follow, for any number of replicas, goroutines,
networks and addresses, with crashes and conflicts. `ServesAtomicLedger` is the
refinement of the whole: what `LedgerWrite` maps to the abstract ledger and calls,
`Clusterbook` has in the same variables, a step of it is a step of the transaction
or concerns only clocks, requests and DNS, and so every behaviour of the service is
one of `AtomicLedger`, with its pools as the first ledger and its requests as the
operations.

The records are about the time between save and answer. `CallsAreDue`: a call
that is left to a writer creates the record that the stored ledger asks for;
`VerdictInTheMaking`: every record that the answer will speak of, the one written
and the one withdrawn, is as it should be, or one of the calls left makes it so and
none makes it otherwise; `RecordsAreDue`: a
record that the ledger does not ask for has a call coming. They need `OneProcess`
(`\A p, q \in Process : p = q`): replicas hold no common lock around their DNS
calls, and the code says so. `NoRecordLeftBehind` needs `Withdrawing` as well: no
provider fails and no process dies between save and calls, and the four handlers
that never withdraw a record (deleting a network on REST or the dashboard,
assigning on the dashboard, `SetClusterInfo`) are not used. Each of these does
leave a record behind; they are among the hazards. The instance of `rest_dns`
satisfies both hypotheses, that of `all_handlers` the first.

**CRFormat.** One entry is a line with the parts of its strings and its lease;
`StoredFacts` computes what it comes back as, by the number of parts, and
`ConvertFacts` that no line is taken for that of another host part. The invariant
says that after the first load every entry is `Settled`, of a form that the
format keeps. `StoresRoundTrip` justifies `RoundTrip`, which `Clusterbook` uses
for `Stored` in cr mode. `FormatAssumption`: no part of a status or a cluster name
reads `exp=N`, and what is there is told apart from what is not.

**DDWRT.** `InductiveInv` is `TypeOK`; `ProperOptions`: nvram, flash and whatever
a process is about to write keep the owner's lines in their order and have one
line per cluster at most, which holds through races because every list that is
ever written was made by one `mergeDNSEntry` or `removeDNSEntry` from a proper
one; and `Progress` of a call that nobody races with: what it is about to write is
made from what is in nvram, after the `set` nvram has the record, after the
`commit` so has flash, after the reload so has dnsmasq. The lemmas before it are
about places in lists: a list of kept lines is an increasing selection
(`AtFacts`), a selection of a selection is one of the first list
(`LinesOfLines`), and with one line per cluster a lookup finds that line.
`RouterAssumption`: the lines that are there at first are no records of a cluster.

**CIDR.** The width of an address and of an octet is a parameter, so everything
about `2^n` has to come from somewhere. `PowerCounts` takes `2^n` as the number of
subsets of `1..n`, which the library knows of; that it is positive, doubles and
turns sums into products (`PowerSum`) follows by counting pairs of sets. Where an
induction over data is needed, it goes by the least counterexample
(`LeastElement`, from the well-foundedness of `<`). Division and remainder then
split an address into its octets and a block into its first and last address.
The invariant of the loop, `LoopInv`, is that `current` is in the block or one past
it, that each pool so far holds exactly the usable addresses below `current` of its
network, in order, and that nothing else has a pool; for all addresses `current`
wraps and the bound is never passed. `SortInv` says of `CIDRToIPList` that the keys
are those of the pools, without repetition, and that the part the two loops are
done with is in order, and `FlattenIs` that the concatenation (a recursive function in the library, shown to exist) puts their
addresses after each other. `WidthAssumption` is all that is assumed.

**Provider.** `TypeCorrect` and `EntriesAreKept` need nothing but the invariant
that the calls an `Update` or `Delete` has left are for addresses in its hands;
`EntriesAreKept` follows from the lemma on create and add.
The others need `OnlyProviderClaims`: no two assignments have the same cluster
and network, no other client claims an address for a cluster of an assignment,
and no pool starts with one. Two owners of a name are indistinguishable to the
code, which looks for addresses by cluster name. TLC evaluates the hypothesis as
an `ASSUME` of `MCProvider` on all its runs. `ClaimsInv` then is the conjunction of

- `OwnedIn`: an entry with the name of such a cluster is not free, so `Create`
  cannot take what is its own already;
- `WithinCount`: what a cluster holds, what an `Update` may still take back for
  it and what a `Create` is still to reserve stay within `countIPs` together. The
  property alone is not inductive: an address that was lost to somebody else
  during an `Update` comes back with the next `EditIP`;
- `GoesByWhatItSaw`: what `Update` and `Delete` work on is part of what their
  `Observe` saw, and of no other assignment of the network;
- `Undisturbed`: an assignment that met no fault holds all or nothing whenever
  nobody works on it, its status lists what it holds, and within `Create` and
  `Delete` the worker knows what is missing or left.

`LeasesOutliveHalf` needs `OnlyProviderLeases` as well: in the network of a leased
assignment no other client asks for a lease or renews one. Without it the property
is false, since `edit` keeps the lease it finds: an address that another cluster
takes with a short lease after `Observe` comes back with that lease when the renewal
after the `edit` fails. `LeaseInv` is the conjunction of

- `LeasesLast`: the lease of an address that is held, or that an `Update` may still
  take back, is missing or lasts for half its duration from `synced`. Speaking of
  the addresses in the status alone, as the property does, is not inductive;
- `RenewedSoFar`: within an `Update` every lease that is not to be renewed any more
  lasts that long from its `Observe`, so that `synced` may move when all are;
- `InThePast`: neither of these times is later than now.

TLC checked it as an invariant of `provider` before the proof.

**Only model-checked.** Liveness (`EveryWriteEnds`, `ExpiredIsReclaimed`,
`TerminatesButForAll`, `DeletionEnds`, `KeepsItsAddresses`, `ReadyAtLast`,
`PoolIsFilled`): outside the prover's reach; of `TerminatesButForAll`, that the
loop over all addresses does not end is proved. `RetriesDNS` of `Provider` is not
true of every instance: a cluster has one record for all its addresses
(`shared_name`), so with a status that lists fewer of them than it holds, one that
is lost takes the record along and `Observe` does not notice.

## 6. Not modelled

Pages, templates, the portal
prefix, JSON layout and logging (no state); parsing of YAML, CIDR strings and
addresses; the wire formats of PowerDNS and the apiserver; TLS, credentials and
start-up, the provider's included; `AssignIP` and `FindAvailableIPs` of the
provider's client, which nothing calls; the lag of crossplane-runtime's cache; changes of the spec of an object;
generated code, the fake DD-WRT server of the tests, the KCL manifests
and the sample client.

## 7. State and what is left

Done: the write transaction, the handlers, the composition with leases and DNS,
the CR format, CIDR expansion, the DD-WRT client, the Crossplane provider with its
two controllers; proofs of every safety property the passing runs check but
`RetriesDNS`, and of both refinements of `AtomicLedger`.

Left, in this order:

1. `RetriesDNS` under hypotheses that exclude shared records and short statuses, as
   an invariant of the status, the entry and the record of one address.
2. `DDWRT` as an implementation of a provider of `Clusterbook` (a call acts or
   fails, before or after acting), for calls that nobody races with.
3. Objects whose spec changes (`countIPs`, `createDns`, the range of a network).
