---------------------------- MODULE LedgerWrite ----------------------------
(***************************************************************************)
(* The write transaction every change of the ledger goes through           *)
(* (internal/ledger.go) on the two backends it saves to (internal/load.go, *)
(* internal/save.go): a YAML file written by one process, or a NetworkConfig *)
(* custom resource shared by several replicas and by kubectl.               *)
(*                                                                         *)
(* A Writer is one goroutine: an HTTP handler, a gRPC handler or the lease *)
(* reclaimer of the process Home[w].  What it does to the ledger is the    *)
(* parameter Change: the set of ledgers the handler may save for an        *)
(* operation, empty when it returns without saving.  Stored is what a later *)
(* Load reads back of a saved ledger.                                      *)
(***************************************************************************)
EXTENDS Naturals, FiniteSets

CONSTANTS
  Process,      \* clusterbook processes (replicas)
  Writer,       \* goroutines that may write the ledger
  Home,         \* Home[w]: the process the goroutine w belongs to
  Source,       \* LOAD_CONFIG_FROM: "disk" or "cr"
  Ledger,       \* the values of a map[string]IPs
  EmptyLedger,  \* the map that Load returns for a CR that does not exist
  Edits,        \* what kubectl may write into the CR; {} when nobody uses it
  Op,           \* operations: what a handler was asked to do
  Change(_, _), \* Change(o, l): the ledgers o may make of l; {} if o saves none
  Stored(_),    \* Stored(l): the ledger a Load returns after l was saved
  MaxRevision,  \* bound: no new request or kubectl edit from this revision on
  MaxLate,      \* bound: unanswered writes that may still be on their way
  Nobody        \* the owner of a free lock

ASSUME SourceAssumption == Source \in {"disk", "cr"}

ASSUME HomeAssumption == Home \in [Writer -> Process] /\ Nobody \notin Writer

(* "Disk mode has no such check: a config file is meant to be written by   *)
(* one clusterbook process" (ledger.go).                                   *)
ASSUME DiskAssumption == Source = "disk" => \A p, q \in Process : p = q

ASSUME LedgerAssumption ==
  /\ EmptyLedger \in Ledger
  /\ Edits \subseteq Ledger
  /\ \A l \in Ledger : Stored(l) \in Ledger
  /\ \A o \in Op, l \in Ledger : Change(o, l) \subseteq Ledger

ASSUME DiskStoresAll == Source = "disk" => \A l \in Ledger : Stored(l) = l

ASSUME BoundAssumption == MaxRevision \in Nat /\ MaxLate \in Nat

VARIABLES
  ledgerMu,         \* ledgerMu[p]: the writer that holds the lock of process p
  pc,               \* where each writer is
  loaded,           \* the ledger its Load returned
  version,          \* LedgerWrite.version; 0 stands for ""
  next,             \* the changed ledger it is going to save
  reply,            \* how its last write ended
  config,           \* the ledger in the file or CR; EmptyLedger when there is no CR
  resourceVersion,  \* the CR's resourceVersion; 0 without a CR, and for a file
  revision,         \* the last revision the apiserver handed out
  late              \* conditional writes whose caller got no answer

storeVars == <<config, resourceVersion, revision, late>>
txVars == <<loaded, version, next>>
vars == <<ledgerMu, pc, loaded, version, next, reply, storeVars>>

(* "lock": blocked in BeginLedgerWrite; "begun": lock held; "loaded": Load *)
(* returned; "save": about to call Save; "put": CreateOrUpdateNetworkConfig *)
(* has passed its own version check; "saved": Save returned nil, the DNS   *)
(* calls follow; "replied": only the deferred End is left.                 *)
Location == {"idle", "lock", "begun", "loaded", "save", "put", "saved", "replied"}
Critical == {"begun", "loaded", "save", "put", "saved", "replied"}
Outcome == {"ok", "refused", "conflict", "error"}
NoVersion == 0

TypeOK ==
  /\ ledgerMu \in [Process -> Writer \cup {Nobody}]
  /\ pc \in [Writer -> Location]
  /\ loaded \in [Writer -> Ledger]
  /\ version \in [Writer -> Nat]
  /\ next \in [Writer -> Ledger]
  /\ reply \in [Writer -> Outcome]
  /\ config \in Ledger
  /\ resourceVersion \in Nat
  /\ revision \in Nat
  /\ late \subseteq [version : Nat, ledger : Ledger]

Init ==
  /\ ledgerMu = [p \in Process |-> Nobody]
  /\ pc = [w \in Writer |-> "idle"]
  /\ loaded = [w \in Writer |-> EmptyLedger]
  /\ version = [w \in Writer |-> NoVersion]
  /\ next = [w \in Writer |-> EmptyLedger]
  /\ reply = [w \in Writer |-> "ok"]
  /\ config = EmptyLedger
  /\ resourceVersion = NoVersion
  /\ revision = 0
  /\ late = {}

-----------------------------------------------------------------------------
(* The writer's own steps.                                                 *)

Goto(w, l) == pc' = [pc EXCEPT ![w] = l]

Reply(w, r) == Goto(w, "replied") /\ reply' = [reply EXCEPT ![w] = r]

(* The LedgerWrite values of these writers are garbage.                    *)
Forget(ws) ==
  /\ loaded' = [w \in Writer |-> IF w \in ws THEN EmptyLedger ELSE loaded[w]]
  /\ version' = [w \in Writer |-> IF w \in ws THEN NoVersion ELSE version[w]]
  /\ next' = [w \in Writer |-> IF w \in ws THEN EmptyLedger ELSE next[w]]
  /\ reply' = [w \in Writer |-> IF w \in ws THEN "ok" ELSE reply[w]]

(* Of the writes these writers have sent to the apiserver, any may still   *)
(* be performed although nobody waits for the answer.                      *)
Lose(ws) ==
  \E sent \in SUBSET {w \in ws : pc[w] = "put"} :
    /\ late' = late \cup {[version |-> version[w], ledger |-> next[w]] : w \in sent}
    /\ Cardinality(late') <= MaxLate

Bounded == Source = "cr" => revision < MaxRevision

(* A request arrives, or the reclaimer's ticker fires.                     *)
Request(w) ==
  /\ pc[w] = "idle"
  /\ Bounded
  /\ Goto(w, "lock")
  /\ UNCHANGED <<ledgerMu, txVars, reply, storeVars>>

(* Mutant: ledgerMu is not locked.                                         *)
BeginUnlocked(w) ==
  /\ pc[w] = "lock"
  /\ ledgerMu' = [ledgerMu EXCEPT ![Home[w]] = w]
  /\ Goto(w, "begun")
  /\ UNCHANGED <<txVars, reply, storeVars>>

BeginLedgerWrite(w) ==
  /\ pc[w] = "lock"
  /\ ledgerMu[Home[w]] = Nobody
  /\ ledgerMu' = [ledgerMu EXCEPT ![Home[w]] = w]
  /\ Goto(w, "begun")
  /\ UNCHANGED <<txVars, reply, storeVars>>

(* A missing CR is no error: it loads as EmptyLedger at version "".        *)
Load(w) ==
  /\ pc[w] = "begun"
  /\ loaded' = [loaded EXCEPT ![w] = config]
  /\ version' = [version EXCEPT ![w] = resourceVersion]
  /\ Goto(w, "loaded")
  /\ UNCHANGED <<ledgerMu, next, reply, storeVars>>

(* Mutant: the handler goes on with the nil map of a failed Load.          *)
LoadErrorIgnored(w) ==
  /\ pc[w] = "begun"
  /\ loaded' = [loaded EXCEPT ![w] = Nobody]
  /\ Goto(w, "loaded")
  /\ UNCHANGED <<ledgerMu, version, next, reply, storeVars>>

(* Mutant: this error path returns without End.                            *)
LoadErrorWithoutEnd(w) ==
  /\ pc[w] = "begun"
  /\ Goto(w, "idle")
  /\ UNCHANGED <<ledgerMu, txVars, reply, storeVars>>

(* File unreadable, apiserver unreachable, CR not convertible.             *)
LoadError(w) ==
  /\ pc[w] = "begun"
  /\ Reply(w, "error")
  /\ UNCHANGED <<ledgerMu, txVars, storeVars>>

(* The handler changes its copy of the ledger.                             *)
Decide(w, o) ==
  /\ pc[w] = "loaded"
  /\ \E l \in Change(o, loaded[w]) : next' = [next EXCEPT ![w] = l]
  /\ Goto(w, "save")
  /\ UNCHANGED <<ledgerMu, loaded, version, reply, storeVars>>

(* A 4xx answer, nothing to reclaim, or a recovered panic: no Save.        *)
Refuse(w, o) ==
  /\ pc[w] = "loaded"
  /\ Change(o, loaded[w]) = {}
  /\ Reply(w, "refused")
  /\ UNCHANGED <<ledgerMu, txVars, storeVars>>

(* SaveYAMLToDisk: the rename is the commit.                               *)
SaveYAMLToDisk(w) ==
  /\ Source = "disk"
  /\ pc[w] = "save"
  /\ config' = Stored(next[w])
  /\ Goto(w, "saved")
  /\ UNCHANGED <<ledgerMu, txVars, reply, resourceVersion, revision, late>>

(* Any step of SaveYAMLToDisk up to the rename failed, or the client or    *)
(* the Get of CreateOrUpdateNetworkConfig did: the stored ledger is intact. *)
SaveError(w) ==
  /\ pc[w] = "save"
  /\ Reply(w, "error")
  /\ UNCHANGED <<ledgerMu, txVars, storeVars>>

(* Mutant: the write carries the version of the Get at the time of the     *)
(* save, as before issue #199, not the one the decision was made on.       *)
SaveGetFresh(w) ==
  /\ Source = "cr"
  /\ pc[w] = "save"
  /\ version' = [version EXCEPT ![w] = resourceVersion]
  /\ Goto(w, "put")
  /\ UNCHANGED <<ledgerMu, loaded, next, reply, storeVars>>

(* The Get of CreateOrUpdateNetworkConfig and the comparison with the      *)
(* version Load saw; NotFound is NoVersion on both sides.                  *)
SaveGet(w) ==
  /\ Source = "cr"
  /\ pc[w] = "save"
  /\ IF resourceVersion = version[w]
       THEN Goto(w, "put") /\ reply' = reply
       ELSE Reply(w, "conflict")
  /\ UNCHANGED <<ledgerMu, txVars, storeVars>>

(* The apiserver performs a write that is conditional on version v: Create *)
(* for NoVersion, Update otherwise.                                        *)
Apply(v, l) ==
  /\ resourceVersion = v
  /\ config' = Stored(l)
  /\ revision' = revision + 1
  /\ resourceVersion' = revision + 1

(* Mutant: the Update carries no resourceVersion and always succeeds.      *)
SavePutUnconditional(w) ==
  /\ pc[w] = "put"
  /\ Apply(resourceVersion, next[w])
  /\ version' = [version EXCEPT ![w] = revision + 1]
  /\ Goto(w, "saved")
  /\ UNCHANGED <<ledgerMu, loaded, next, reply, late>>

SavePut(w) ==
  /\ pc[w] = "put"
  /\ Apply(version[w], next[w])
  /\ version' = [version EXCEPT ![w] = revision + 1]
  /\ Goto(w, "saved")
  /\ UNCHANGED <<ledgerMu, loaded, next, reply, late>>

(* AlreadyExists or 409 since the Get; an Update of a CR deleted since is  *)
(* NotFound, which the code does not call a conflict.                      *)
SavePutConflict(w) ==
  /\ pc[w] = "put"
  /\ resourceVersion # version[w]
  /\ Reply(w, IF resourceVersion = NoVersion THEN "error" ELSE "conflict")
  /\ UNCHANGED <<ledgerMu, txVars, storeVars>>

(* The connection breaks: whether the apiserver performs the write, and    *)
(* when, is unknown to the writer.                                         *)
SavePutLost(w) ==
  /\ pc[w] = "put"
  /\ Lose({w})
  /\ Reply(w, "error")
  /\ UNCHANGED <<ledgerMu, txVars, config, resourceVersion, revision>>

(* The DNS calls after a save; whatever they return, the reply is a        *)
(* success that names the DNS outcome.                                     *)
UpdateDNS(w) ==
  /\ pc[w] = "saved"
  /\ Reply(w, "ok")
  /\ UNCHANGED <<ledgerMu, txVars, storeVars>>

(* Mutant: End does not unlock.                                            *)
EndLocked(w) ==
  /\ pc[w] = "replied"
  /\ Goto(w, "idle")
  /\ Forget({w})
  /\ UNCHANGED <<ledgerMu, storeVars>>

(* The deferred End.                                                       *)
End(w) ==
  /\ pc[w] = "replied"
  /\ Goto(w, "idle")
  /\ ledgerMu' = [ledgerMu EXCEPT ![Home[w]] = Nobody]
  /\ Forget({w})
  /\ UNCHANGED storeVars

-----------------------------------------------------------------------------
(* The environment.                                                        *)

(* The process dies at any point and is restarted with a fresh mutex; a    *)
(* conditional write it had sent may still be performed.                   *)
Crash(p) ==
  /\ \E w \in Writer : Home[w] = p /\ pc[w] # "idle"
  /\ ledgerMu' = [ledgerMu EXCEPT ![p] = Nobody]
  /\ pc' = [w \in Writer |-> IF Home[w] = p THEN "idle" ELSE pc[w]]
  /\ Lose({w \in Writer : Home[w] = p})
  /\ Forget({w \in Writer : Home[w] = p})
  /\ UNCHANGED <<config, resourceVersion, revision>>

LateApply(m) ==
  /\ m \in late
  /\ Apply(m.version, m.ledger)
  /\ late' = late \ {m}
  /\ UNCHANGED <<ledgerMu, pc, txVars, reply>>

LateDrop(m) ==
  /\ m \in late
  /\ late' = late \ {m}
  /\ UNCHANGED <<ledgerMu, pc, txVars, reply, config, resourceVersion, revision>>

(* kubectl edit (or create) and kubectl delete.                            *)
KubectlEdit(l) ==
  /\ Source = "cr"
  /\ Bounded
  /\ config' = l
  /\ revision' = revision + 1
  /\ resourceVersion' = revision + 1
  /\ UNCHANGED <<ledgerMu, pc, txVars, reply, late>>

KubectlDelete ==
  /\ Source = "cr"
  /\ Edits # {}
  /\ Bounded
  /\ resourceVersion # NoVersion
  /\ config' = EmptyLedger
  /\ resourceVersion' = NoVersion
  /\ revision' = revision + 1
  /\ UNCHANGED <<ledgerMu, pc, txVars, reply, late>>

(* Nobody asks for anything: the service may rest here for ever.           *)
Rest ==
  /\ \A w \in Writer : pc[w] = "idle"
  /\ UNCHANGED vars

-----------------------------------------------------------------------------
(* Everything a begun write does until its End, one call after the other.  *)
Proceed(w) ==
  \/ Load(w) \/ LoadError(w)
  \/ \E o \in Op : Decide(w, o) \/ Refuse(w, o)
  \/ SaveYAMLToDisk(w) \/ SaveError(w)
  \/ SaveGet(w) \/ SavePut(w) \/ SavePutConflict(w) \/ SavePutLost(w)
  \/ UpdateDNS(w) \/ End(w)

Environment ==
  \/ \E p \in Process : Crash(p)
  \/ \E m \in late : LateApply(m) \/ LateDrop(m)
  \/ \E l \in Edits : KubectlEdit(l)
  \/ KubectlDelete

Next ==
  \/ \E w \in Writer : Request(w) \/ BeginLedgerWrite(w) \/ Proceed(w)
  \/ Environment
  \/ Rest

Spec == Init /\ [][Next]_vars

(* Every call a writer makes returns, and sync.Mutex hands the lock to the *)
(* longest waiter once it has waited for 1 ms (starvation mode), so a      *)
(* writer for which the lock is free again and again gets it.              *)
Fairness ==
  \A w \in Writer : WF_vars(Proceed(w)) /\ SF_vars(BeginLedgerWrite(w))

FairSpec == Spec /\ Fairness

-----------------------------------------------------------------------------
(* Properties.                                                             *)

Holds(w) == pc[w] \in Critical

(* ledgerMu: a writer between BeginLedgerWrite and the end of End, DNS     *)
(* calls included, is the only one of its process there, and a free lock   *)
(* means nobody is there, whatever error path or crash came before.        *)
MutualExclusion ==
  /\ \A w, u \in Writer :
       Holds(w) /\ Holds(u) /\ Home[w] = Home[u] => w = u
  /\ \A w \in Writer : Holds(w) => ledgerMu[Home[w]] = w
  /\ \A p \in Process : ledgerMu[p] # Nobody =>
       Home[ledgerMu[p]] = p /\ Holds(ledgerMu[p])

(* Issue #199: the ledger that a save replaces is exactly the one its      *)
(* decision was made on, in both modes, across replicas, kubectl edits and *)
(* deletions, crashes and writes performed late; and what is stored then   *)
(* is that decision's ledger.                                              *)
NoLostUpdate ==
  [][ \A w \in Writer :
        pc[w] \in {"save", "put"} /\ pc'[w] = "saved" =>
          /\ loaded[w] = config
          /\ config' = Stored(next[w]) ]_vars

Derives(l, n) == \E o \in Op : n \in Change(o, l)

(* Whatever is on its way to the store, from a live writer or from one that *)
(* crashed or lost its connection, and would still pass the version check, *)
(* was computed from the ledger it is about to replace.  Revisions are     *)
(* never reused, but NoVersion is: a CR that is deleted is again what a    *)
(* writer that found none has loaded.                                      *)
SafeToCommit ==
  /\ \A w \in Writer : pc[w] \in {"loaded", "save", "put"} =>
       /\ version[w] = resourceVersion => loaded[w] = config
       /\ Source = "cr" /\ version[w] = NoVersion => loaded[w] = EmptyLedger
  /\ \A w \in Writer : pc[w] \in {"save", "put"} => Derives(loaded[w], next[w])
  /\ \A m \in late :
       /\ m.version = resourceVersion => Derives(config, m.ledger)
       /\ m.version = NoVersion => Derives(EmptyLedger, m.ledger)

(* What the proof needs besides: where versions come from in each mode.    *)
VersionsOfMode ==
  /\ resourceVersion <= revision
  /\ \A w \in Writer : version[w] <= revision
  /\ \A m \in late : m.version <= revision
  /\ Source = "cr" /\ resourceVersion = NoVersion => config = EmptyLedger
  /\ Source = "disk" =>
       /\ resourceVersion = NoVersion
       /\ late = {}
       /\ \A w \in Writer : version[w] = NoVersion /\ pc[w] # "put"

InductiveInv == TypeOK /\ MutualExclusion /\ VersionsOfMode /\ SafeToCommit

(* Every step of the protocol is a step of AtomicLedger: changes take      *)
(* effect atomically on the current ledger, an "ok" exactly once, a       *)
(* refusal or a conflict never.                                            *)
callBar == [w \in Writer |->
  CASE pc[w] = "idle" -> "idle"
    [] pc[w] = "saved" -> "ok"
    [] pc[w] = "replied" -> reply[w]
    [] OTHER -> "open"]

Atomic == INSTANCE AtomicLedger
  WITH ledger <- config, call <- callBar, doubt <- late # {}

ImplementsAtomicLedger == Atomic!Spec

(* A write that waits for the lock gets it and ends: no error path, panic, *)
(* conflict or crash leaves the lock taken.                                *)
EveryWriteEnds == \A w \in Writer : pc[w] = "lock" ~> pc[w] = "idle"

=============================================================================
