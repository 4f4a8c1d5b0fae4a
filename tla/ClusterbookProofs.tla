------------------------- MODULE ClusterbookProofs -------------------------
(***************************************************************************)
(* clusterbook keeps its promises about addresses for every set of         *)
(* replicas, handlers, requests, networks and pools, in both modes,        *)
(* whatever fails.  While one process writes, the records of the DNS       *)
(* providers follow the ledger, and what an answer says of them is true.   *)
(***************************************************************************)
EXTENDS Clusterbook, IPLedgerProofs, SequenceTheorems

LW == INSTANCE LedgerWriteProofs
  WITH Ledger <- Ledgers(Time), EmptyLedger <- NoNetworks, Edits <- {},
       Op <- [req : Requests \cup Reclaims, now : 0..MaxNow], MaxLate <- 0

-----------------------------------------------------------------------------
(* The assumptions of the write transaction hold of the handlers.          *)

(* The times of leases. *)
LEMMA TimeFacts ==
  /\ Time \in SUBSET Nat /\ 0 \in Time /\ 0..MaxLease \in SUBSET Nat
  /\ \A t \in 0..MaxNow : t \in Nat /\ \A k \in 0..MaxLease : t + k \in Time
  BY BoundAssumption DEF Time

(* A request or a tick is handled as HandleEffect says. *)
LEMMA ChangeEffect ==
  ASSUME NEW r \in Requests \cup Reclaims, NEW t \in 0..MaxNow,
         NEW l \in Ledgers(Time), NEW s \in Handle(r, t, l)
  PROVE  s \in Ledgers(Time) /\ Allowed(r, t, l, s)
<1>1. ValidRequest(r, 0..MaxLease) \/ (r.kind = "reclaim" /\ r.now \in Nat)
  BY RequestAssumption, BoundAssumption DEF Reclaims
<1> DEFINE D == 0..MaxLease
<1>2. D \in SUBSET Nat /\ t \in Nat /\ \A k \in D : t + k \in Time
  BY TimeFacts
<1>3. ValidRequest(r, D) \/ (r.kind = "reclaim" /\ r.now \in Nat)
  BY <1>1
<1> HIDE DEF D
<1> QED
  BY <1>2, <1>3, TimeFacts, HandleEffect

(* What a Load reads back of a ledger: every entry, reduced in a custom    *)
(* resource.                                                               *)
LEMMA StoredEntry ==
  ASSUME NEW l \in Ledgers(Time)
  PROVE  /\ Stored(l) \in Ledgers(Time)
         /\ \A n \in Network, d \in Digit :
              Entry(Stored(l), n, d) = IF Source = "cr" THEN Reduced(Entry(l, n, d)) ELSE Entry(l, n, d)
  BY RoundTripEntry, TimeFacts DEF Stored

(* What LedgerWrite assumes of its ledgers and operations holds for the    *)
(* ledgers and handlers of clusterbook: each handler returns ledgers.      *)
LEMMA TransactionAssumptions ==
  /\ NoNetworks \in Ledgers(Time)
  /\ \A l \in Ledgers(Time) : Stored(l) \in Ledgers(Time)
  /\ \A o \in [req : Requests \cup Reclaims, now : 0..MaxNow], l \in Ledgers(Time) :
       Change(o, l) \subseteq Ledgers(Time)
<1>1. NoNetworks \in Ledgers(Time)
  BY DEF NoNetworks, Ledgers
<1>2. ASSUME NEW o \in [req : Requests \cup Reclaims, now : 0..MaxNow], NEW l \in Ledgers(Time),
             NEW s \in Change(o, l)
      PROVE  s \in Ledgers(Time)
  <2>1. o.req \in Requests \cup Reclaims /\ o.now \in 0..MaxNow
    OBVIOUS
  <2>2. s \in Handle(o.req, o.now, l)
    BY DEF Change
  <2> QED
    BY <2>1, <2>2, ChangeEffect
<1> QED
  BY <1>1, <1>2, StoredEntry

(* TX, the instance the specification uses, and LW, the one the theorems   *)
(* are about, are the same.                                                *)
LEMMA SameInvariant ==
  /\ TX!InductiveInv <=> LW!InductiveInv
  /\ TX!InductiveInv' <=> LW!InductiveInv'
  BY DEF TX!InductiveInv, LW!InductiveInv, TX!TypeOK, LW!TypeOK, TX!MutualExclusion,
         LW!MutualExclusion, TX!VersionsOfMode, LW!VersionsOfMode,
         TX!SafeToCommit, LW!SafeToCommit, TX!Holds, LW!Holds, TX!Critical,
         LW!Critical, TX!Location, LW!Location, TX!Outcome, LW!Outcome,
         TX!NoVersion, LW!NoVersion, TX!Derives, LW!Derives

(* The transaction of Clusterbook (TX) and the one that LedgerWriteProofs  *)
(* was instantiated for (LW) take the same steps.                          *)
LEMMA SameSteps ==
  [TX!Next]_(TX!vars) <=> [LW!Next]_(LW!vars)
<1> USE DEF TX!Goto, LW!Goto, TX!Reply, LW!Reply, TX!NoVersion, LW!NoVersion, TX!txVars,
            LW!txVars, TX!storeVars, LW!storeVars
<1>1. \A w \in Writer : TX!Request(w) <=> LW!Request(w)
  BY DEF TX!Request, LW!Request, TX!Bounded, LW!Bounded
<1>2. \A w \in Writer : TX!BeginLedgerWrite(w) <=> LW!BeginLedgerWrite(w)
  BY DEF TX!BeginLedgerWrite, LW!BeginLedgerWrite
<1>3. \A w \in Writer : TX!Load(w) <=> LW!Load(w)
  BY DEF TX!Load, LW!Load
<1>4. \A w \in Writer : TX!LoadError(w) <=> LW!LoadError(w)
  BY DEF TX!LoadError, LW!LoadError
<1>5. \A w \in Writer : TX!SaveYAMLToDisk(w) <=> LW!SaveYAMLToDisk(w)
  BY DEF TX!SaveYAMLToDisk, LW!SaveYAMLToDisk
<1>6. \A w \in Writer : TX!SaveError(w) <=> LW!SaveError(w)
  BY DEF TX!SaveError, LW!SaveError
<1>7. \A w \in Writer : TX!SaveGet(w) <=> LW!SaveGet(w)
  BY DEF TX!SaveGet, LW!SaveGet
<1>8. \A w \in Writer : TX!SavePut(w) <=> LW!SavePut(w)
  BY DEF TX!SavePut, LW!SavePut, TX!Apply, LW!Apply
<1>9. \A w \in Writer : TX!SavePutConflict(w) <=> LW!SavePutConflict(w)
  BY DEF TX!SavePutConflict, LW!SavePutConflict
<1>10. \A w \in Writer : TX!SavePutLost(w) <=> LW!SavePutLost(w)
  BY DEF TX!SavePutLost, LW!SavePutLost, TX!Lose, LW!Lose, TX!Cardinality, LW!Cardinality
<1>11. \A w \in Writer : TX!UpdateDNS(w) <=> LW!UpdateDNS(w)
  BY DEF TX!UpdateDNS, LW!UpdateDNS
<1>12. \A w \in Writer : TX!End(w) <=> LW!End(w)
  BY DEF TX!End, LW!End, TX!Forget, LW!Forget
<1>13. \A w \in Writer : \A o : TX!Decide(w, o) <=> LW!Decide(w, o)
  BY DEF TX!Decide, LW!Decide
<1>14. \A w \in Writer : \A o : TX!Refuse(w, o) <=> LW!Refuse(w, o)
  BY DEF TX!Refuse, LW!Refuse
<1>15. \A p \in Process : TX!Crash(p) <=> LW!Crash(p)
  BY DEF TX!Crash, LW!Crash, TX!Lose, LW!Lose, TX!Forget, LW!Forget, TX!Cardinality,
         LW!Cardinality
<1>16. \A m \in late : TX!LateApply(m) <=> LW!LateApply(m)
  BY DEF TX!LateApply, LW!LateApply, TX!Apply, LW!Apply
<1>17. \A m \in late : TX!LateDrop(m) <=> LW!LateDrop(m)
  BY DEF TX!LateDrop, LW!LateDrop
<1>18. TX!KubectlDelete <=> LW!KubectlDelete
  BY DEF TX!KubectlDelete, LW!KubectlDelete, TX!Bounded, LW!Bounded
<1>19. TX!Rest <=> LW!Rest
  BY DEF TX!Rest, LW!Rest, TX!vars, LW!vars
<1>20. UNCHANGED TX!vars <=> UNCHANGED LW!vars
  BY DEF TX!vars, LW!vars
<1>21. TX!Environment <=> LW!Environment
  BY <1>15, <1>16, <1>17, <1>18, Zenon DEF TX!Environment, LW!Environment
<1>22. \A w \in Writer : TX!Proceed(w) <=> LW!Proceed(w)
  BY <1>3, <1>4, <1>5, <1>6, <1>7, <1>8, <1>9, <1>10, <1>11, <1>12, <1>13, <1>14, Zenon
     DEF TX!Proceed, LW!Proceed
<1>23. TX!Next <=> LW!Next
  BY <1>1, <1>2, <1>19, <1>21, <1>22, Zenon DEF TX!Next, LW!Next
<1> QED
  BY <1>20, <1>23, Zenon

(* Every step of the write transaction keeps its inductive invariant. *)
LEMMA TransactionStep ==
  TX!InductiveInv /\ [TX!Next]_(TX!vars) => TX!InductiveInv'
<1>1. LW!InductiveInv /\ [LW!Next]_(LW!vars) => LW!InductiveInv'
  BY LW!InvStep, TransactionAssumptions, SourceAssumption, HomeAssumption, DiskAssumption,
     BoundAssumption DEF LW!InvStep, Stored
<1> QED
  BY <1>1, SameInvariant, SameSteps

-----------------------------------------------------------------------------
(* Every step of clusterbook is one of the write transaction, or changes   *)
(* nothing of it.                                                          *)

(* A handler is given the request of its writer and the present time. *)
LEMMA AskedType ==
  ASSUME TypeOK, Asking, NEW w \in Writer, pc[w] # "idle"
  PROVE  /\ req[w] \in Requests \cup Reclaims
         /\ Asked(w) \in [req : Requests \cup Reclaims, now : 0..MaxNow]
<1>1. now \in 0..MaxNow
  BY DEF TypeOK
<1>2. 0..now \subseteq 0..MaxNow
  BY <1>1, BoundAssumption
<1>3. req[w] \in Requests \cup Reclaims
  BY <1>2 DEF Asking, Reclaims
<1> QED
  BY <1>1, <1>3 DEF Asked

(* Every handler, reclaimer and DNS call is a step of the write protocol of*)
(* ledger.go or leaves its state alone.                                    *)
LEMMA StepIsTransaction ==
  TypeOK /\ Asking /\ [Next]_vars => [TX!Next]_(TX!vars)
<1> SUFFICES ASSUME TypeOK, Asking, [Next]_vars PROVE TX!Next \/ UNCHANGED TX!vars
  OBVIOUS
<1>1. ASSUME NEW w \in Writer, Tick(w) \/ \E r \in Requests : Receive(w, r) PROVE TX!Next
  BY <1>1 DEF Tick, Receive, TX!Next
<1>2. ASSUME NEW w \in Writer, Begin(w) PROVE TX!Next
  BY <1>2 DEF Begin, TX!Next
<1>3. ASSUME NEW w \in Writer, Load(w) \/ LoadError(w) PROVE TX!Next
  BY <1>3 DEF Load, LoadError, TX!Next, TX!Proceed
<1>4. ASSUME NEW w \in Writer, Decide(w) \/ Refuse(w) PROVE TX!Next
  <2>1. TX!Decide(w, Asked(w)) \/ TX!Refuse(w, Asked(w))
    BY <1>4 DEF Decide, Refuse
  <2>2. pc[w] # "idle"
    BY <2>1 DEF TX!Decide, TX!Refuse
  <2>3. Asked(w) \in [req : Requests \cup Reclaims, now : 0..MaxNow]
    BY <2>2, AskedType
  <2> QED
    BY <2>1, <2>3 DEF TX!Next, TX!Proceed
<1>5. ASSUME NEW w \in Writer, SaveError(w) \/ SaveGet(w) \/ SavePutConflict(w) \/ SavePutError(w)
      PROVE  TX!Next
  BY <1>5 DEF SaveError, SaveGet, SavePutConflict, SavePutError, TX!Next, TX!Proceed
<1>6. ASSUME NEW w \in Writer, Save(w) \/ Answer(w) \/ End(w) PROVE TX!Next
  BY <1>6 DEF Save, Answer, End, TX!Next, TX!Proceed
<1>7. ASSUME NEW w \in Writer, DNSCall(w) \/ DNSError(w) PROVE UNCHANGED TX!vars
  BY <1>7 DEF DNSCall, DNSError, ledgerVars, TX!vars, TX!storeVars
<1>8. ASSUME NEW p \in Process, Crash(p) PROVE TX!Next
  BY <1>8 DEF Crash, TX!Next, TX!Environment
<1>9. CASE Pass \/ UNCHANGED vars
  BY <1>9 DEF Pass, vars, ledgerVars, TX!vars, TX!storeVars
<1>10. CASE Rest
  BY <1>10 DEF Rest, TX!Next
<1> QED
  BY <1>1, <1>2, <1>3, <1>4, <1>5, <1>6, <1>7, <1>8, <1>9, <1>10 DEF Next, Proceed

-----------------------------------------------------------------------------
(* The DNS calls that follow a save.                                       *)

(* The same for a request or a tick of this server.                        *)
LEMMA DNSWorkTasks ==
  ASSUME NEW r \in Requests \cup Reclaims, NEW t \in 0..MaxNow, NEW l \in Ledgers(Time),
         NEW s \in Handle(r, t, l), NEW tasks \in DNSWork(r, l, s)
  PROVE  /\ tasks \in Seq(Task)
         /\ \A i \in DOMAIN tasks :
              tasks[i].op = "create" => Shows(s, tasks[i].addr, tasks[i].cluster)
<1> DEFINE D == 0..MaxLease
<1>1. D \in SUBSET Nat /\ t \in Nat /\ (\A k \in D : t + k \in Time)
  BY TimeFacts
<1>2. ValidRequest(r, D) \/ (r.kind = "reclaim" /\ r.now \in Nat)
  BY RequestAssumption, BoundAssumption DEF Reclaims
<1> HIDE DEF D
<1> QED
  BY <1>1, <1>2, TimeFacts, WorkIsTasks

(* Each task is given to every provider in turn. *)
LEMMA OnEveryProviderCalls ==
  ASSUME NEW tasks \in Seq(Task)
  PROVE  /\ OnEveryProvider(tasks) \in Seq(Call)
         /\ \A i \in DOMAIN OnEveryProvider(tasks) :
              \E j \in DOMAIN tasks : OnEveryProvider(tasks)[i].task = tasks[j]
<1> DEFINE L == Len(tasks)
           K == Len(Providers)
<1>1. L \in Nat /\ K \in Nat /\ L * K \in Nat
  BY ProvidersAssumption
<1>2. ASSUME NEW i \in 1..(L * K)
      PROVE  1 + ((i - 1) % K) \in 1..K /\ 1 + ((i - 1) \div K) \in 1..L
  <2>1. K > 0
    BY <1>1, <1>2
  <2> DEFINE q == (i - 1) \div K
             m == (i - 1) % K
  <2>2. q \in Int /\ m \in 0..(K - 1) /\ i - 1 = K * q + m
    BY <1>1, <2>1
  <2> HIDE DEF q, m
  <2>3. q >= 0
    BY <1>1, <2>1, <2>2
  <2>4. q < L
    BY <1>1, <2>1, <2>2
  <2> QED
    BY <1>1, <2>2, <2>3, <2>4 DEF q, m
<1>3. \A j \in 1..K : Providers[j] \in Provider
  BY ProvidersAssumption
<1>4. \A j \in 1..L : tasks[j] \in Task
  OBVIOUS
<1>5. OnEveryProvider(tasks) = [i \in 1..(L * K) |->
        [provider |-> Providers[1 + ((i - 1) % K)], task |-> tasks[1 + ((i - 1) \div K)]]]
  BY DEF OnEveryProvider
<1> HIDE DEF L, K
<1>6. OnEveryProvider(tasks) \in [1..(L * K) -> Call]
  BY <1>2, <1>3, <1>4, <1>5 DEF Call
<1>7. DOMAIN tasks = 1..L
  BY DEF L
<1>8. OnEveryProvider(tasks) \in Seq(Call)
  BY <1>1, <1>6
<1>9. ASSUME NEW i \in 1..(L * K)
      PROVE  \E j \in 1..L : OnEveryProvider(tasks)[i].task = tasks[j]
  BY <1>2, <1>5
<1> QED
  BY <1>6, <1>7, <1>8, <1>9

-----------------------------------------------------------------------------
(* The inductive invariant.                                                *)

(* The inductive invariant holds when clusterbook starts on a saved ledger.*)
LEMMA InitInv == Init => InductiveInv /\ CallsAreDue
<1> SUFFICES ASSUME Init PROVE InductiveInv /\ CallsAreDue
  OBVIOUS
<1>1. TX!TypeOK
  BY TransactionAssumptions, PoolsAssumption
     DEF Init, TX!TypeOK, TX!Location, TX!Outcome
<1>2. TX!MutualExclusion
  BY HomeAssumption DEF Init, TX!MutualExclusion, TX!Holds, TX!Critical
<1>3. TX!VersionsOfMode
  BY SourceAssumption DEF Init, TX!VersionsOfMode, TX!NoVersion
<1>4. TX!SafeToCommit
  BY DEF Init, TX!SafeToCommit, TX!NoVersion
<1>5. TypeOK
  BY <1>1, BoundAssumption DEF Init, TypeOK
<1>6. Asking /\ Decided /\ Stored(config) = config
  BY PoolsAssumption DEF Init, Asking, Decided
<1>7. CallsAreDue
  BY DEF Init, CallsAreDue
<1> QED
  BY <1>1, <1>2, <1>3, <1>4, <1>5, <1>6, <1>7 DEF InductiveInv, TX!InductiveInv

(* A writer starts with a request and keeps it until it is idle again. *)
LEMMA AskingStep == TypeOK /\ Asking /\ [Next]_vars => Asking'
<1> SUFFICES ASSUME TypeOK, Asking, [Next]_vars PROVE Asking'
  OBVIOUS
<1> DEFINE Ticks(t) == [kind : {"reclaim"}, now : 0..t]
<1>0. now \in Nat /\ pc \in [Writer -> TX!Location] /\ DOMAIN req = Writer
  BY BoundAssumption DEF TypeOK, TX!TypeOK
<1>1. ASSUME NEW w \in Writer, NEW r \in Requests, Receive(w, r) PROVE Asking'
  BY <1>0, <1>1 DEF Receive, TX!Request, TX!Goto, Asking
<1>2. ASSUME NEW w \in Writer, Tick(w) PROVE Asking'
  <2>1. [kind |-> "reclaim", now |-> now] \in Ticks(now)
    BY <1>0
  <2> QED
    BY <1>0, <1>2, <2>1 DEF Tick, TX!Request, TX!Goto, Asking
<1>3. ASSUME NEW w \in Writer, UNCHANGED <<now, req>>, pc[w] # "idle",
             NEW l, pc' = [pc EXCEPT ![w] = l]
      PROVE  Asking'
  BY <1>0, <1>3 DEF Asking
<1>4. ASSUME NEW w \in Writer, Begin(w) \/ Proceed(w), ~End(w) PROVE Asking'
  <2>1. CASE DNSCall(w) \/ DNSError(w)
    BY <2>1 DEF DNSCall, DNSError, ledgerVars, Asking
  <2>2. CASE Begin(w) \/ Load(w) \/ LoadError(w) \/ Decide(w) \/ Refuse(w) \/ SaveError(w)
    BY <1>3, <2>2 DEF Begin, Load, LoadError, Decide, Refuse, SaveError, Keep, TX!BeginLedgerWrite,
       TX!Load, TX!LoadError, TX!Decide, TX!Refuse, TX!SaveError, TX!Goto, TX!Reply
  <2>3. CASE SaveGet(w) \/ SavePutConflict(w) \/ SavePutError(w) \/ Save(w) \/ Answer(w)
    BY <1>3, <2>3 DEF SaveGet, SavePutConflict, SavePutError, Save, Answer, Keep, TX!SaveGet,
       TX!SavePutConflict, TX!SavePutLost, TX!SaveYAMLToDisk, TX!SavePut, TX!UpdateDNS,
       TX!Goto, TX!Reply
  <2> QED
    BY <1>4, <2>1, <2>2, <2>3 DEF Proceed
<1>5. ASSUME NEW w \in Writer, End(w) PROVE Asking'
  BY <1>0, <1>5 DEF End, Drop, TX!End, TX!Goto, Asking
<1>6. ASSUME NEW p \in Process, Crash(p) PROVE Asking'
  BY <1>0, <1>6 DEF Crash, Drop, TX!Crash, Asking
<1>7. CASE Pass
  <2>1. Ticks(now) \subseteq Ticks(now')
    BY <1>0, <1>7 DEF Pass
  <2> QED
    BY <1>7, <2>1 DEF Pass, ledgerVars, Asking
<1>8. CASE Rest \/ UNCHANGED vars
  BY <1>8 DEF Rest, Keep, TX!Rest, TX!vars, vars, ledgerVars, Asking
<1> QED
  BY <1>1, <1>2, <1>4, <1>5, <1>6, <1>7, <1>8 DEF Next

(* Nobody but its handler changes what a writer loaded and is to save. *)
LEMMA DecidedStep == TypeOK /\ Decided /\ [Next]_vars => Decided'
<1> SUFFICES ASSUME TypeOK, Decided, [Next]_vars PROVE Decided'
  OBVIOUS
<1> DEFINE Deciding == {"save", "put"}
           Kept(u) == pc'[u] \in Deciding =>
             pc[u] \in Deciding /\ req'[u] = req[u] /\ next'[u] = next[u] /\ loaded'[u] = loaded[u]
<1>0. /\ now \in Nat /\ pc \in [Writer -> TX!Location] /\ DOMAIN req = Writer
      /\ loaded \in [Writer -> Ledgers(Time)] /\ next \in [Writer -> Ledgers(Time)]
  BY BoundAssumption DEF TypeOK, TX!TypeOK
<1>1. ASSUME now' = now, \A u \in Writer : Kept(u) PROVE Decided'
  BY <1>1 DEF Decided
<1>2. ASSUME NEW w \in Writer, Tick(w) \/ \E r \in Requests : Receive(w, r) PROVE Decided'
  <2>1. now' = now /\ \A u \in Writer : Kept(u)
    BY <1>0, <1>2 DEF Tick, Receive, TX!Request, TX!Goto, TX!txVars
  <2> QED
    BY <1>1, <2>1
<1>3. ASSUME NEW w \in Writer, Decide(w) PROVE Decided'
  <2>1. PICK l \in Change(Asked(w), loaded[w]) : next' = [next EXCEPT ![w] = l]
    BY <1>3 DEF Decide, TX!Decide
  <2>2. l \in Handle(req[w], now, loaded[w])
    BY <2>1 DEF Change, Asked
  <2>3. /\ pc[w] = "loaded" /\ pc' = [pc EXCEPT ![w] = "save"]
        /\ UNCHANGED <<now, req, loaded>>
    BY <1>3 DEF Decide, TX!Decide, TX!Goto, Keep
  <2>4. \E t \in 0..now' : next'[w] \in Handle(req'[w], t, loaded'[w])
    BY <1>0, <2>1, <2>2, <2>3
  <2>5. \A u \in Writer : u # w => Kept(u)
    BY <1>0, <2>1, <2>3
  <2> QED
    BY <2>3, <2>4, <2>5 DEF Decided
<1>4. ASSUME NEW w \in Writer, Begin(w) \/ Proceed(w), ~Decide(w) PROVE Decided'
  <2>1. CASE DNSCall(w) \/ DNSError(w)
    BY <1>1, <2>1 DEF DNSCall, DNSError, ledgerVars
  <2>2. CASE Begin(w) \/ Load(w) \/ LoadError(w) \/ Refuse(w) \/ SaveError(w)
    <3>1. now' = now /\ \A u \in Writer : Kept(u)
      BY <1>0, <2>2 DEF Begin, Load, LoadError, Refuse, SaveError, Keep, TX!BeginLedgerWrite,
         TX!Load, TX!LoadError, TX!Refuse, TX!SaveError, TX!Goto, TX!Reply, TX!txVars
    <3> QED
      BY <1>1, <3>1
  <2>3. CASE SaveGet(w) \/ SavePutConflict(w) \/ SavePutError(w) \/ Save(w) \/ Answer(w)
    <3>1. now' = now /\ \A u \in Writer : Kept(u)
      BY <1>0, <2>3 DEF SaveGet, SavePutConflict, SavePutError, Save, Answer, Keep, TX!SaveGet,
         TX!SavePutConflict, TX!SavePutLost, TX!SaveYAMLToDisk, TX!SavePut, TX!UpdateDNS,
         TX!Goto, TX!Reply, TX!txVars
    <3> QED
      BY <1>1, <3>1
  <2>4. CASE End(w)
    <3>1. now' = now /\ \A u \in Writer : Kept(u)
      BY <1>0, <2>4 DEF End, Drop, TX!End, TX!Goto, TX!Forget
    <3> QED
      BY <1>1, <3>1
  <2> QED
    BY <1>4, <2>1, <2>2, <2>3, <2>4 DEF Proceed
<1>5. ASSUME NEW p \in Process, Crash(p) PROVE Decided'
  <2>1. now' = now /\ \A u \in Writer : Kept(u)
    BY <1>0, <1>5 DEF Crash, Drop, TX!Crash, TX!Forget
  <2> QED
    BY <1>1, <2>1
<1>6. CASE Pass
  <2>1. 0..now \subseteq 0..now'
    BY <1>0, <1>6 DEF Pass
  <2> QED
    BY <1>6, <2>1 DEF Pass, ledgerVars, Decided
<1>7. CASE Rest \/ UNCHANGED vars
  BY <1>7 DEF Rest, Keep, TX!Rest, TX!vars, vars, ledgerVars, Decided
<1> QED
  BY <1>2, <1>3, <1>4, <1>5, <1>6, <1>7 DEF Next

(* What is stored has been stored before. *)
LEMMA StoredTwice ==
  ASSUME NEW l \in Ledgers(Time)
  PROVE  Stored(Stored(l)) = Stored(l)
  BY RoundTripTwice, TimeFacts DEF Stored

(* Only a save changes the stored ledger, to what its writer decided. *)
LEMMA ConfigStep ==
  ASSUME TypeOK, [Next]_vars
  PROVE  \/ config' = config
         \/ \E w \in Writer : /\ Save(w) /\ Committing(w)
                             /\ config' = Stored(next[w])
<1>0. pc \in [Writer -> TX!Location]
  BY DEF TypeOK, TX!TypeOK
<1>1. ASSUME NEW w \in Writer, Tick(w) \/ \E r \in Requests : Receive(w, r) PROVE config' = config
  BY <1>1 DEF Tick, Receive, TX!Request, TX!storeVars
<1>2. ASSUME NEW w \in Writer, Begin(w) \/ Proceed(w), ~Save(w) PROVE config' = config
  BY <1>2 DEF Proceed, Begin, Load, LoadError, Decide, Refuse, SaveError, SaveGet, SavePutConflict,
     SavePutError, Answer, End, DNSCall, DNSError, ledgerVars, TX!BeginLedgerWrite, TX!Load,
     TX!LoadError, TX!Decide, TX!Refuse, TX!SaveError, TX!SaveGet, TX!SavePutConflict,
     TX!SavePutLost, TX!UpdateDNS, TX!End, TX!storeVars
<1>3. ASSUME NEW w \in Writer, Save(w) PROVE Committing(w) /\ config' = Stored(next[w])
  BY <1>0, <1>3 DEF Save, TX!SaveYAMLToDisk, TX!SavePut, TX!Apply, TX!Goto, Committing
<1>4. ASSUME NEW p \in Process, Crash(p) PROVE config' = config
  BY <1>4 DEF Crash, TX!Crash
<1>5. CASE Pass \/ Rest \/ UNCHANGED vars
  BY <1>5 DEF Pass, Rest, TX!Rest, TX!vars, TX!storeVars, vars, ledgerVars
<1> QED
  BY <1>1, <1>2, <1>3, <1>4, <1>5 DEF Next

(* What one call does to the records of a provider. *)
LEMMA PerformedType ==
  ASSUME NEW t \in Task, NEW recs \in [Cluster -> Address \cup {NoRecord}]
  PROVE  Performed(t, recs) \in [Cluster -> Address \cup {NoRecord}]
<1>1. CASE t.op = "create"
  BY <1>1 DEF Performed, Result, Task
<1>2. CASE t.op # "create"
  BY <1>2 DEF Performed, Result, Task
<1> QED
  BY <1>1, <1>2

(* The variables that are not the write transaction's keep their types. *)
LEMMA RestTypeStep ==
  ASSUME InductiveInv, [Next]_vars, TX!TypeOK'
  PROVE  TypeOK'
<1>0. /\ now \in 0..MaxNow /\ req \in [Writer -> Requests \cup Reclaims \cup {NoRequest}]
      /\ work \in [Writer -> Seq(Call)] /\ dnsErr \in [Writer -> BOOLEAN]
      /\ records \in [Provider -> [Cluster -> Address \cup {NoRecord}]]
  BY DEF InductiveInv, TypeOK
<1>drop. ASSUME NEW ws, Drop(ws), UNCHANGED <<now, records>> PROVE TypeOK'
  <2>1. req' \in [Writer -> Requests \cup Reclaims \cup {NoRequest}]
    BY <1>0, <1>drop DEF Drop
  <2>2. work' \in [Writer -> Seq(Call)]
    <3>1. <<>> \in Seq(Call)
      OBVIOUS
    <3> QED
      BY <1>0, <1>drop, <3>1 DEF Drop
  <2>3. dnsErr' \in [Writer -> BOOLEAN]
    BY <1>0, <1>drop DEF Drop
  <2> QED
    BY <1>0, <1>drop, <2>1, <2>2, <2>3 DEF TypeOK
<1>1. ASSUME NEW w \in Writer, NEW r \in Requests, Receive(w, r) PROVE TypeOK'
  BY <1>0, <1>1 DEF Receive, TypeOK
<1>2. ASSUME NEW w \in Writer, Tick(w) PROVE TypeOK'
  <2>1. [kind |-> "reclaim", now |-> now] \in Reclaims
    BY <1>0 DEF Reclaims
  <2> QED
    BY <1>0, <1>2, <2>1 DEF Tick, TypeOK
<1>3. ASSUME NEW w \in Writer, Begin(w) \/ Proceed(w) PROVE TypeOK'
  <2>1. CASE Keep
    BY <1>0, <2>1 DEF Keep, TypeOK
  <2>2. CASE Save(w)
    <3>1. PICK tasks \in DNSWork(req[w], loaded[w], next[w]) :
            work' = [work EXCEPT ![w] = OnEveryProvider(tasks)]
      BY <2>2 DEF Save
    <3>2. pc[w] \in {"save", "put"} /\ UNCHANGED <<now, req, dnsErr, records>>
      BY <2>2 DEF Save, TX!SaveYAMLToDisk, TX!SavePut
    <3>3. PICK t \in 0..now : next[w] \in Handle(req[w], t, loaded[w])
      BY <3>2 DEF InductiveInv, Decided
    <3>4. t \in 0..MaxNow
      BY <1>0, BoundAssumption
    <3>5. req[w] \in Requests \cup Reclaims /\ loaded[w] \in Ledgers(Time)
      BY <3>2, AskedType DEF InductiveInv, TypeOK, TX!TypeOK
    <3>6. tasks \in Seq(Task)
      BY <3>1, <3>3, <3>4, <3>5, DNSWorkTasks
    <3>7. OnEveryProvider(tasks) \in Seq(Call)
      BY <3>6, OnEveryProviderCalls
    <3> QED
      BY <1>0, <3>1, <3>2, <3>7 DEF TypeOK
  <2>3. CASE DNSCall(w) \/ DNSError(w)
    <3>1. work[w] # <<>> /\ work' = [work EXCEPT ![w] = Tail(@)] /\ UNCHANGED <<now, req>>
      BY <2>3 DEF DNSCall, DNSError
    <3>2. work[w] \in Seq(Call) /\ Head(work[w]) \in Call /\ Tail(work[w]) \in Seq(Call)
      BY <1>0, <3>1
    <3>3. dnsErr' \in [Writer -> BOOLEAN]
      BY <1>0, <2>3 DEF DNSCall, DNSError
    <3> DEFINE q == Head(work[w]).provider
               t == Head(work[w]).task
    <3>4. q \in Provider /\ t \in Task
      BY <3>2 DEF Call
    <3>5. records' = records \/ records' = [records EXCEPT ![q] = Performed(t, @)]
      BY <2>3 DEF DNSCall, DNSError
    <3> HIDE DEF q, t
    <3>6. Performed(t, records[q]) \in [Cluster -> Address \cup {NoRecord}]
      BY <1>0, <3>4, PerformedType
    <3>7. records' \in [Provider -> [Cluster -> Address \cup {NoRecord}]]
      BY <1>0, <3>4, <3>5, <3>6
    <3>8. work' \in [Writer -> Seq(Call)]
      BY <1>0, <3>1, <3>2
    <3> QED
      BY <1>0, <3>1, <3>3, <3>7, <3>8 DEF TypeOK
  <2>4. CASE End(w)
    BY <1>drop, <2>4 DEF End
  <2> QED
    BY <1>3, <2>1, <2>2, <2>3, <2>4 DEF Begin, Proceed, Load, LoadError, Decide, Refuse, SaveError,
       SaveGet, SavePutConflict, SavePutError, Answer
<1>4. ASSUME NEW p \in Process, Crash(p) PROVE TypeOK'
  BY <1>drop, <1>4 DEF Crash
<1>5. CASE Pass
  <2>1. now' \in 0..MaxNow
    BY <1>0, <1>5, BoundAssumption DEF Pass
  <2> QED
    BY <1>0, <1>5, <2>1 DEF Pass, TypeOK
<1>6. CASE Rest \/ UNCHANGED vars
  BY <1>0, <1>6 DEF Rest, Keep, vars, TypeOK
<1> QED
  BY <1>1, <1>2, <1>3, <1>4, <1>5, <1>6 DEF Next

(* ... and every step of every handler keeps it.                           *)
LEMMA InvStep == InductiveInv /\ [Next]_vars => InductiveInv'
<1> SUFFICES ASSUME InductiveInv, [Next]_vars PROVE InductiveInv'
  OBVIOUS
<1>1. TypeOK /\ TX!InductiveInv /\ Asking /\ Decided /\ Stored(config) = config
  BY DEF InductiveInv
<1>2. TX!InductiveInv'
  BY <1>1, StepIsTransaction, TransactionStep
<1>3. TypeOK'
  BY <1>2, RestTypeStep DEF TX!InductiveInv
<1>4. Asking' /\ Decided'
  BY <1>1, AskingStep, DecidedStep
<1>5. Stored(config)' = config'
  <2>1. \A w \in Writer : next[w] \in Ledgers(Time)
    BY <1>1 DEF TypeOK, TX!TypeOK
  <2>2. config' = config \/ \E w \in Writer : config' = Stored(next[w])
    BY <1>1, ConfigStep
  <2>3. CASE config' = config
    BY <1>1, <2>3 DEF Stored
  <2>4. ASSUME NEW w \in Writer, config' = Stored(next[w]) PROVE Stored(config') = config'
    BY <2>1, <2>4, StoredTwice
  <2> QED
    BY <2>2, <2>3, <2>4
<1> QED
  BY <1>2, <1>3, <1>4, <1>5 DEF InductiveInv

(* Every variable of clusterbook keeps its type, and the invariants above  *)
(* hold in every state: the stored ledger is one that reading it again     *)
(* does not change, and whatever a writer is about to save is what its     *)
(* handler made of what it loaded.                                         *)
THEOREM Invariance == Spec => []InductiveInv
  BY InitInv, InvStep, PTL DEF Spec

(* The types of all variables, the DNS calls and records included.         *)
THEOREM TypeCorrect == Spec => []TypeOK
<1>1. InductiveInv => TypeOK
  BY DEF InductiveInv
<1> QED
  BY <1>1, Invariance, PTL

(* clusterbook goes through the write transaction: whatever a handler, the *)
(* reclaimer, a DNS call, the clock or a crash does, is a step of          *)
(* LedgerWrite or leaves its variables alone.                              *)
THEOREM EveryStepIsTransaction == Spec => [][TX!Next]_(TX!vars)
<1>1. InductiveInv /\ [Next]_vars => [TX!Next]_(TX!vars)
  BY StepIsTransaction DEF InductiveInv
<1> QED
  BY <1>1, Invariance, PTL DEF Spec

-----------------------------------------------------------------------------
(* clusterbook as a whole implements AtomicLedger.                         *)

(* What its clients are promised: the ledger they read is the stored one,  *)
(* which starts as the one clusterbook was started with.                   *)
Served == INSTANCE AtomicLedger
  WITH Ledger <- Ledgers(Time), EmptyLedger <- Pools, Edits <- {},
       Op <- [req : Requests \cup Reclaims, now : 0..MaxNow],
       ledger <- config, call <- LW!callBar, doubt <- late # {}

(* The atomic ledger of the write transaction takes the steps of the one   *)
(* that clusterbook serves: they differ in the ledger they start with, and *)
(* kubectl edits nothing.                                                  *)
LEMMA SameAtomicSteps ==
  [LW!Atomic!Next]_(LW!Atomic!vars) => [Served!Next]_(Served!vars)
<1>1. UNCHANGED LW!Atomic!vars => UNCHANGED Served!vars
  BY DEF LW!Atomic!vars, Served!vars
<1>2. LW!Atomic!TakeEffect <=> Served!TakeEffect
  BY DEF LW!Atomic!TakeEffect, Served!TakeEffect
<1>3. \A w \in Writer : LW!Atomic!Invoke(w) <=> Served!Invoke(w)
  BY DEF LW!Atomic!Invoke, Served!Invoke
<1>4. \A w \in Writer : LW!Atomic!Commit(w) <=> Served!Commit(w)
  BY <1>2 DEF LW!Atomic!Commit, Served!Commit
<1>5. \A w \in Writer : LW!Atomic!Fail(w) <=> Served!Fail(w)
  BY DEF LW!Atomic!Fail, Served!Fail
<1>6. \A w \in Writer : LW!Atomic!GiveUp(w) <=> Served!GiveUp(w)
  BY DEF LW!Atomic!GiveUp, Served!GiveUp
<1>7. \A w \in Writer : LW!Atomic!Return(w) <=> Served!Return(w)
  BY DEF LW!Atomic!Return, Served!Return
<1>8. \A p \in Process : LW!Atomic!Crash(p) <=> Served!Crash(p)
  BY DEF LW!Atomic!Crash, Served!Crash
<1>9. LW!Atomic!TakeLateEffect <=> Served!TakeLateEffect
  BY <1>2 DEF LW!Atomic!TakeLateEffect, Served!TakeLateEffect
<1>10. LW!Atomic!Settle <=> Served!Settle
  BY DEF LW!Atomic!Settle, Served!Settle
<1>11. ~LW!Atomic!Override
  BY DEF LW!Atomic!Override
<1>12. LW!Atomic!Next => Served!Next
  BY <1>3, <1>4, <1>5, <1>6, <1>7, <1>8, <1>9, <1>10, <1>11, Zenon
     DEF LW!Atomic!Next, Served!Next
<1> QED
  BY <1>1, <1>12

(* Whatever handlers, reclaimers, replicas, faulty backends and crashes    *)
(* do, a client sees an atomic ledger (ErrLedgerConflict in                *)
(* internal/ledger.go: "Retrying the whole operation ... is safe"): every  *)
(* change is what a handler makes, at some time of the clock, of the       *)
(* ledger of that very moment; an answer of success stands for exactly one *)
(* change, a refusal or a conflict for none.                               *)
THEOREM ServesAtomicLedger == Spec => Served!Spec
<1>1. Init => Served!Init
  BY DEF Init, Served!Init, LW!callBar
<1>2. InductiveInv /\ InductiveInv' /\ [Next]_vars => [Served!Next]_(Served!vars)
  <2> SUFFICES ASSUME InductiveInv, InductiveInv', [Next]_vars
               PROVE  [Served!Next]_(Served!vars)
    OBVIOUS
  <2>1. [LW!Next]_(LW!vars)
    BY StepIsTransaction, SameSteps DEF InductiveInv
  <2>2. LW!InductiveInv /\ LW!InductiveInv'
    BY SameInvariant DEF InductiveInv
  <2>3. LW!InductiveInv /\ LW!InductiveInv' /\ [LW!Next]_(LW!vars)
          => [LW!Atomic!Next]_(LW!Atomic!vars)
    BY LW!RefinementStep, TransactionAssumptions, SourceAssumption, HomeAssumption,
       DiskAssumption, BoundAssumption DEF LW!RefinementStep, Stored
  <2> QED
    BY <2>1, <2>2, <2>3, SameAtomicSteps
<1> QED
  BY <1>1, <1>2, Invariance, PTL DEF Spec, Served!Spec

-----------------------------------------------------------------------------
(* What a successful save does to an address.                              *)

StoredInfo(e) == IF Source = "cr" THEN Reduced(e) ELSE e

(* A writer gets past its save in no other way than by the save. *)
LEMMA CommitIsSave ==
  ASSUME TypeOK, [Next]_vars, NEW w \in Writer, Committing(w)
  PROVE  Save(w)
<1>0. pc \in [Writer -> TX!Location] /\ pc[w] \in {"save", "put"} /\ pc'[w] = "saved"
  BY DEF TypeOK, TX!TypeOK, Committing
<1>1. ASSUME NEW u \in Writer, Tick(u) \/ \E r \in Requests : Receive(u, r) PROVE FALSE
  BY <1>0, <1>1 DEF Tick, Receive, TX!Request, TX!Goto
<1>2. ASSUME NEW u \in Writer, Begin(u) \/ Proceed(u), ~Save(u) PROVE FALSE
  BY <1>0, <1>2 DEF Proceed, Begin, Load, LoadError, Decide, Refuse, SaveError, SaveGet, SavePutConflict,
     SavePutError, Answer, End, DNSCall, DNSError, ledgerVars, TX!BeginLedgerWrite, TX!Load,
     TX!LoadError, TX!Decide, TX!Refuse, TX!SaveError, TX!SaveGet, TX!SavePutConflict,
     TX!SavePutLost, TX!UpdateDNS, TX!End, TX!Goto, TX!Reply
<1>3. ASSUME NEW u \in Writer, Save(u) PROVE u = w
  BY <1>0, <1>3 DEF Save, TX!SaveYAMLToDisk, TX!SavePut, TX!Goto
<1>4. ASSUME NEW p \in Process, Crash(p) PROVE FALSE
  BY <1>0, <1>4 DEF Crash, TX!Crash
<1>5. CASE Pass \/ Rest \/ UNCHANGED vars
  BY <1>0, <1>5 DEF Pass, Rest, TX!Rest, TX!vars, vars, ledgerVars
<1> QED
  BY <1>1, <1>2, <1>3, <1>4, <1>5 DEF Next

(* It replaces the very ledger its decision was made on, and changes in it *)
(* only what the request may change.                                       *)
LEMMA CommitEffect ==
  ASSUME InductiveInv, [Next]_vars, NEW w \in Writer, Committing(w)
  PROVE  /\ req[w] \in Requests \cup [kind : {"reclaim"}, now : 0..now]
         /\ next[w] \in Ledgers(Time)
         /\ loaded[w] = config /\ config' = Stored(next[w])
         /\ \E t \in 0..now : t \in 0..MaxNow /\ Allowed(req[w], t, config, next[w])
<1>1. Save(w)
  BY CommitIsSave DEF InductiveInv
<1>2. /\ TypeOK /\ Asking /\ TX!SafeToCommit /\ TX!VersionsOfMode
      /\ pc[w] \in {"save", "put"} /\ now \in 0..MaxNow
      /\ loaded[w] \in Ledgers(Time) /\ next[w] \in Ledgers(Time)
  BY DEF InductiveInv, TX!InductiveInv, TypeOK, TX!TypeOK, Committing
<1>3. version[w] = resourceVersion /\ config' = Stored(next[w])
  BY <1>1, <1>2 DEF Save, TX!SaveYAMLToDisk, TX!SavePut, TX!Apply, TX!VersionsOfMode
<1>4. loaded[w] = config
  BY <1>2, <1>3 DEF TX!SafeToCommit
<1>5. PICK t \in 0..now : next[w] \in Handle(req[w], t, loaded[w])
  BY <1>2 DEF InductiveInv, Decided
<1>6. t \in 0..MaxNow
  BY <1>2, BoundAssumption
<1>7. req[w] \in Requests \cup Reclaims /\ req[w] \in Requests \cup [kind : {"reclaim"}, now : 0..now]
  BY <1>2, AskedType DEF Asking
<1>8. Allowed(req[w], t, loaded[w], next[w])
  BY <1>2, <1>5, <1>6, <1>7, ChangeEffect
<1> QED
  BY <1>2, <1>3, <1>4, <1>6, <1>7, <1>8

(* The stored entries are as they would be read again. *)
LEMMA ConfigEntry ==
  ASSUME InductiveInv, NEW n \in Network, NEW d \in Digit
  PROVE  /\ Entry(config, n, d) \in IPInfo(Time)
         /\ StoredInfo(Entry(config, n, d)) = Entry(config, n, d)
<1>1. config \in Ledgers(Time) /\ Stored(config) = config
  BY DEF InductiveInv, TypeOK, TX!TypeOK
<1> QED
  BY <1>1, StoredEntry, EntryType, TimeFacts DEF StoredInfo

(* One address: what is stored now is what the request makes of what was   *)
(* stored before.                                                          *)
LEMMA CommitEntry ==
  ASSUME InductiveInv, [Next]_vars, NEW w \in Writer, Committing(w),
         NEW n \in Network, NEW d \in Digit, Entry(config', n, d) # Entry(config, n, d)
  PROVE  \E t \in 0..now : \E e \in IPInfo(Time) :
           /\ May(req[w], t, n, d, Entry(config, n, d), e)
           /\ Entry(config', n, d) = StoredInfo(e)
<1>1. /\ next[w] \in Ledgers(Time) /\ config' = Stored(next[w])
      /\ \E t \in 0..now : Allowed(req[w], t, config, next[w])
  BY CommitEffect
<1>2. Entry(config', n, d) = StoredInfo(Entry(next[w], n, d))
  BY <1>1, StoredEntry DEF StoredInfo
<1>3. Entry(next[w], n, d) # Entry(config, n, d)
  BY <1>2, ConfigEntry
<1>4. Entry(next[w], n, d) \in IPInfo(Time)
  BY <1>1, EntryType, TimeFacts
<1> QED
  BY <1>1, <1>2, <1>3, <1>4 DEF Allowed

(* A complete entry is stored as it is. *)
LEMMA StoredComplete ==
  ASSUME NEW e, ~isFree(e), e.cluster # NoCluster
  PROVE  StoredInfo(e) = e
  BY DEF StoredInfo, Reduced

(* No request that can be sent leaves its cluster and status out of what   *)
(* it saves.                                                               *)
LEMMA ClaimComplete ==
  ASSUME NEW r \in Requests \cup Reclaims, r.kind \in WithInfo, r.cluster # NoCluster, NEW t
  PROVE  /\ ~isFree(Claim(r, t)) /\ Claim(r, t).cluster = r.cluster
         /\ DefaultStatus(r.status) # ""
         /\ SavedStatus(r) # ""
<1>1. r.status \in Status
  BY RequestAssumption DEF Reclaims, WithInfo, WithDNS, ValidRequest
<1>2. SavedStatus(r) # "" /\ DefaultStatus(r.status) # ""
  BY <1>1, SavedStatusType
<1> QED
  BY <1>2 DEF Claim, isFree

(* reserve and ReserveIpAddresses take free addresses only: however many   *)
(* replicas write at once, a save of theirs changes only addresses that    *)
(* are free in the ledger it replaces, and makes them the caller's.        *)
THEOREM ReservesFreeOnly == Spec => ReserveTakesFreeOnly
<1>1. ASSUME InductiveInv, [Next]_vars, NEW w \in Writer, Committing(w), req[w].kind \in Kinds,
             NEW a \in Address, Entry(config', a[1], a[2]) # Entry(config, a[1], a[2])
      PROVE  /\ isFree(Entry(config, a[1], a[2]))
             /\ Entry(config', a[1], a[2]).cluster = req[w].cluster
  <2>1. a[1] \in Network /\ a[2] \in Digit
    BY DEF Address
  <2> DEFINE was == Entry(config, a[1], a[2])
  <2>2. PICK t \in 0..now, e \in IPInfo(Time) :
          May(req[w], t, a[1], a[2], was, e) /\ Entry(config', a[1], a[2]) = StoredInfo(e)
    BY <1>1, <2>1, CommitEntry
  <2> HIDE DEF was
  <2>3. MayClaim(req[w], t, a[1], a[2], was, e) \/ MayReserve(req[w], a[1], was, e)
    BY <1>1, <2>2 DEF May, MayEdit, MayRenew, MayClear, MaySet, Kinds
  <2>4. isFree(was) /\ req[w].cluster # NoCluster
    BY <1>1, <2>3 DEF MayClaim, MayReserve, Kinds
  <2>5. req[w] \in Requests \cup Reclaims /\ req[w].kind \in WithInfo
    <3>1. pc[w] # "idle"
      BY <1>1 DEF Committing
    <3> QED
      BY <1>1, <3>1, AskedType DEF InductiveInv, Kinds, WithInfo, WithDNS
  <2>6. ~isFree(e) /\ e.cluster = req[w].cluster
    <3>1. CASE MayClaim(req[w], t, a[1], a[2], was, e)
      BY <2>4, <2>5, <3>1, ClaimComplete DEF MayClaim
    <3>2. CASE MayReserve(req[w], a[1], was, e)
      BY <2>4, <2>5, <3>2, ClaimComplete DEF MayReserve, isFree
    <3> QED
      BY <2>3, <3>1, <3>2
  <2> QED
    BY <2>2, <2>4, <2>6, StoredComplete DEF was
<1>2. InductiveInv /\ [Next]_vars =>
        [\A w \in Writer : Committing(w) /\ req[w].kind \in Kinds =>
           \A a \in Address : Entry(config', a[1], a[2]) # Entry(config, a[1], a[2]) =>
             /\ isFree(Entry(config, a[1], a[2]))
             /\ Entry(config', a[1], a[2]).cluster = req[w].cluster]_vars
  BY <1>1
<1> QED
  BY <1>2, Invariance, PTL DEF Spec, ReserveTakesFreeOnly

(* The reclaimer frees only addresses whose lease has run out in the       *)
(* ledger it replaces, by the time it saves.                               *)
THEOREM ReclaimsOnlyExpired == Spec => ReclaimsExpiredOnly
<1>1. ASSUME InductiveInv, [Next]_vars, NEW w \in Writer, Committing(w), req[w].kind = "reclaim",
             NEW a \in Address, Entry(config', a[1], a[2]) # Entry(config, a[1], a[2])
      PROVE  Entry(config, a[1], a[2]).lease \in 1..now
  <2>1. a[1] \in Network /\ a[2] \in Digit
    BY DEF Address
  <2> DEFINE was == Entry(config, a[1], a[2])
  <2>2. PICK t \in 0..now, e \in IPInfo(Time) : May(req[w], t, a[1], a[2], was, e)
    BY <1>1, <2>1, CommitEntry
  <2> HIDE DEF was
  <2>3. was.lease \in 1..req[w].now
    BY <1>1, <2>2 DEF May, MayClaim, MayReserve, MayEdit, MayRenew, MayClear, MaySet
  <2>4. req[w].now \in 0..now
    <3>1. req[w] \in Requests \cup [kind : {"reclaim"}, now : 0..now]
      BY <1>1, CommitEffect
    <3>2. req[w] \notin Requests
      BY <1>1, RequestAssumption DEF ValidRequest, WithKey, WithAddress
    <3> QED
      BY <3>1, <3>2
  <2>5. now \in Nat
    BY <1>1, BoundAssumption DEF InductiveInv, TypeOK
  <2> QED
    BY <2>3, <2>4, <2>5 DEF was
<1>2. InductiveInv /\ [Next]_vars =>
        [\A w \in Writer : Committing(w) /\ req[w].kind = "reclaim" =>
           \A a \in Address : Entry(config', a[1], a[2]) # Entry(config, a[1], a[2]) =>
             Entry(config, a[1], a[2]).lease \in 1..now]_vars
  BY <1>1
<1> QED
  BY <1>2, Invariance, PTL DEF Spec, ReclaimsExpiredOnly

(* A holder loses an address only to a successful save of a request that   *)
(* names the address, or of the reclaimer when the lease has run out.      *)
THEOREM HoldersKeepTheirs == Spec => HolderKeepsAddress
<1> DEFINE Lost(a) ==
      LET was == Entry(config, a[1], a[2])
          is == Entry(config', a[1], a[2])
      IN  was.cluster # NoCluster /\ is.cluster # was.cluster /\ ~isFree(was) =>
            \E w \in Writer : Committing(w) /\
              (Names(req[w], a) \/ (req[w].kind = "reclaim" /\ was.lease \in 1..now))
<1>1. ASSUME InductiveInv, [Next]_vars, NEW a \in Address,
             ~isFree(Entry(config, a[1], a[2])),
             Entry(config', a[1], a[2]).cluster # Entry(config, a[1], a[2]).cluster
      PROVE  \E w \in Writer : Committing(w) /\
               (Names(req[w], a) \/ (req[w].kind = "reclaim" /\ Entry(config, a[1], a[2]).lease \in 1..now))
  <2> DEFINE was == Entry(config, a[1], a[2])
  <2>1. a[1] \in Network /\ a[2] \in Digit /\ Entry(config', a[1], a[2]) # was
    BY <1>1 DEF Address
  <2>2. PICK w \in Writer : Committing(w)
    BY <1>1, <2>1, ConfigStep DEF InductiveInv
  <2>3. PICK t \in 0..now, e \in IPInfo(Time) : May(req[w], t, a[1], a[2], was, e)
    BY <1>1, <2>1, <2>2, CommitEntry
  <2>4. CASE req[w].kind = "reclaim"
    <3>1. was.lease \in 1..req[w].now
      BY <2>3, <2>4 DEF May, MayClaim, MayReserve, MayEdit, MayRenew, MayClear, MaySet
    <3>2. req[w].now \in 0..now
      <4>1. req[w] \in Requests \cup [kind : {"reclaim"}, now : 0..now]
        BY <1>1, <2>2, CommitEffect
      <4>2. req[w] \notin Requests
        BY <2>4, RequestAssumption DEF ValidRequest, WithKey, WithAddress
      <4> QED
        BY <4>1, <4>2
    <3>3. now \in Nat
      BY <1>1, BoundAssumption DEF InductiveInv, TypeOK
    <3>4. was.lease \in 1..now
      BY <3>1, <3>2, <3>3
    <3> QED
      BY <2>2, <2>4, <3>4
  <2>5. CASE req[w].kind # "reclaim"
    <3>1. ~isFree(was)
      BY <1>1
    <3> HIDE DEF was
    <3>2. Names(req[w], a)
      BY <2>3, <2>5, <3>1 DEF Names, May, MayClaim, MayReserve, MayEdit, MayRenew, MayClear, MaySet
    <3> QED
      BY <2>2, <3>2
  <2> QED
    BY <2>4, <2>5
<1>2. InductiveInv /\ [Next]_vars => [\A a \in Address : Lost(a)]_vars
  BY <1>1
<1> QED
  BY <1>2, Invariance, PTL DEF Spec, HolderKeepsAddress

(* An address that becomes free has no lease left, unless a release on the *)
(* dashboard or SetClusterInfo freed it.                                   *)
THEOREM LeaseGoesWithHolder == Spec => LeaseEndsWithAssignment
<1>1. ASSUME InductiveInv, [Next]_vars, NEW w \in Writer, Committing(w),
             req[w].kind \notin {"htmx release", "SetClusterInfo"}, NEW a \in Address,
             ~isFree(Entry(config, a[1], a[2])), isFree(Entry(config', a[1], a[2]))
      PROVE  Entry(config', a[1], a[2]).lease = 0
  <2> DEFINE was == Entry(config, a[1], a[2])
             is == Entry(config', a[1], a[2])
  <2>1. a[1] \in Network /\ a[2] \in Digit /\ is # was
    BY <1>1 DEF Address
  <2>2. PICK t \in 0..now, e \in IPInfo(Time) :
          May(req[w], t, a[1], a[2], was, e) /\ is = StoredInfo(e)
    BY <1>1, <2>1, CommitEntry
  <2>3. was \in IPInfo(Time) /\ StoredInfo(was) = was
    BY <1>1, <2>1, ConfigEntry
  <2>4. ~isFree(was) /\ isFree(is)
    BY <1>1
  <2>5. pc[w] # "idle"
    BY <1>1 DEF Committing
  <2>6. req[w] \in Requests \cup Reclaims
    BY <1>1, <2>5, AskedType DEF InductiveInv
  <2> HIDE DEF was, is
  <2>7. Source = "cr" => was.cluster # NoCluster
    BY <2>3, <2>4 DEF StoredInfo, Reduced, isFree, Blank
  <2>8. CASE MayClaim(req[w], t, a[1], a[2], was, e)
    BY <2>2, <2>4, <2>6, <2>8, ClaimComplete, StoredComplete DEF MayClaim, WithInfo, WithDNS
  <2>9. CASE MayReserve(req[w], a[1], was, e)
    BY <2>4, <2>9 DEF MayReserve
  <2>10. CASE MayEdit(req[w], a[1], a[2], was, e)
    <3>1. e = Edited(req[w], was) /\ req[w].cluster # NoCluster /\ req[w].kind \in WithInfo
      BY <2>10 DEF MayEdit, Complete, WithInfo, WithDNS
    <3>2. e.status = SavedStatus(req[w]) /\ e.cluster = req[w].cluster
      BY <2>3, <3>1 DEF Edited, IPInfo
    <3>3. ~isFree(e) /\ e.cluster # NoCluster
      BY <2>6, <3>1, <3>2, ClaimComplete DEF isFree
    <3> QED
      BY <2>2, <2>4, <3>3, StoredComplete
  <2>11. CASE MayRenew(req[w], t, a[1], a[2], was, e)
    <3>1. e.status = was.status /\ e.cluster = was.cluster
      BY <2>3, <2>11 DEF MayRenew, IPInfo
    <3>2. ~isFree(StoredInfo(e))
      BY <2>4, <2>7, <3>1 DEF StoredInfo, Reduced, isFree
    <3> QED
      BY <2>2, <2>4, <3>2
  <2>12. CASE MayClear(req[w], a[1], a[2], was, e)
    <3>1. is = StoredInfo(Blank)
      BY <2>2, <2>12 DEF MayClear
    <3>2. StoredInfo(Blank).lease = 0
      BY DEF StoredInfo, Reduced, Blank
    <3> QED
      BY <3>1, <3>2 DEF is
  <2>13. ~MaySet(req[w], a[1], a[2], was, e)
    BY <1>1 DEF MaySet
  <2> QED
    BY <2>2, <2>8, <2>9, <2>10, <2>11, <2>12, <2>13 DEF May, is
<1>2. InductiveInv /\ [Next]_vars =>
        [\A w \in Writer :
           Committing(w) /\ req[w].kind \notin {"htmx release", "SetClusterInfo"} =>
             \A a \in Address :
               ~isFree(Entry(config, a[1], a[2])) /\ isFree(Entry(config', a[1], a[2])) =>
                 Entry(config', a[1], a[2]).lease = 0]_vars
  BY <1>1
<1> QED
  BY <1>2, Invariance, PTL DEF Spec, LeaseEndsWithAssignment

-----------------------------------------------------------------------------
(* The DNS calls, while one process writes.                                *)

(* The call c creates no record or one that the ledger l asks for. *)
Due(l, c) == c.task.op = "create" => Shows(l, c.task.addr, c.task.cluster)

(* Right after a save every call that is to be made is due. *)
LEMMA SaveCallsAreDue ==
  ASSUME InductiveInv, [Next]_vars, NEW w \in Writer, Save(w)
  PROVE  work' = [work EXCEPT ![w] = work'[w]] /\ \A i \in DOMAIN work'[w] : Due(config', work'[w][i])
<1>1. PICK tasks \in DNSWork(req[w], loaded[w], next[w]) :
        work' = [work EXCEPT ![w] = OnEveryProvider(tasks)]
  BY DEF Save
<1>2. /\ pc[w] \in {"save", "put"} /\ config' = Stored(next[w])
      /\ work \in [Writer -> Seq(Call)] /\ now \in 0..MaxNow
      /\ loaded[w] \in Ledgers(Time) /\ next[w] \in Ledgers(Time)
  BY DEF Save, TX!SaveYAMLToDisk, TX!SavePut, TX!Apply, InductiveInv, TypeOK, TX!TypeOK
<1>3. PICK t \in 0..now : next[w] \in Handle(req[w], t, loaded[w])
  BY <1>2 DEF InductiveInv, Decided
<1>4. t \in 0..MaxNow
  BY <1>2, BoundAssumption
<1>5. req[w] \in Requests \cup Reclaims
  BY <1>2, AskedType DEF InductiveInv
<1>6. /\ tasks \in Seq(Task)
      /\ \A i \in DOMAIN tasks :
           tasks[i].op = "create" => Shows(next[w], tasks[i].addr, tasks[i].cluster)
  BY <1>1, <1>2, <1>3, <1>4, <1>5, DNSWorkTasks
<1>7. ASSUME NEW k \in Task, k.op = "create", Shows(next[w], k.addr, k.cluster)
      PROVE  Shows(config', k.addr, k.cluster)
  <2>1. k.addr \in Network \X Digit /\ k.cluster \in Cluster
    BY <1>7 DEF Task, Address
  <2> DEFINE e == Entry(next[w], k.addr[1], k.addr[2])
  <2>2. e.cluster = k.cluster /\ e.status \in DNSStatus
    BY <1>7 DEF Shows
  <2>3. ~isFree(e) /\ e.cluster # NoCluster
    BY <2>1, <2>2, StatusValues, NameAssumption DEF isFree
  <2>4. Entry(config', k.addr[1], k.addr[2]) = StoredInfo(e)
    BY <1>2, <2>1, StoredEntry DEF StoredInfo
  <2> HIDE DEF e
  <2>5. StoredInfo(e) = e
    BY <2>3, StoredComplete
  <2> QED
    BY <2>2, <2>4, <2>5 DEF Shows
<1>8. \A i \in DOMAIN tasks :
        tasks[i] \in Task /\ (tasks[i].op = "create" => Shows(config', tasks[i].addr, tasks[i].cluster))
  BY <1>6, <1>7
<1>9. work'[w] = OnEveryProvider(tasks)
  BY <1>1, <1>2
<1>10. \A i \in DOMAIN OnEveryProvider(tasks) :
         \E j \in DOMAIN tasks : OnEveryProvider(tasks)[i].task = tasks[j]
  BY <1>6, OnEveryProviderCalls
<1>11. \A i \in DOMAIN OnEveryProvider(tasks) : Due(config', OnEveryProvider(tasks)[i])
  BY <1>8, <1>10 DEF Due
<1> QED
  BY <1>1, <1>9, <1>11

(* Nobody else saves before the calls are made, because the lock is held.  *)
LEMMA CallsAreDueStep ==
  ASSUME OneProcess, InductiveInv, CallsAreDue, [Next]_vars
  PROVE  CallsAreDue'
<1> DEFINE D(u) == /\ work[u] # <<>> => pc[u] = "saved"
                   /\ \A i \in DOMAIN work[u] : Due(config, work[u][i])
<1>0. /\ pc \in [Writer -> TX!Location] /\ work \in [Writer -> Seq(Call)]
      /\ TypeOK /\ \A u \in Writer : D(u)
  BY DEF CallsAreDue, Due, Shows, HadDNS, hasDNSSuffix, InductiveInv, TypeOK, TX!TypeOK
<1>1. SUFFICES \A u \in Writer : D(u)'
  BY DEF CallsAreDue, Due, Shows, HadDNS, hasDNSSuffix
<1>2. ASSUME config' = config, work' = work, \A u \in Writer : pc[u] = "saved" => pc'[u] = "saved"
      PROVE  \A u \in Writer : D(u)'
  BY <1>0, <1>2
<1>3. ASSUME NEW w \in Writer, Save(w) PROVE \A u \in Writer : D(u)'
  <2>1. pc[w] \in {"save", "put"} /\ pc' = [pc EXCEPT ![w] = "saved"]
    BY <1>3 DEF Save, TX!SaveYAMLToDisk, TX!SavePut, TX!Goto
  <2>2. ASSUME NEW u \in Writer, u # w PROVE D(u)'
    <3>1. pc[u] # "saved"
      <4>1. Home[u] = Home[w]
        BY HomeAssumption DEF OneProcess
      <4>2. TX!MutualExclusion
        BY DEF InductiveInv, TX!InductiveInv
      <4> QED
        BY <2>1, <2>2, <4>1, <4>2 DEF TX!MutualExclusion, TX!Holds, TX!Critical
    <3>2. work[u] = <<>>
      BY <1>0, <3>1
    <3>3. work'[u] = work[u]
      BY <1>0, <1>3, <2>2, SaveCallsAreDue
    <3>4. DOMAIN work'[u] = {} /\ work'[u] = <<>>
      BY <3>2, <3>3
    <3> QED
      BY <3>4
  <2>3. D(w)'
    <3>1. pc'[w] = "saved"
      BY <1>0, <2>1
    <3>2. \A i \in DOMAIN work'[w] : Due(config', work'[w][i])
      BY <1>3, SaveCallsAreDue
    <3> QED
      BY <3>1, <3>2
  <2> QED
    BY <2>2, <2>3
<1>4. ASSUME NEW w \in Writer, DNSCall(w) \/ DNSError(w) PROVE \A u \in Writer : D(u)'
  <2>1. pc[w] = "saved" /\ work[w] # <<>> /\ work' = [work EXCEPT ![w] = Tail(@)] /\ UNCHANGED <<pc, config>>
    BY <1>4 DEF DNSCall, DNSError, ledgerVars
  <2>2. D(w)'
    <3>1. work'[w] = Tail(work[w]) /\ work[w] \in Seq(Call)
      BY <1>0, <2>1
    <3>2. \A i \in DOMAIN Tail(work[w]) : i + 1 \in DOMAIN work[w] /\ Tail(work[w])[i] = work[w][i + 1]
      BY <2>1, <3>1
    <3> QED
      BY <1>0, <2>1, <3>1, <3>2
  <2>3. ASSUME NEW u \in Writer, u # w PROVE D(u)'
    <3>1. work'[u] = work[u]
      BY <1>0, <2>1, <2>3
    <3> QED
      BY <1>0, <2>1, <3>1
  <2> QED
    BY <2>2, <2>3
<1>5. ASSUME NEW ws, config' = config, Drop(ws), \A u \in Writer \ ws : pc'[u] = pc[u]
      PROVE  \A u \in Writer : D(u)'
  <2>1. ASSUME NEW u \in Writer, u \in ws PROVE D(u)'
    <3>1. work'[u] = <<>>
      BY <1>5, <2>1 DEF Drop
    <3> QED
      BY <3>1
  <2>2. ASSUME NEW u \in Writer, u \notin ws PROVE D(u)'
    <3>1. work'[u] = work[u] /\ pc'[u] = pc[u]
      BY <1>5, <2>2 DEF Drop
    <3> QED
      BY <1>0, <1>5, <3>1
  <2> QED
    BY <2>1, <2>2
<1>6. ASSUME NEW w \in Writer, Answer(w) PROVE \A u \in Writer : D(u)'
  <2>1. work[w] = <<>> /\ work' = work /\ config' = config /\ pc' = [pc EXCEPT ![w] = "replied"]
    BY <1>6 DEF Answer, Keep, TX!UpdateDNS, TX!Reply, TX!Goto, TX!storeVars
  <2> QED
    BY <1>0, <2>1
<1>7. ASSUME NEW w \in Writer, End(w) PROVE \A u \in Writer : D(u)'
  BY <1>0, <1>5, <1>7 DEF End, TX!End, TX!Goto, TX!storeVars
<1>8. ASSUME NEW p \in Process, Crash(p) PROVE \A u \in Writer : D(u)'
  <2>1. config' = config /\ Drop({w \in Writer : Home[w] = p})
    BY <1>8 DEF Crash, TX!Crash
  <2>2. \A u \in Writer \ {w \in Writer : Home[w] = p} : pc'[u] = pc[u]
    BY <1>8 DEF Crash, TX!Crash
  <2> QED
    BY <1>5, <2>1, <2>2
<1>9. ASSUME NEW w \in Writer, Tick(w) \/ (\E r \in Requests : Receive(w, r)) \/ Begin(w)
      PROVE \A u \in Writer : D(u)'
  BY <1>0, <1>2, <1>9 DEF Tick, Receive, Begin, Keep, TX!Request, TX!BeginLedgerWrite, TX!Goto, TX!storeVars
<1>10. ASSUME NEW w \in Writer, Load(w) \/ LoadError(w) \/ Decide(w) \/ Refuse(w) \/ SaveError(w)
      PROVE \A u \in Writer : D(u)'
  BY <1>0, <1>2, <1>10 DEF Load, LoadError, Decide, Refuse, SaveError, Keep,
     TX!Load, TX!LoadError, TX!Decide, TX!Refuse, TX!SaveError, TX!Goto, TX!Reply, TX!storeVars
<1>11. ASSUME NEW w \in Writer, SaveGet(w) \/ SavePutConflict(w) \/ SavePutError(w)
      PROVE \A u \in Writer : D(u)'
  BY <1>0, <1>2, <1>11 DEF SaveGet, SavePutConflict, SavePutError, Keep, TX!SaveGet,
     TX!SavePutConflict, TX!SavePutLost, TX!Goto, TX!Reply, TX!storeVars
<1>12. CASE Pass \/ Rest \/ UNCHANGED vars
  BY <1>2, <1>12 DEF Pass, Rest, Keep, TX!Rest, TX!vars, TX!storeVars, vars, ledgerVars
<1> QED
  BY <1>3, <1>4, <1>6, <1>7, <1>8, <1>9, <1>10, <1>11, <1>12 DEF Next, Proceed

(* Only a DNS call changes records, and only those of one cluster at one   *)
(* provider.                                                               *)
LEMMA RecordsStep ==
  ASSUME [Next]_vars, records' # records
  PROVE  \E w \in Writer :
           /\ work[w] # <<>>
           /\ records' = [records EXCEPT ![Head(work[w]).provider] = Performed(Head(work[w]).task, @)]
           /\ config' = config
<1>1. ASSUME NEW w \in Writer, DNSCall(w) \/ DNSError(w)
      PROVE  /\ work[w] # <<>> /\ config' = config
             /\ records' = [records EXCEPT ![Head(work[w]).provider] = Performed(Head(work[w]).task, @)]
  BY <1>1 DEF DNSCall, DNSError, ledgerVars
<1>2. \E w \in Writer : DNSCall(w) \/ DNSError(w)
  BY DEF Next, Proceed, Tick, Receive, Begin, Load, LoadError, Decide, Refuse, SaveError, SaveGet,
     SavePutConflict, SavePutError, Save, Answer, End, Crash, Pass, Rest, Keep, vars
<1> QED
  BY <1>1, <1>2

(* While one process writes, a record that is created is the one that the  *)
(* stored ledger asks for at that moment: the lock is held from the load   *)
(* to the last DNS call.                                                   *)
THEOREM RecordsFollowLedger ==
  ASSUME OneProcess
  PROVE  Spec => DNSFollowsLedger
<1> DEFINE Follows(p, c) ==
      records'[p][c] # records[p][c] /\ records'[p][c] # NoRecord =>
        LET e == Entry(config, records'[p][c][1], records'[p][c][2])
        IN  e.cluster = c /\ HadDNS(e)
<1>1. ASSUME InductiveInv, CallsAreDue, [Next]_vars, NEW p \in Provider, NEW c \in Cluster,
             records'[p][c] # records[p][c], records'[p][c] # NoRecord
      PROVE  Shows(config, records'[p][c], c)
  <2>1. PICK w \in Writer :
          /\ work[w] # <<>>
          /\ records' = [records EXCEPT ![Head(work[w]).provider] = Performed(Head(work[w]).task, @)]
    BY <1>1, RecordsStep
  <2> DEFINE q == Head(work[w]).provider
             t == Head(work[w]).task
  <2>2. /\ records \in [Provider -> [Cluster -> Address \cup {NoRecord}]]
        /\ work[w] \in Seq(Call)
    BY <1>1 DEF InductiveInv, TypeOK
  <2>3. Head(work[w]) \in Call /\ 1 \in DOMAIN work[w] /\ Head(work[w]) = work[w][1]
    BY <2>1, <2>2
  <2>4. q \in Provider /\ t \in Task
    BY <2>3 DEF Call
  <2>5. t.op = "create" => Shows(config, t.addr, t.cluster)
    BY <1>1, <2>3 DEF CallsAreDue, Shows, HadDNS, hasDNSSuffix
  <2>6. records' = [records EXCEPT ![q] = Performed(t, @)]
    BY <2>1
  <2> HIDE DEF q, t
  <2>7. p = q /\ records'[p] = Performed(t, records[p])
    BY <1>1, <2>2, <2>4, <2>6
  <2>8. t.cluster = c /\ t.op = "create" /\ records'[p][c] = t.addr
    BY <1>1, <2>2, <2>4, <2>7 DEF Performed, Result
  <2> QED
    BY <2>5, <2>8
<1>2. InductiveInv /\ CallsAreDue /\ [Next]_vars =>
        [\A p \in Provider, c \in Cluster : Follows(p, c)]_vars
  BY <1>1 DEF Shows, HadDNS, hasDNSSuffix
<1>3. InductiveInv /\ CallsAreDue /\ [Next]_vars => CallsAreDue'
  BY CallsAreDueStep
<1> QED
  BY <1>2, <1>3, InitInv, Invariance, PTL DEF Spec, DNSFollowsLedger

-----------------------------------------------------------------------------
(* Which calls follow a save.                                              *)

(* The record that is withdrawn and the one that is created are in the     *)
(* list, and nothing else is.                                              *)
LEMMA RecordChangesAll ==
  ASSUME NEW r, NEW previous, NEW a
  PROVE  LET tasks == RecordChanges(r, previous, a)
             del == DeleteRecord(previous.cluster)
             cre == CreateRecord(r.cluster, a[1], a[2])
         IN  /\ \A i \in DOMAIN tasks :
                  (Withdrawn(r, previous) /\ tasks[i] = del) \/ (Created(r) /\ tasks[i] = cre)
             /\ Withdrawn(r, previous) => \E i \in DOMAIN tasks : tasks[i] = del
             /\ Created(r) => \E i \in DOMAIN tasks : tasks[i] = cre
<1> DEFINE tasks == RecordChanges(r, previous, a)
           del == DeleteRecord(previous.cluster)
           cre == CreateRecord(r.cluster, a[1], a[2])
<1>1. tasks = (IF Withdrawn(r, previous) THEN <<del>> ELSE <<>>) \o (IF Created(r) THEN <<cre>> ELSE <<>>)
  BY DEF RecordChanges
<1> HIDE DEF tasks, del, cre
<1>2. CASE Withdrawn(r, previous) /\ Created(r)
  <2>1. tasks = <<del>> \o <<cre>>
    BY <1>1, <1>2
  <2>2. DOMAIN tasks = 1..2 /\ tasks[1] = del /\ tasks[2] = cre
    <3>1. <<del>> \in Seq({del, cre}) /\ <<cre>> \in Seq({del, cre})
      OBVIOUS
    <3>2. Len(<<del>>) = 1 /\ Len(<<cre>>) = 1 /\ <<del>>[1] = del /\ <<cre>>[1] = cre
      OBVIOUS
    <3> QED
      BY <2>1, <3>1, <3>2, ConcatProperties, LenProperties
  <2> QED
    BY <1>2, <2>2 DEF tasks, del, cre
<1>3. CASE Withdrawn(r, previous) /\ ~Created(r)
  <2>1. tasks = <<del>>
    BY <1>1, <1>3
  <2>2. DOMAIN tasks = 1..1 /\ tasks[1] = del
    BY <2>1
  <2> QED
    BY <1>3, <2>2 DEF tasks, del, cre
<1>4. CASE ~Withdrawn(r, previous) /\ Created(r)
  <2>1. tasks = <<cre>>
    BY <1>1, <1>4
  <2>2. DOMAIN tasks = 1..1 /\ tasks[1] = cre
    BY <2>1
  <2> QED
    BY <1>4, <2>2 DEF tasks, del, cre
<1>5. CASE ~Withdrawn(r, previous) /\ ~Created(r)
  <2>1. tasks = <<>>
    BY <1>1, <1>5
  <2>2. DOMAIN tasks = {}
    BY <2>1
  <2> QED
    BY <1>5, <2>2 DEF tasks, del, cre
<1> QED
  BY <1>2, <1>3, <1>4, <1>5

(* A quotient and a remainder are unique. *)
LEMMA DivisionUnique ==
  ASSUME NEW k \in Nat, NEW q \in Int, NEW x \in Int, NEW m \in 0..(k - 1), NEW y \in 0..(k - 1),
         k * q + m = k * x + y
  PROVE  q = x /\ m = y
<1>1. ASSUME NEW u \in Int, NEW v \in Int, u < v PROVE k * u + k <= k * v
  <2>1. v - u \in Nat /\ v - u >= 1
    BY <1>1
  <2>2. k * (v - u) >= k
    BY <2>1
  <2>3. k * (v - u) = k * v - k * u
    OBVIOUS
  <2> QED
    BY <2>2, <2>3
<1>2. k * q \in Int /\ k * x \in Int
  OBVIOUS
<1>3. ~(q < x)
  <2>1. SUFFICES ASSUME q < x PROVE FALSE
    OBVIOUS
  <2>2. k * q + k <= k * x
    BY <1>1, <2>1
  <2> QED
    BY <1>2, <2>2
<1>4. ~(x < q)
  <2>1. SUFFICES ASSUME x < q PROVE FALSE
    OBVIOUS
  <2>2. k * x + k <= k * q
    BY <1>1, <2>1
  <2> QED
    BY <1>2, <2>2
<1>5. q = x
  BY <1>3, <1>4
<1> QED
  BY <1>2, <1>5

(* What \div and % give. *)
LEMMA Quotient ==
  ASSUME NEW k \in Nat, NEW n \in Int, NEW x \in Int, NEW y \in 0..(k - 1), n = k * x + y
  PROVE  n \div k = x /\ n % k = y
<1> DEFINE q == n \div k
           m == n % k
<1>1. k > 0
  OBVIOUS
<1>2. q \in Int /\ m \in 0..(k - 1) /\ n = k * q + m
  BY <1>1
<1> HIDE DEF q, m
<1>3. k * q + m = k * x + y
  BY <1>2
<1>4. q = x /\ m = y
  BY <1>2, <1>3, DivisionUnique
<1> QED
  BY <1>4 DEF q, m

(* No provider is left out of any task. *)
LEMMA OnEveryProviderAll ==
  ASSUME NEW tasks \in Seq(Task), NEW j \in DOMAIN tasks, NEW p \in Provider
  PROVE  \E i \in DOMAIN OnEveryProvider(tasks) :
           OnEveryProvider(tasks)[i] = [provider |-> p, task |-> tasks[j]]
<1> DEFINE L == Len(tasks)
           K == Len(Providers)
<1>1. PICK k \in DOMAIN Providers : Providers[k] = p
  BY DEF Provider
<1>2. /\ L \in Nat /\ K \in Nat /\ j \in 1..L /\ k \in 1..K
  BY ProvidersAssumption
<1>3. OnEveryProvider(tasks) = [i \in 1..(L * K) |->
        [provider |-> Providers[1 + ((i - 1) % K)], task |-> tasks[1 + ((i - 1) \div K)]]]
  BY DEF OnEveryProvider
<1> HIDE DEF L, K
<1> DEFINE i == (j - 1) * K + k
           q == (i - 1) \div K
           m == (i - 1) % K
<1>4. i \in 1..(L * K)
  <2>1. (j - 1) * K \in Nat
    BY <1>2
  <2>2. (j - 1) * K + K = j * K /\ j * K <= L * K
    BY <1>2
  <2> QED
    BY <1>2, <2>1, <2>2
<1>5. q = j - 1 /\ m = k - 1
  <2>1. i - 1 \in Int /\ j - 1 \in Int /\ k - 1 \in 0..(K - 1) /\ i - 1 = K * (j - 1) + (k - 1)
    BY <1>2, <1>4
  <2> HIDE DEF i
  <2> QED
    BY <1>2, <2>1, Quotient
<1> HIDE DEF q, m
<1>6. OnEveryProvider(tasks)[i] = [provider |-> Providers[1 + m], task |-> tasks[1 + q]]
  <2> HIDE DEF i
  <2> QED
    BY <1>3, <1>4 DEF q, m
<1>7. 1 + m = k /\ 1 + q = j
  BY <1>2, <1>5
<1>8. i \in DOMAIN OnEveryProvider(tasks)
  BY <1>3, <1>4
<1> QED
  BY <1>1, <1>6, <1>7, <1>8

(* After the save of w, every task has a call to every provider pending,   *)
(* and every pending call is one of the tasks.                             *)
LEMMA SaveCalls ==
  ASSUME InductiveInv, [Next]_vars, NEW w \in Writer, Save(w)
  PROVE  \E tasks \in DNSWork(req[w], loaded[w], next[w]) :
           /\ tasks \in Seq(Task)
           /\ \A p \in Provider, j \in DOMAIN tasks : Pending(w, p, tasks[j].cluster)'
           /\ \A i \in DOMAIN work'[w] : \E j \in DOMAIN tasks : work'[w][i].task = tasks[j]
<1>1. PICK tasks \in DNSWork(req[w], loaded[w], next[w]) :
        work' = [work EXCEPT ![w] = OnEveryProvider(tasks)]
  BY DEF Save
<1>2. /\ pc[w] \in {"save", "put"} /\ work \in [Writer -> Seq(Call)] /\ now \in 0..MaxNow
      /\ loaded[w] \in Ledgers(Time)
  BY DEF Save, TX!SaveYAMLToDisk, TX!SavePut, InductiveInv, TypeOK, TX!TypeOK
<1>3. PICK t \in 0..now : next[w] \in Handle(req[w], t, loaded[w])
  BY <1>2 DEF InductiveInv, Decided
<1>4. t \in 0..MaxNow /\ req[w] \in Requests \cup Reclaims
  BY <1>2, BoundAssumption, AskedType DEF InductiveInv
<1>5. tasks \in Seq(Task)
  BY <1>1, <1>2, <1>3, <1>4, DNSWorkTasks
<1>6. work'[w] = OnEveryProvider(tasks)
  BY <1>1, <1>2
<1>7. ASSUME NEW p \in Provider, NEW j \in DOMAIN tasks PROVE Pending(w, p, tasks[j].cluster)'
  <2>1. PICK i \in DOMAIN OnEveryProvider(tasks) :
          OnEveryProvider(tasks)[i] = [provider |-> p, task |-> tasks[j]]
    BY <1>5, OnEveryProviderAll
  <2>2. i \in DOMAIN work'[w] /\ work'[w][i].provider = p /\ work'[w][i].task = tasks[j]
    BY <1>6, <2>1
  <2> QED
    BY <2>2 DEF Pending
<1>8. \A i \in DOMAIN work'[w] : \E j \in DOMAIN tasks : work'[w][i].task = tasks[j]
  BY <1>5, <1>6, OnEveryProviderCalls
<1> QED
  BY <1>1, <1>5, <1>7, <1>8

(* A call changes the one record that it is for, and stays the only one    *)
(* that is taken off the list.                                             *)
LEMMA CallEffect ==
  ASSUME TypeOK, NEW w \in Writer, work[w] # <<>>, work' = [work EXCEPT ![w] = Tail(@)],
         records' = [records EXCEPT ![Head(work[w]).provider] = Performed(Head(work[w]).task, @)],
         NEW p \in Provider, NEW c \in Cluster
  PROVE  \/ records'[p][c] = records[p][c] /\ (Pending(w, p, c) => Pending(w, p, c)')
         \/ /\ 1 \in DOMAIN work[w] /\ work[w][1].provider = p /\ work[w][1].task.cluster = c
            /\ records'[p][c] = Result(work[w][1].task)
<1> DEFINE q == Head(work[w]).provider
           t == Head(work[w]).task
<1>1. /\ records \in [Provider -> [Cluster -> Address \cup {NoRecord}]]
      /\ work[w] \in Seq(Call) /\ work \in [Writer -> Seq(Call)]
  BY DEF TypeOK
<1>2. Head(work[w]) \in Call /\ 1 \in DOMAIN work[w] /\ Head(work[w]) = work[w][1]
  BY <1>1
<1>3. q \in Provider /\ t \in Task /\ q = work[w][1].provider /\ t = work[w][1].task
  BY <1>2 DEF Call
<1>4. records' = [records EXCEPT ![q] = Performed(t, @)]
  OBVIOUS
<1> HIDE DEF q, t
<1>5. CASE q = p /\ t.cluster = c
  <2>1. c # NoCluster
    BY NameAssumption
  <2>2. records'[p] = Performed(t, records[p])
    BY <1>1, <1>4, <1>5
  <2>3. Performed(t, records[p]) = [records[p] EXCEPT ![c] = Result(t)]
    BY <1>5, <2>1 DEF Performed
  <2>4. records'[p][c] = Result(t)
    BY <1>1, <2>2, <2>3
  <2> QED
    BY <1>2, <1>3, <1>5, <2>4
<1>6. CASE ~(q = p /\ t.cluster = c)
  <2>1. records'[p][c] = records[p][c]
    <3>1. CASE q # p
      BY <1>1, <1>3, <1>4, <3>1
    <3>2. CASE q = p /\ t.cluster # c
      <4>1. records'[p] = Performed(t, records[p])
        BY <1>1, <1>4, <3>2
      <4> QED
        BY <1>1, <3>2, <4>1 DEF Performed
    <3> QED
      BY <1>6, <3>1, <3>2
  <2>2. ASSUME NEW i \in DOMAIN work[w], work[w][i].provider = p, work[w][i].task.cluster = c
        PROVE  Pending(w, p, c)'
    <3>1. i # 1 /\ i \in 1..Len(work[w])
      BY <1>1, <1>3, <1>6, <2>2
    <3>2. work'[w] = Tail(work[w]) /\ i - 1 \in DOMAIN Tail(work[w]) /\ Tail(work[w])[i - 1] = work[w][i]
      BY <1>1, <3>1
    <3> QED
      BY <2>2, <3>2 DEF Pending
  <2> QED
    BY <2>1, <2>2 DEF Pending
<1> QED
  BY <1>5, <1>6

(* The calls that remain are among those there were. *)
LEMMA RemainingCalls ==
  ASSUME TypeOK, NEW w \in Writer, work[w] # <<>>, work' = [work EXCEPT ![w] = Tail(@)]
  PROVE  \A i \in DOMAIN work'[w] : \E j \in DOMAIN work[w] : work'[w][i] = work[w][j]
<1>1. work[w] \in Seq(Call) /\ work'[w] = Tail(work[w])
  BY DEF TypeOK
<1>2. \A i \in DOMAIN Tail(work[w]) : i + 1 \in DOMAIN work[w] /\ Tail(work[w])[i] = work[w][i + 1]
  BY <1>1
<1> QED
  BY <1>1, <1>2

(* A call that succeeds brings its record closer to what it is to be. *)
LEMMA OnItsWayStep ==
  ASSUME TypeOK, NEW w \in Writer, work[w] # <<>>, work' = [work EXCEPT ![w] = Tail(@)],
         records' = [records EXCEPT ![Head(work[w]).provider] = Performed(Head(work[w]).task, @)],
         NEW c \in Cluster, NEW v, OnItsWay(w, c, v)
  PROVE  OnItsWay(w, c, v)'
<1>1. ASSUME NEW p \in Provider PROVE records'[p][c] = v \/ Pending(w, p, c)'
  <2>1. CASE records'[p][c] = records[p][c] /\ (Pending(w, p, c) => Pending(w, p, c)')
    BY <2>1 DEF OnItsWay
  <2>2. CASE /\ 1 \in DOMAIN work[w] /\ work[w][1].task.cluster = c
             /\ records'[p][c] = Result(work[w][1].task)
    BY <2>2 DEF OnItsWay
  <2>3. \/ records'[p][c] = records[p][c] /\ (Pending(w, p, c) => Pending(w, p, c)')
        \/ /\ 1 \in DOMAIN work[w] /\ work[w][1].provider = p /\ work[w][1].task.cluster = c
           /\ records'[p][c] = Result(work[w][1].task)
    BY CallEffect, Zenon
  <2> QED
    BY <2>1, <2>2, <2>3, Zenon
<1>2. \A i \in DOMAIN work'[w] : work'[w][i].task.cluster = c => Result(work'[w][i].task) = v
  <2>1. \A i \in DOMAIN work[w] : work[w][i].task.cluster = c => Result(work[w][i].task) = v
    BY DEF OnItsWay
  <2>2. \A i \in DOMAIN work'[w] : \E j \in DOMAIN work[w] : work'[w][i] = work[w][j]
    BY RemainingCalls, Zenon
  <2> QED
    BY <2>1, <2>2, Zenon
<1> QED
  BY <1>1, <1>2 DEF OnItsWay, Result

-----------------------------------------------------------------------------
(* What an answer says about DNS.                                          *)

(* Right after the save the calls are on the list that make the answer     *)
(* true.                                                                   *)
LEMMA SaveVerdict ==
  ASSUME InductiveInv, [Next]_vars, NEW w \in Writer, Save(w), req[w].kind \in DNSKinds,
         NEW a \in Written(req[w], loaded[w], next[w]), NEW g \in Target(w, a)
  PROVE  OnItsWay(w, g[1], g[2])'
<1>r. PICK r : r = req[w]
  OBVIOUS
<1>p. PICK previous : previous = Entry(loaded[w], a[1], a[2])
  OBVIOUS
<1> DEFINE del == DeleteRecord(previous.cluster)
           cre == CreateRecord(r.cluster, a[1], a[2])
<1>1. PICK tasks \in DNSWork(r, loaded[w], next[w]) :
        /\ tasks \in Seq(Task)
        /\ \A p \in Provider, j \in DOMAIN tasks : Pending(w, p, tasks[j].cluster)'
        /\ \A i \in DOMAIN work'[w] : \E j \in DOMAIN tasks : work'[w][i].task = tasks[j]
  BY <1>r, SaveCalls
<1>2. /\ pc[w] \in {"save", "put"} /\ now \in 0..MaxNow /\ loaded[w] \in Ledgers(Time)
  BY DEF Save, TX!SaveYAMLToDisk, TX!SavePut, InductiveInv, TypeOK, TX!TypeOK
<1>3. PICK t \in 0..now : next[w] \in Handle(r, t, loaded[w])
  BY <1>r, <1>2 DEF InductiveInv, Decided
<1>4. t \in 0..MaxNow /\ r \in Requests
  <2>1. r \in Requests \cup Reclaims
    BY <1>r, <1>2, AskedType DEF InductiveInv
  <2>2. r.kind # "reclaim"
    BY <1>r DEF DNSKinds
  <2>3. r \in Requests
    BY <2>1, <2>2 DEF Reclaims
  <2>4. t \in 0..MaxNow
    BY <1>2, BoundAssumption
  <2> QED
    BY <2>3, <2>4
<1> DEFINE D == 0..MaxLease
<1>5. /\ D \in SUBSET Nat /\ t \in Nat /\ (\A k \in D : t + k \in Time) /\ ValidRequest(r, D)
      /\ Time \in SUBSET Nat /\ 0 \in Time
  BY <1>4, TimeFacts, RequestAssumption
<1> HIDE DEF D
<1>6. r.kind \in DNSKinds /\ a \in Written(r, loaded[w], next[w])
  BY <1>r
<1>7. \A b \in Written(r, loaded[w], next[w]) : b = a
  BY <1>2, <1>3, <1>5, <1>6, WrittenOne
<1>8. tasks = RecordChanges(r, previous, a)
  <2>1. DNSWork(r, loaded[w], next[w]) =
          {RecordChanges(r, Entry(loaded[w], b[1], b[2]), b) : b \in Written(r, loaded[w], next[w])}
    BY <1>6, Zenon DEF DNSWork, DNSKinds
  <2>2. PICK b \in Written(r, loaded[w], next[w]) : tasks = RecordChanges(r, Entry(loaded[w], b[1], b[2]), b)
    BY <1>1, <2>1
  <2> QED
    BY <1>p, <1>7, <2>2, Zenon
<1>9. /\ \A i \in DOMAIN tasks :
           (Withdrawn(r, previous) /\ tasks[i] = del) \/ (Created(r) /\ tasks[i] = cre)
      /\ Withdrawn(r, previous) => \E i \in DOMAIN tasks : tasks[i] = del
      /\ Created(r) => \E i \in DOMAIN tasks : tasks[i] = cre
  BY <1>8, RecordChangesAll
<1>10. a \in Network \X Digit
  BY <1>5, <1>6, WrittenType
<1>11. previous \in IPInfo(Time)
  BY <1>p, <1>2, <1>5, <1>10, EntryType
<1>12. /\ del.cluster = previous.cluster /\ Result(del) = NoRecord
       /\ cre.cluster = r.cluster /\ Result(cre) = a
  BY <1>10 DEF DeleteRecord, CreateRecord, Result
<1>13. Withdrawn(r, previous) /\ Created(r) => previous.cluster # r.cluster
  BY DEF Withdrawn, Created
<1>14. \/ Created(r) /\ g = <<r.cluster, a>>
       \/ Lapses(r, previous) /\ g = <<previous.cluster, NoRecord>>
  BY <1>r, <1>p DEF Target
<1>17. Lapses(r, previous) => Withdrawn(r, previous) /\ previous.cluster # NoCluster
  BY <1>6 DEF Lapses, Withdrawn, Created, DNSKinds
<1> HIDE DEF del, cre
<1>15. CASE Created(r) /\ g = <<r.cluster, a>>
  <2>1. g[1] = r.cluster /\ g[2] = a
    BY <1>15
  <2>2. r.cluster \in Cluster
    BY <1>2, <1>3, <1>5, <1>15, WrittenEntry
  <2>3. \A p \in Provider : Pending(w, p, r.cluster)'
    BY <1>1, <1>9, <1>12, <1>15
  <2>4. \A j \in DOMAIN tasks : tasks[j].cluster = r.cluster => Result(tasks[j]) = a
    BY <1>9, <1>12, <1>13, <1>15
  <2>5. \A i \in DOMAIN work'[w] : work'[w][i].task.cluster = r.cluster => Result(work'[w][i].task) = a
    BY <1>1, <2>4
  <2> QED
    BY <2>1, <2>2, <2>3, <2>5 DEF OnItsWay, Result
<1>16. CASE Lapses(r, previous) /\ g = <<previous.cluster, NoRecord>>
  <2>1. /\ g[1] = previous.cluster /\ g[2] = NoRecord
        /\ Withdrawn(r, previous) /\ previous.cluster # NoCluster
    BY <1>16, <1>17
  <2>2. previous.cluster \in Cluster
    BY <1>11, <2>1 DEF IPInfo
  <2>3. \A p \in Provider : Pending(w, p, previous.cluster)'
    BY <1>1, <1>9, <1>12, <2>1
  <2>4. \A j \in DOMAIN tasks : tasks[j].cluster = previous.cluster => Result(tasks[j]) = NoRecord
    BY <1>9, <1>12, <1>13, <2>1
  <2>5. \A i \in DOMAIN work'[w] :
          work'[w][i].task.cluster = previous.cluster => Result(work'[w][i].task) = NoRecord
    BY <1>1, <2>4
  <2> QED
    BY <2>1, <2>2, <2>3, <2>5 DEF OnItsWay, Result
<1> QED
  BY <1>14, <1>15, <1>16

(* Only the writer that holds the lock is between its save and its End. *)
LEMMA Alone ==
  ASSUME OneProcess, InductiveInv, NEW w \in Writer, NEW u \in Writer, u # w, pc[w] \in TX!Critical
  PROVE  pc[u] \notin TX!Critical
<1>1. Home[u] = Home[w]
  BY HomeAssumption DEF OneProcess
<1>2. TX!MutualExclusion
  BY DEF InductiveInv, TX!InductiveInv
<1> QED
  BY <1>1, <1>2 DEF TX!MutualExclusion, TX!Holds

(* The calls of other writers do not come in between, and a call that      *)
(* fails is remembered.                                                    *)
LEMMA VerdictStep ==
  ASSUME OneProcess, InductiveInv, VerdictInTheMaking, [Next]_vars
  PROVE  VerdictInTheMaking'
<1> DEFINE G(u) == /\ pc[u] = "saved" \/ (pc[u] = "replied" /\ reply[u] = "ok")
                   /\ ~dnsErr[u] /\ req[u].kind \in DNSKinds
           F(u) == G(u) => \A a \in Written(req[u], loaded[u], next[u]) : \A t \in Target(u, a) :
                              OnItsWay(u, t[1], t[2])
           Same(u) == /\ req'[u] = req[u] /\ loaded'[u] = loaded[u] /\ next'[u] = next[u]
<1>0. /\ TypeOK /\ \A u \in Writer : F(u)
      /\ pc \in [Writer -> TX!Location] /\ reply \in [Writer -> TX!Outcome]
      /\ loaded \in [Writer -> Ledgers(Time)] /\ next \in [Writer -> Ledgers(Time)]
      /\ work \in [Writer -> Seq(Call)] /\ dnsErr \in [Writer -> BOOLEAN]
      /\ DOMAIN req = Writer
  BY DEF VerdictInTheMaking, InductiveInv, TypeOK, TX!TypeOK
<1>1. SUFFICES \A u \in Writer : F(u)'
  BY DEF VerdictInTheMaking
<1>2. ASSUME NEW u \in Writer, Same(u)
      PROVE  \A a : a \in Written(req[u], loaded[u], next[u])' =>
               /\ a \in Written(req[u], loaded[u], next[u])
               /\ Target(u, a)' = Target(u, a)
  <2>1. Written(req[u], loaded[u], next[u])' = Written(req[u], loaded[u], next[u])
    BY <1>2
  <2>2. \A a : Target(u, a)' = Target(u, a)
    BY <1>2 DEF Target
  <2> QED
    BY <2>1, <2>2
<1>3. ASSUME NEW u \in Writer, G(u)' => G(u) /\ Same(u) /\ work'[u] = work[u], records' = records
      PROVE  F(u)'
  <2>1. SUFFICES ASSUME G(u)', NEW a \in Written(req[u], loaded[u], next[u])', NEW t \in Target(u, a)'
                 PROVE  OnItsWay(u, t[1], t[2])'
    OBVIOUS
  <2>2. a \in Written(req[u], loaded[u], next[u]) /\ t \in Target(u, a)
    BY <1>2, <1>3, <2>1
  <2>3. OnItsWay(u, t[1], t[2])
    BY <1>0, <1>3, <2>1, <2>2
  <2> QED
    BY <1>3, <2>1, <2>3 DEF OnItsWay, Pending
<1>4. ASSUME NEW w \in Writer, Save(w) PROVE \A u \in Writer : F(u)'
  <2>1. /\ pc[w] \in {"save", "put"} /\ pc' = [pc EXCEPT ![w] = "saved"]
        /\ UNCHANGED <<req, loaded, next, records>>
    BY <1>4 DEF Save, TX!SaveYAMLToDisk, TX!SavePut, TX!Goto, TX!txVars
  <2>2. F(w)'
    <3>1. SUFFICES ASSUME req'[w].kind \in DNSKinds, NEW a \in Written(req[w], loaded[w], next[w])',
                          NEW t \in Target(w, a)'
                   PROVE  OnItsWay(w, t[1], t[2])'
      OBVIOUS
    <3>2. a \in Written(req[w], loaded[w], next[w]) /\ t \in Target(w, a)
      BY <1>2, <2>1, <3>1
    <3> QED
      BY <1>4, <2>1, <3>1, <3>2, SaveVerdict
  <2>3. ASSUME NEW u \in Writer, u # w PROVE ~G(u)'
    <3>1. pc[u] \notin TX!Critical
      BY <2>1, <2>3, Alone DEF TX!Critical
    <3> QED
      BY <1>0, <2>1, <2>3, <3>1 DEF TX!Critical
  <2> QED
    BY <2>2, <2>3
<1>5. ASSUME NEW w \in Writer, DNSCall(w) \/ DNSError(w) PROVE \A u \in Writer : F(u)'
  <2>1. pc[w] = "saved" /\ UNCHANGED <<pc, reply, req, loaded, next>>
    BY <1>5 DEF DNSCall, DNSError, ledgerVars
  <2>2. ASSUME NEW u \in Writer, u # w PROVE ~G(u)'
    <3>1. pc[u] \notin TX!Critical
      BY <2>1, <2>2, Alone DEF TX!Critical
    <3> QED
      BY <2>1, <3>1 DEF TX!Critical
  <2>3. CASE DNSError(w)
    <3>1. dnsErr'[w]
      BY <1>0, <2>3 DEF DNSError
    <3> QED
      BY <2>2, <3>1
  <2>4. CASE DNSCall(w)
    <3>1. /\ work[w] # <<>> /\ work' = [work EXCEPT ![w] = Tail(@)] /\ dnsErr' = dnsErr
          /\ records' = [records EXCEPT ![Head(work[w]).provider] = Performed(Head(work[w]).task, @)]
      BY <2>4 DEF DNSCall
    <3>2. SUFFICES ASSUME G(w)', NEW a \in Written(req[w], loaded[w], next[w])', NEW t \in Target(w, a)'
                   PROVE  OnItsWay(w, t[1], t[2])'
      BY <2>2
    <3>3. a \in Written(req[w], loaded[w], next[w]) /\ t \in Target(w, a)
      BY <1>2, <2>1, <3>2
    <3>4. G(w)
      BY <2>1, <3>1, <3>2
    <3>5. OnItsWay(w, t[1], t[2])
      BY <1>0, <3>3, <3>4
    <3>6. t[1] \in Cluster
      BY <3>5 DEF OnItsWay
    <3> QED
      BY <1>0, <3>1, <3>5, <3>6, OnItsWayStep
  <2> QED
    BY <1>5, <2>3, <2>4
<1>6. ASSUME NEW ws, Drop(ws), records' = records,
             \A u \in Writer : IF u \in ws THEN pc'[u] = "idle"
                              ELSE pc'[u] = pc[u] /\ reply'[u] = reply[u]
                                     /\ loaded'[u] = loaded[u] /\ next'[u] = next[u]
      PROVE  \A u \in Writer : F(u)'
  <2>1. ASSUME NEW u \in Writer, u \in ws PROVE ~G(u)'
    BY <1>6, <2>1
  <2>2. ASSUME NEW u \in Writer, u \notin ws
        PROVE  (G(u)' => G(u)) /\ Same(u) /\ work'[u] = work[u]
    <3>1. req'[u] = req[u] /\ work'[u] = work[u] /\ dnsErr'[u] = dnsErr[u]
      BY <1>6, <2>2 DEF Drop
    <3> QED
      BY <1>6, <2>2, <3>1
  <2> QED
    BY <1>3, <1>6, <2>1, <2>2
<1>7. ASSUME NEW w \in Writer, End(w) PROVE \A u \in Writer : F(u)'
  BY <1>0, <1>6, <1>7 DEF End, TX!End, TX!Goto, TX!Forget
<1>8. ASSUME NEW p \in Process, Crash(p) PROVE \A u \in Writer : F(u)'
  <2> DEFINE ws == {w \in Writer : Home[w] = p}
  <2>1. Drop(ws) /\ records' = records
    BY <1>8 DEF Crash
  <2>2. \A u \in Writer : IF u \in ws THEN pc'[u] = "idle"
                          ELSE pc'[u] = pc[u] /\ reply'[u] = reply[u]
                                 /\ loaded'[u] = loaded[u] /\ next'[u] = next[u]
    BY <1>8 DEF Crash, TX!Crash, TX!Forget
  <2> HIDE DEF ws
  <2> QED
    BY <1>6, <2>1, <2>2
<1>9. ASSUME NEW w \in Writer, Tick(w) \/ (\E r \in Requests : Receive(w, r)) PROVE \A u \in Writer : F(u)'
  <2>1. \A u \in Writer : (G(u)' => G(u) /\ Same(u) /\ work'[u] = work[u]) /\ records' = records
    BY <1>0, <1>9 DEF Tick, Receive, TX!Request, TX!Goto, TX!txVars
  <2> QED
    BY <1>3, <2>1
<1>10. ASSUME NEW w \in Writer, Begin(w) \/ Load(w) \/ Decide(w) PROVE \A u \in Writer : F(u)'
  <2>1. \A u \in Writer : (G(u)' => G(u) /\ Same(u) /\ work'[u] = work[u]) /\ records' = records
    BY <1>0, <1>10 DEF Begin, Load, Decide, Keep, TX!BeginLedgerWrite, TX!Load, TX!Decide, TX!Goto, TX!txVars
  <2> QED
    BY <1>3, <2>1
<1>11. ASSUME NEW w \in Writer, LoadError(w) \/ Refuse(w) \/ SaveError(w) \/ SavePutError(w) \/ Answer(w)
       PROVE  \A u \in Writer : F(u)'
  <2>1. \A u \in Writer : (G(u)' => G(u) /\ Same(u) /\ work'[u] = work[u]) /\ records' = records
    BY <1>0, <1>11 DEF LoadError, Refuse, SaveError, SavePutError, Answer, Keep, TX!LoadError, TX!Refuse,
       TX!SaveError, TX!SavePutLost, TX!UpdateDNS, TX!Reply, TX!Goto, TX!txVars
  <2> QED
    BY <1>3, <2>1
<1>12. ASSUME NEW w \in Writer, SaveGet(w) \/ SavePutConflict(w) PROVE \A u \in Writer : F(u)'
  <2>1. \A u \in Writer : (G(u)' => G(u) /\ Same(u) /\ work'[u] = work[u]) /\ records' = records
    BY <1>0, <1>12 DEF SaveGet, SavePutConflict, Keep, TX!SaveGet, TX!SavePutConflict, TX!Reply, TX!Goto,
       TX!txVars
  <2> QED
    BY <1>3, <2>1
<1>13. CASE Pass \/ Rest \/ UNCHANGED vars
  BY <1>3, <1>13 DEF Pass, Rest, Keep, TX!Rest, TX!vars, vars, ledgerVars
<1> QED
  BY <1>4, <1>5, <1>7, <1>8, <1>9, <1>10, <1>11, <1>12, <1>13 DEF Next, Proceed

(* While one process writes, an answer that reports no DNS error is true:  *)
(* the record was written or withdrawn on every enabled provider, whatever *)
(* failed or crashed before, and whatever the other handlers and the       *)
(* reclaimer wait for.                                                     *)
THEOREM VerdictIsTrue ==
  ASSUME OneProcess
  PROVE  Spec => []DNSVerdictTrue
<1>1. Init => CallsAreDue /\ VerdictInTheMaking
  BY InitInv DEF Init, VerdictInTheMaking
<1>2. InductiveInv /\ CallsAreDue /\ VerdictInTheMaking /\ [Next]_vars => CallsAreDue' /\ VerdictInTheMaking'
  BY CallsAreDueStep, VerdictStep
<1>3. CallsAreDue /\ VerdictInTheMaking => DNSVerdictTrue
  <2>1. ASSUME NEW w \in Writer, pc[w] = "replied", CallsAreDue, NEW c, NEW v, OnItsWay(w, c, v)
        PROVE  \A p \in Provider : records[p][c] = v
    <3>1. work[w] = <<>>
      BY <2>1 DEF CallsAreDue
    <3>2. \A p \in Provider : ~Pending(w, p, c)
      BY <3>1 DEF Pending
    <3> QED
      BY <2>1, <3>2 DEF OnItsWay
  <2> QED
    BY <2>1 DEF VerdictInTheMaking, DNSVerdictTrue
<1> QED
  BY <1>1, <1>2, <1>3, Invariance, PTL DEF Spec

-----------------------------------------------------------------------------
(* Records that are left behind.                                           *)

(* An address that loses its record's entry names the request, or is       *)
(* reclaimed.                                                              *)
LEMMA LosesRecord ==
  ASSUME InductiveInv, [Next]_vars, Withdrawing, NEW w \in Writer, Committing(w),
         NEW a \in Address, NEW c \in Cluster, Shows(config, a, c), ~Shows(config', a, c)
  PROVE  LET r == req[w]
             was == Entry(config, a[1], a[2])
         IN  \/ r.kind = "reclaim" /\ was.lease \in 1..r.now
             \/ /\ r \in Requests /\ Withdrawn(r, was)
                /\ \/ /\ r.kind \in {"assign", "delete ip", "edit", "release", "htmx delete ip"}
                      /\ a = <<r.key, r.ip.host>>
                   \/ /\ r.kind \in {"htmx release", "htmx edit"}
                      /\ a = <<r.ip.net, r.ip.host>>
<1>r. PICK r : r = req[w]
  OBVIOUS
<1>w. PICK was : was = Entry(config, a[1], a[2])
  OBVIOUS
<1>h. \A ip, n, d : ip = [net |-> n, host |-> d] => n = ip.net /\ d = ip.host
  OBVIOUS
<1>1. a[1] \in Network /\ a[2] \in Digit /\ a = <<a[1], a[2]>>
  BY DEF Address
<1>2. was.cluster = c /\ was.status \in DNSStatus /\ c # NoCluster
  BY <1>w, NameAssumption DEF Shows
<1>3. ~isFree(was) /\ HadDNS(was)
  BY <1>2, StatusValues DEF isFree, HadDNS, hasDNSSuffix
<1>4. Entry(config', a[1], a[2]) # Entry(config, a[1], a[2])
  BY DEF Shows
<1>5. PICK t \in 0..now, e \in IPInfo(Time) :
        May(r, t, a[1], a[2], was, e) /\ Entry(config', a[1], a[2]) = StoredInfo(e)
  BY <1>r, <1>w, <1>1, <1>4, CommitEntry
<1>6. ~(e.cluster = c /\ e.status \in DNSStatus)
  <2>1. SUFFICES ASSUME e.cluster = c, e.status \in DNSStatus PROVE FALSE
    OBVIOUS
  <2>2. StoredInfo(e) = e
    BY <1>2, <2>1, StatusValues, StoredComplete DEF isFree
  <2> QED
    BY <1>5, <2>1, <2>2 DEF Shows
<1>7. r \in Requests \/ r.kind = "reclaim"
  BY <1>r, CommitEffect
<1>8. r \in Requests => ValidRequest(r, 0..MaxLease)
  BY RequestAssumption
<1>9. was \in IPInfo(Time)
  BY <1>w, <1>1, ConfigEntry
<1>10. CASE MayClaim(r, t, a[1], a[2], was, e)
  <2>1. r.kind = "assign" /\ a[1] = r.key /\ a[2] = r.ip.host /\ e = Claim(r, t)
    BY <1>3, <1>10 DEF MayClaim
  <2>2. r \in Requests /\ r.status \in Status
    BY <1>7, <1>8, <2>1 DEF ValidRequest, WithInfo, WithDNS
  <2>3. e.cluster = r.cluster /\ (wantsDNS(r) => e.status \in DNSStatus)
    BY <2>1, <2>2, SavedStatusType DEF Claim
  <2>4. Withdrawn(r, was)
    BY <1>2, <1>3, <1>6, <2>1, <2>3 DEF Withdrawn
  <2> QED
    BY <1>r, <1>w, <1>1, <2>1, <2>2, <2>4
<1>11. CASE MayEdit(r, a[1], a[2], was, e)
  <2>1. e = Edited(r, was) /\ r.kind \in {"edit", "htmx assign", "htmx edit"}
    BY <1>11 DEF MayEdit
  <2>2. r \in Requests /\ r.status \in Status
    BY <1>7, <1>8, <2>1 DEF ValidRequest, WithInfo, WithDNS
  <2>3. r.kind # "htmx assign"
    BY <2>2 DEF Withdrawing
  <2>4. e.cluster = r.cluster /\ (wantsDNS(r) => e.status \in DNSStatus)
    BY <1>9, <2>1, <2>2, SavedStatusType DEF Edited, IPInfo
  <2>5. Withdrawn(r, was)
    BY <1>2, <1>3, <1>6, <2>1, <2>3, <2>4 DEF Withdrawn
  <2>6. \/ r.kind = "edit" /\ a[1] = r.key /\ a[2] = r.ip.host
        \/ r.kind = "htmx edit" /\ a[1] = r.ip.net /\ a[2] = r.ip.host
    <3>1. \/ r.kind = "edit" /\ a[1] = r.key /\ a[2] = r.ip.host
          \/ r.kind = "htmx edit" /\ r.ip = [net |-> a[1], host |-> a[2]]
      BY <1>11, <2>1, <2>3 DEF MayEdit
    <3> QED
      BY <1>h, <3>1, Zenon
  <2> QED
    BY <1>r, <1>w, <1>1, <2>2, <2>5, <2>6
<1>12. ~MayReserve(r, a[1], was, e)
  BY <1>3 DEF MayReserve
<1>13. ~MayRenew(r, t, a[1], a[2], was, e)
  BY <1>2, <1>6, <1>9 DEF MayRenew, IPInfo
<1>14. CASE MayClear(r, a[1], a[2], was, e)
  <2>1. CASE r.kind = "reclaim"
    BY <1>r, <1>w, <1>14, <2>1 DEF MayClear
  <2>2. CASE r.kind # "reclaim"
    <3>1. r.kind \notin {"delete network", "htmx delete network"} /\ r \in Requests
      BY <1>7, <2>2 DEF Withdrawing
    <3>2. r.kind \in {"release", "delete ip", "htmx delete ip"} /\ a[1] = r.key /\ a[2] = r.ip.host
      BY <1>14, <2>2, <3>1 DEF MayClear
    <3>3. Withdrawn(r, was)
      BY <1>3, <3>2 DEF Withdrawn
    <3> QED
      BY <1>r, <1>w, <1>1, <3>1, <3>2, <3>3
  <2> QED
    BY <2>1, <2>2
<1>15. CASE MaySet(r, a[1], a[2], was, e)
  <2>1. r \in Requests
    BY <1>7, <1>15 DEF MaySet
  <2>2. r.kind = "htmx release" /\ a[1] = r.ip.net /\ a[2] = r.ip.host
    <3>1. r.kind # "SetClusterInfo"
      BY <2>1 DEF Withdrawing
    <3>2. r.kind = "htmx release" /\ r.ip = [net |-> a[1], host |-> a[2]]
      BY <1>15, <3>1 DEF MaySet
    <3> QED
      BY <1>h, <3>2, Zenon
  <2>3. Withdrawn(r, was)
    BY <1>3, <2>2 DEF Withdrawn
  <2> QED
    BY <1>r, <1>w, <1>1, <2>1, <2>2, <2>3
<1> QED
  BY <1>5, <1>10, <1>11, <1>12, <1>13, <1>14, <1>15 DEF May

(* A save that takes an address from its record leaves a call that takes   *)
(* the record away, on every provider.                                     *)
LEMMA SaveWithdraws ==
  ASSUME InductiveInv, [Next]_vars, Withdrawing, NEW w \in Writer, Save(w),
         NEW a \in Address, NEW c \in Cluster, Shows(config, a, c), ~Shows(config', a, c),
         NEW p \in Provider
  PROVE  Pending(w, p, c)'
<1>r. PICK r : r = req[w]
  OBVIOUS
<1>w. PICK was : was = Entry(config, a[1], a[2])
  OBVIOUS
<1>0. Committing(w)
  BY DEF Save, TX!SaveYAMLToDisk, TX!SavePut, TX!Goto, Committing, InductiveInv, TypeOK, TX!TypeOK
<1>1. PICK tasks \in DNSWork(r, loaded[w], next[w]) :
        \A j \in DOMAIN tasks : Pending(w, p, tasks[j].cluster)'
  BY <1>r, SaveCalls
<1>2. loaded[w] = config
  BY <1>0, CommitEffect
<1>3. was.cluster = c /\ was.status \in DNSStatus /\ c # NoCluster
  BY <1>w, NameAssumption DEF Shows
<1>4. a[1] \in Network /\ a[2] \in Digit /\ a \in Network \X Digit /\ a = <<a[1], a[2]>>
  BY DEF Address
<1>5. SUFFICES \E j \in DOMAIN tasks : tasks[j].cluster = c
  BY <1>1
<1>6. CASE r.kind = "reclaim" /\ was.lease \in 1..r.now
  <2> DEFINE S == ReclaimedDNS(config, r.now)
  <2>1. InPool(config, a[1], a[2]) /\ was = config[a[1]][a[2]]
    <3>1. Blank.status \notin DNSStatus
      BY StatusValues DEF Blank
    <3> QED
      BY <1>w, <1>3, <3>1 DEF Entry
  <2>2. a \in S
    <3>1. was.lease # 0 /\ was.lease <= r.now
      BY <1>6
    <3> QED
      BY <1>3, <1>4, <2>1, <3>1 DEF ReclaimedDNS, FindExpiredLeases, HadDNS, hasDNSSuffix
  <2>3. IsFiniteSet(S)
    <3>1. S \subseteq Network \X Digit
      BY DEF ReclaimedDNS, FindExpiredLeases
    <3>2. IsFiniteSet(Network \X Digit)
      BY FiniteAssumption, FS_Product
    <3> QED
      BY <3>1, <3>2, FS_Subset
  <2>4. PICK order \in Orders(S) : tasks = Removals(config, order)
    BY <1>1, <1>2, <1>6 DEF DNSWork, DNSKinds
  <2> HIDE DEF S
  <2>5. PICK i \in DOMAIN order : order[i] = a
    BY <2>2, <2>3, OrdersAll
  <2>6. i \in DOMAIN tasks /\ tasks[i] = DeleteRecord(config[order[i][1]][order[i][2]].cluster)
    BY <2>4 DEF Removals
  <2>7. tasks[i] = DeleteRecord(c)
    BY <1>3, <2>1, <2>5, <2>6
  <2> QED
    BY <2>6, <2>7 DEF DeleteRecord
<1>7. CASE /\ r \in Requests /\ Withdrawn(r, was)
           /\ \/ /\ r.kind \in {"assign", "delete ip", "edit", "release", "htmx delete ip"}
                 /\ a = <<r.key, r.ip.host>>
              \/ /\ r.kind \in {"htmx release", "htmx edit"}
                 /\ a = <<r.ip.net, r.ip.host>>
  <2>1. r.kind \in DNSKinds /\ r.kind # "reserve"
    BY <1>7 DEF DNSKinds
  <2>2. DNSWork(r, config, next[w]) =
          {RecordChanges(r, Entry(config, b[1], b[2]), b) : b \in Written(r, config, next[w])}
    BY <2>1, Zenon DEF DNSWork, DNSKinds
  <2>3. PICK b \in Written(r, config, next[w]) : tasks = RecordChanges(r, Entry(config, b[1], b[2]), b)
    BY <1>1, <1>2, <2>2
  <2>4. ValidRequest(r, 0..MaxLease)
    BY <1>7, RequestAssumption
  <2>5. /\ r.kind \in {"assign", "delete ip", "edit", "release", "htmx delete ip"} =>
             b = <<r.key, r.ip.host>>
        /\ r.kind \in {"htmx assign", "htmx release", "htmx edit"} => b = <<r.ip.net, r.ip.host>>
    BY <2>1, <2>3, <2>4, WrittenNamed
  <2>6. b = a
    BY <1>7, <2>5, Zenon
  <2>7. tasks = RecordChanges(r, was, a)
    BY <1>w, <2>3, <2>6, Zenon
  <2>8. \E i \in DOMAIN tasks : tasks[i] = DeleteRecord(was.cluster)
    <3>1. Withdrawn(r, was) =>
            \E i \in DOMAIN RecordChanges(r, was, a) :
              RecordChanges(r, was, a)[i] = DeleteRecord(was.cluster)
      BY RecordChangesAll
    <3> QED
      BY <1>7, <2>7, <3>1, Zenon
  <2> QED
    BY <1>3, <2>8 DEF DeleteRecord
<1> QED
  BY <1>r, <1>w, <1>0, <1>6, <1>7, LosesRecord

(* A record is one that the ledger asks for, or a call is on its way. *)
LEMMA RecordsAreDueStep ==
  ASSUME OneProcess, Withdrawing, InductiveInv, CallsAreDue, RecordsAreDue, [Next]_vars
  PROVE  RecordsAreDue'
<1>0. /\ TypeOK /\ work \in [Writer -> Seq(Call)] /\ pc \in [Writer -> TX!Location]
      /\ records \in [Provider -> [Cluster -> Address \cup {NoRecord}]]
      /\ \A u \in Writer : work[u] # <<>> => pc[u] = "saved"
  BY DEF InductiveInv, TypeOK, TX!TypeOK, CallsAreDue
<1>1. SUFFICES ASSUME NEW p \in Provider, NEW c \in Cluster, records'[p][c] # NoRecord
               PROVE  Shows(config', records'[p][c], c) \/ \E u \in Writer : Pending(u, p, c)'
  BY DEF RecordsAreDue, Shows, HadDNS, hasDNSSuffix
<1>2. records[p][c] # NoRecord => Shows(config, records[p][c], c) \/ \E u \in Writer : Pending(u, p, c)
  BY DEF RecordsAreDue, Shows, HadDNS, hasDNSSuffix
<1>3. \A u \in Writer : Pending(u, p, c) => pc[u] = "saved"
  <2>1. ASSUME NEW u \in Writer, work[u] = <<>> PROVE ~Pending(u, p, c)
    BY <2>1 DEF Pending
  <2> QED
    BY <1>0, <2>1
<1>4. ASSUME UNCHANGED <<config, records>>, \A u \in Writer : pc[u] = "saved" => work'[u] = work[u]
      PROVE  Shows(config', records'[p][c], c) \/ \E u \in Writer : Pending(u, p, c)'
  <2>1. \A u \in Writer : Pending(u, p, c) => Pending(u, p, c)'
    BY <1>3, <1>4 DEF Pending
  <2>2. records[p][c] # NoRecord /\ records'[p][c] = records[p][c]
    BY <1>1, <1>4
  <2> QED
    BY <1>2, <1>4, <2>1, <2>2
<1>5. ASSUME NEW w \in Writer, Save(w)
      PROVE  Shows(config', records'[p][c], c) \/ \E u \in Writer : Pending(u, p, c)'
  <2>1. pc[w] \in {"save", "put"} /\ records' = records
    BY <1>5 DEF Save, TX!SaveYAMLToDisk, TX!SavePut
  <2>2. \A u \in Writer : pc[u] # "saved"
    BY <2>1, Alone DEF TX!Critical
  <2>3. records[p][c] \in Address /\ Shows(config, records[p][c], c)
    BY <1>0, <1>1, <1>2, <1>3, <2>1, <2>2
  <2>4. ~Shows(config', records[p][c], c) => Pending(w, p, c)'
    BY <1>5, <2>3, SaveWithdraws
  <2> QED
    BY <2>1, <2>4
<1>6. ASSUME NEW w \in Writer, DNSCall(w)
      PROVE  Shows(config', records'[p][c], c) \/ \E u \in Writer : Pending(u, p, c)'
  <2>1. /\ work[w] # <<>> /\ work' = [work EXCEPT ![w] = Tail(@)]
        /\ records' = [records EXCEPT ![Head(work[w]).provider] = Performed(Head(work[w]).task, @)]
        /\ config' = config
    BY <1>6 DEF DNSCall, ledgerVars
  <2>2. CASE records'[p][c] = records[p][c] /\ (Pending(w, p, c) => Pending(w, p, c)')
    <3>1. ASSUME NEW u \in Writer, u # w, Pending(u, p, c) PROVE Pending(u, p, c)'
      <4>1. work'[u] = work[u]
        BY <1>0, <2>1, <3>1
      <4> QED
        BY <3>1, <4>1 DEF Pending
    <3>2. records[p][c] # NoRecord
      BY <1>1, <2>2
    <3> QED
      BY <1>2, <2>1, <2>2, <3>1, <3>2
  <2>3. CASE /\ 1 \in DOMAIN work[w] /\ work[w][1].provider = p /\ work[w][1].task.cluster = c
             /\ records'[p][c] = Result(work[w][1].task)
    <3> DEFINE t == work[w][1].task
    <3>1. t.op = "create" => Shows(config, t.addr, t.cluster)
      BY <2>3 DEF CallsAreDue, Shows, HadDNS, hasDNSSuffix
    <3>2. t.cluster = c /\ records'[p][c] = Result(t)
      BY <2>3
    <3> HIDE DEF t
    <3>3. t.op = "create" /\ records'[p][c] = t.addr
      BY <1>1, <3>2 DEF Result
    <3> QED
      BY <2>1, <3>1, <3>2, <3>3
  <2>4. \/ records'[p][c] = records[p][c] /\ (Pending(w, p, c) => Pending(w, p, c)')
        \/ /\ 1 \in DOMAIN work[w] /\ work[w][1].provider = p /\ work[w][1].task.cluster = c
           /\ records'[p][c] = Result(work[w][1].task)
    BY <1>0, <2>1, CallEffect, Zenon
  <2> QED
    BY <2>2, <2>3, <2>4, Zenon
<1>7. ASSUME NEW w \in Writer, DNSError(w) PROVE FALSE
  BY <1>7 DEF DNSError, Withdrawing
<1>8. ASSUME NEW q \in Process, Crash(q) PROVE FALSE
  BY <1>8 DEF Crash, Withdrawing
<1>9. ASSUME NEW w \in Writer, End(w)
      PROVE  Shows(config', records'[p][c], c) \/ \E u \in Writer : Pending(u, p, c)'
  <2>1. /\ pc[w] = "replied" /\ UNCHANGED <<config, records>>
        /\ \A u \in Writer : u # w => work'[u] = work[u]
    BY <1>9 DEF End, Drop, TX!End, TX!storeVars
  <2> QED
    BY <1>4, <2>1
<1>10. ASSUME UNCHANGED <<config, records, work>>
       PROVE  Shows(config', records'[p][c], c) \/ \E u \in Writer : Pending(u, p, c)'
  BY <1>4, <1>10
<1>11. ASSUME NEW w \in Writer, Tick(w) \/ (\E r \in Requests : Receive(w, r)) \/ Begin(w) \/ Load(w)
                                \/ LoadError(w) \/ Decide(w) \/ Refuse(w)
       PROVE  UNCHANGED <<config, records, work>>
  BY <1>11 DEF Tick, Receive, Begin, Load, LoadError, Decide, Refuse, Keep, TX!Request,
     TX!BeginLedgerWrite, TX!Load, TX!LoadError, TX!Decide, TX!Refuse, TX!storeVars
<1>12. ASSUME NEW w \in Writer, SaveError(w) \/ SaveGet(w) \/ SavePutConflict(w) \/ SavePutError(w)
                                \/ Answer(w)
       PROVE  UNCHANGED <<config, records, work>>
  BY <1>12 DEF SaveError, SaveGet, SavePutConflict, SavePutError, Answer, Keep, TX!SaveError,
     TX!SaveGet, TX!SavePutConflict, TX!SavePutLost, TX!UpdateDNS, TX!storeVars
<1>13. ASSUME Pass \/ Rest \/ UNCHANGED vars PROVE UNCHANGED <<config, records, work>>
  BY <1>13 DEF Pass, Rest, Keep, TX!Rest, TX!vars, TX!storeVars, vars, ledgerVars
<1> QED
  BY <1>5, <1>6, <1>7, <1>8, <1>9, <1>10, <1>11, <1>12, <1>13 DEF Next, Proceed

(* While one process writes, no provider fails, the process does not die   *)
(* between a save and its DNS calls, and none of the four handlers that    *)
(* never withdraw a record is used, every record points at an address that *)
(* is its cluster's and says so, whenever no call is outstanding: whatever *)
(* else is assigned, edited, released, deleted or reclaimed.               *)
THEOREM NoRecordLeftBehind ==
  ASSUME OneProcess, Withdrawing
  PROVE  Spec => []NoOrphanRecord
<1>1. Init => CallsAreDue /\ RecordsAreDue
  BY InitInv DEF Init, RecordsAreDue
<1>2. InductiveInv /\ CallsAreDue /\ RecordsAreDue /\ [Next]_vars => CallsAreDue' /\ RecordsAreDue'
  BY CallsAreDueStep, RecordsAreDueStep
<1>3. RecordsAreDue => NoOrphanRecord
  <2>1. ASSUME Settled, NEW w \in Writer, NEW p, NEW c PROVE ~Pending(w, p, c)
    <3>1. work[w] = <<>>
      BY <2>1 DEF Settled
    <3> QED
      BY <3>1 DEF Pending
  <2> QED
    BY <2>1 DEF RecordsAreDue, NoOrphanRecord
<1> QED
  BY <1>1, <1>2, <1>3, Invariance, PTL DEF Spec

=============================================================================
