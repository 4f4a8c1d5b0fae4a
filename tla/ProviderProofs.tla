--------------------------- MODULE ProviderProofs ---------------------------
(***************************************************************************)
(* Proofs about the Crossplane provider: types, and that its Network       *)
(* controller keeps existing entries.                                      *)
(***************************************************************************)
EXTENDS Provider, IPLedgerProofs

-----------------------------------------------------------------------------
(* Numbers and finite sets.                                                *)

(* A set of naturals that is not empty has a least element.                *)
LEMMA LeastNumber ==
  ASSUME NEW S \in SUBSET Nat, S # {}
  PROVE  \E x \in S : \A y \in S : x <= y
<1>1. PICK x \in S : \A y \in S : ~(<<y, x>> \in OpToRel(<, Nat))
  BY NatLessThanWellFounded, WFMin
<1>2. \A y \in S : ~(y < x)
  BY <1>1 DEF OpToRel
<1> QED
  BY <1>2

(* A finite set of naturals that is not empty has a greatest element.      *)
LEMMA GreatestNumber ==
  ASSUME NEW S \in SUBSET Nat, IsFiniteSet(S), S # {}
  PROVE  \E x \in S : \A y \in S : y <= x
<1> DEFINE below(x) == {e \in S : e < x}
           rank(x) == Cardinality(S) - Cardinality(below(x))
           ranks == {n \in Nat : \E x \in S : n = rank(x)}
<1>1. \A x \in S : /\ below(x) \in SUBSET S /\ IsFiniteSet(below(x))
                   /\ Cardinality(below(x)) \in Nat /\ Cardinality(below(x)) <= Cardinality(S)
  BY FS_Subset, FS_CardinalityType
<1>2. Cardinality(S) \in Nat
  BY FS_CardinalityType
<1>3. \A x \in S : rank(x) \in ranks
  <2> HIDE DEF below
  <2>1. \A x \in S : rank(x) \in Nat
    BY <1>1, <1>2
  <2> HIDE DEF rank
  <2> QED
    BY <2>1
<1>4. PICK x \in S : \A n \in ranks : rank(x) <= n
  <2>1. ranks # {} /\ ranks \in SUBSET Nat
    BY <1>3
  <2> QED
    BY <2>1, LeastNumber
<1>5. ASSUME NEW y \in S, x < y PROVE FALSE
  <2>0. x \in Nat /\ y \in Nat /\ (\A e \in S : e \in Nat) /\ x < y
    BY <1>5
  <2>1. x \notin below(x) /\ x \in below(y) /\ below(x) \subseteq below(y)
    <3>1. \A e \in S : e < x => e < y
      BY <2>0
    <3>2. ~(x < x)
      BY <2>0
    <3> QED
      BY <2>0, <3>1, <3>2
  <2>2. Cardinality(below(x) \cup {x}) = Cardinality(below(x)) + 1
    BY <1>1, <2>1, FS_AddElement
  <2>3. Cardinality(below(x) \cup {x}) <= Cardinality(below(y))
    BY <1>1, <2>1, FS_Subset
  <2>4. rank(x) <= rank(y)
    BY <1>3, <1>4, <1>5
  <2> HIDE DEF below
  <2> QED
    BY <1>1, <1>2, <1>5, <2>2, <2>3, <2>4
<1> QED
  BY <1>5

(* The first k addresses are at most k ...                                 *)
LEMMA FirstOfBound ==
  ASSUME NEW S \in SUBSET Digit, NEW k \in Nat
  PROVE  /\ FirstOf(S, k) \in SUBSET S
         /\ Cardinality(FirstOf(S, k)) \in Nat /\ Cardinality(FirstOf(S, k)) <= k
<1> DEFINE F == FirstOf(S, k)
           below(x) == {e \in S : e < x}
<1>1. F \in SUBSET S /\ IsFiniteSet(F) /\ IsFiniteSet(S) /\ S \in SUBSET Nat
  BY FS_Subset, FiniteAssumption, BoundsAssumption DEF FirstOf
<1>2. Cardinality(F) \in Nat
  BY <1>1, FS_CardinalityType
<1>3. CASE F = {}
  BY <1>1, <1>3, FS_EmptySet
<1>4. CASE F # {}
  <2>1. F \in SUBSET Nat
    BY <1>1
  <2>2. PICK x \in F : \A y \in F : y <= x
    BY <1>1, <1>4, <2>1, GreatestNumber
  <2>3. Cardinality(below(x)) < k
    BY <2>2 DEF FirstOf
  <2>4. F \ {x} \in SUBSET below(x)
    BY <1>1, <2>1, <2>2
  <2>5. Cardinality(F \ {x}) = Cardinality(F) - 1
    BY <1>1, <2>2, FS_RemoveElement
  <2>6. Cardinality(F \ {x}) <= Cardinality(below(x)) /\ Cardinality(below(x)) \in Nat
    BY <1>1, <2>4, FS_Subset, FS_CardinalityType
  <2> HIDE DEF F, below
  <2>7. F \in SUBSET S /\ Cardinality(F) \in Nat /\ Cardinality(F) <= k
    BY <1>1, <1>2, <2>3, <2>5, <2>6
  <2> QED
    BY <2>7 DEF F
<1> QED
  BY <1>3, <1>4

(* ... and all of them when there are no more than k.                      *)
LEMMA FirstOfAll ==
  ASSUME NEW S \in SUBSET Digit, NEW k \in Nat, Cardinality(S) <= k
  PROVE  FirstOf(S, k) = S
<1>1. IsFiniteSet(S) /\ S \in SUBSET Nat /\ Cardinality(S) \in Nat
  BY FS_Subset, FiniteAssumption, BoundsAssumption, FS_CardinalityType
<1>2. ASSUME NEW x \in S PROVE Cardinality({e \in S : e < x}) < k
  <2> DEFINE B == {e \in S : e < x}
  <2>1. B \in SUBSET S /\ x \notin B
    BY <1>1
  <2>2. IsFiniteSet(B) /\ Cardinality(B) <= Cardinality(S) /\ (Cardinality(S) = Cardinality(B) => S = B)
    BY <1>1, <2>1, FS_Subset
  <2>3. Cardinality(B) \in Nat /\ S # B
    BY <2>1, <2>2, FS_CardinalityType
  <2> HIDE DEF B
  <2>4. Cardinality(B) < k
    BY <1>1, <2>2, <2>3
  <2> QED
    BY <2>4 DEF B
<1> QED
  BY <1>2 DEF FirstOf

-----------------------------------------------------------------------------
(* What an assignment asks for.                                            *)

(* The parameters of an IPAssignment are what its API type admits.         *)
LEMMA AssignmentFacts ==
  ASSUME NEW a \in Assignment
  PROVE  /\ Key(a) \in Network /\ Owner(a) \in Cluster /\ Owner(a) # NoCluster
         /\ ForProvider[a].countIPs \in Nat \ {0}
         /\ ForProvider[a].status \in Status \ {""}
         /\ ForProvider[a].createDNS \in BOOLEAN /\ ForProvider[a].lease \in Nat
         /\ a # NoCR
<1>1. DOMAIN Marked \subseteq Status \ {""}
  BY StatusValues DEF Marked
<1> QED
  BY <1>1, AssignmentAssumption, NameAssumption DEF Key, Owner

(* An address that is not in the pool is held by nobody.                   *)
LEMMA HeldEntries ==
  ASSUME NEW l \in Ledgers(Nat), NEW a \in Assignment
  PROVE  Held(l, a) =
           {d \in handleAPINetworkIPs(l, Key(a)) :
              l[Key(a)][d].cluster = Owner(a) /\ ~isFree(l[Key(a)][d])}
<1> DEFINE n == Key(a)
<1>1. n \in Network
  BY AssignmentFacts
<1> HIDE DEF n
<1>2. \A d \in Digit : InPool(l, n, d) => Entry(l, n, d) = l[n][d]
  BY DEF Entry
<1>3. \A d \in Digit : ~InPool(l, n, d) => isFree(Entry(l, n, d))
  BY DEF Entry, Blank, isFree
<1>4. Held(l, a) = {d \in Digit : InPool(l, n, d) /\ l[n][d].cluster = Owner(a) /\ ~isFree(l[n][d])}
  BY <1>2, <1>3 DEF Held, n
<1> QED
  BY <1>4 DEF handleAPINetworkIPs, n

(* heldBy goes by the ledger ...                                           *)
LEMMA HeldNow ==
  ASSUME ledger \in Ledgers(Nat), NEW a \in Assignment
  PROVE  heldBy(a) = Held(ledger, a)
  BY HeldEntries DEF heldBy, GetNetworkIPs

(* ... before and after a step.                                            *)
LEMMA HeldNext ==
  ASSUME ledger' \in Ledgers(Nat), NEW a \in Assignment
  PROVE  heldBy(a)' = Held(ledger', a)
  BY HeldEntries DEF heldBy, GetNetworkIPs, Key, Owner

(* It is a finite set of host parts.                                       *)
LEMMA HeldFinite ==
  ASSUME NEW l, NEW a
  PROVE  Held(l, a) \in SUBSET Digit /\ IsFiniteSet(Held(l, a)) /\ Cardinality(Held(l, a)) \in Nat
<1>1. Held(l, a) \in SUBSET Digit
  BY DEF Held
<1>2. IsFiniteSet(Held(l, a))
  BY <1>1, FiniteAssumption, FS_Subset
<1> QED
  BY <1>1, <1>2, FS_CardinalityType

(* What a write of one entry does to the addresses of an assignment.       *)
LEMMA PutHeld ==
  ASSUME NEW l \in Ledgers(Nat), NEW n \in Network, NEW d \in Digit,
         NEW e \in IPInfo(Nat), Configured(l, n), NEW a \in Assignment
  PROVE  Held(Put(l, n, d, e), a) =
           IF Key(a) # n THEN Held(l, a)
           ELSE IF e.cluster = Owner(a) /\ ~isFree(e) THEN Held(l, a) \cup {d}
           ELSE Held(l, a) \ {d}
<1> DEFINE s == Put(l, n, d, e)
           k == Key(a)
<1>1. k \in Network /\ e # NoEntry
  BY AssignmentFacts, InfoIsInfo
<1>2. \A x \in Digit : Entry(s, k, x) = IF k = n /\ x = d THEN e ELSE Entry(l, k, x)
  BY <1>1, PutEntry
<1> HIDE DEF s, k
<1>3. \A x : x \in Held(s, a) <=>
        x \in Digit /\ Entry(s, k, x).cluster = Owner(a) /\ ~isFree(Entry(s, k, x))
  BY DEF Held, k
<1>4. \A x : x \in Held(l, a) <=>
        x \in Digit /\ Entry(l, k, x).cluster = Owner(a) /\ ~isFree(Entry(l, k, x))
  BY DEF Held, k
<1>5. CASE k # n
  <2>1. Held(s, a) = Held(l, a)
    BY <1>2, <1>3, <1>4, <1>5
  <2> QED
    BY <1>5, <2>1 DEF s, k
<1>6. CASE k = n /\ e.cluster = Owner(a) /\ ~isFree(e)
  <2>1. Held(s, a) = Held(l, a) \cup {d}
    BY <1>2, <1>3, <1>4, <1>6
  <2> QED
    BY <1>6, <2>1 DEF s, k
<1>7. CASE k = n /\ ~(e.cluster = Owner(a) /\ ~isFree(e))
  <2>1. Held(s, a) = Held(l, a) \ {d}
    BY <1>2, <1>3, <1>4, <1>7
  <2> QED
    BY <1>7, <2>1 DEF s, k
<1> QED
  BY <1>5, <1>6, <1>7

-----------------------------------------------------------------------------
(* Calls to clusterbook.                                                   *)

(* The DNS calls leave the records typed, whichever took effect.           *)
LEMMA PerformedType ==
  ASSUME NEW tasks \in Seq(Task), NEW done \in SUBSET DOMAIN tasks,
         records \in [Cluster -> Address \cup {NoRecord}]
  PROVE  Performed(tasks, done) \in [Cluster -> Address \cup {NoRecord}]
<1> DEFINE mine(c) == {i \in done : tasks[i].cluster = c}
           last(c) == tasks[CHOOSE i \in mine(c) : \A j \in mine(c) : j <= i]
           new(c) == IF mine(c) = {} THEN records[c]
                     ELSE IF last(c).op = "create" THEN last(c).addr ELSE NoRecord
<1>1. Performed(tasks, done) = [c \in Cluster |-> new(c)]
  BY DEF Performed
<1>2. ASSUME NEW c \in Cluster, mine(c) # {} PROVE last(c) \in Task
  <2>1. DOMAIN tasks = 1..Len(tasks) /\ Len(tasks) \in Nat
    OBVIOUS
  <2>2. mine(c) \in SUBSET Nat /\ mine(c) \in SUBSET (1..Len(tasks))
    BY <2>1
  <2>3. IsFiniteSet(mine(c))
    <3>1. IsFiniteSet(1..Len(tasks))
      BY <2>1, FS_Interval
    <3> HIDE DEF mine
    <3> QED
      BY <2>2, <3>1, FS_Subset
  <2> HIDE DEF mine
  <2>4. \E i \in mine(c) : \A j \in mine(c) : j <= i
    BY <1>2, <2>2, <2>3, GreatestNumber
  <2> DEFINE m == CHOOSE i \in mine(c) : \A j \in mine(c) : j <= i
  <2>5. m \in mine(c)
    BY <2>4
  <2> QED
    BY <2>1, <2>2, <2>5
<1> HIDE DEF mine, last
<1>3. \A c \in Cluster : new(c) \in Address \cup {NoRecord}
  BY <1>2 DEF Task
<1> HIDE DEF new
<1> QED
  BY <1>1, <1>3

(* A request that the handlers accept makes a ledger of a ledger.          *)
LEMMA HandlePreserves ==
  ASSUME ledger \in Ledgers(Nat), records \in [Cluster -> Address \cup {NoRecord}], now \in Nat,
         NEW r, ValidRequest(r, Nat) \/ (r.kind = "reclaim" /\ r.now \in Nat),
         NEW s \in Handle(r, now, ledger), NEW tasks \in DNSWork(r, ledger, s),
         NEW done \in SUBSET DOMAIN tasks
  PROVE  /\ s \in Ledgers(Nat) /\ Allowed(r, now, ledger, s)
         /\ Performed(tasks, done) \in [Cluster -> Address \cup {NoRecord}]
<1>1. Nat \in SUBSET Nat /\ 0 \in Nat /\ \A k \in Nat : now + k \in Nat
  OBVIOUS
<1>2. s \in Ledgers(Nat) /\ Allowed(r, now, ledger, s)
  BY <1>1, HandleEffect
<1>3. tasks \in Seq(Task)
  BY <1>1, WorkIsTasks
<1> QED
  BY <1>2, <1>3, PerformedType

(* A call of the HTTP client carries its request out once, or not at all.  *)
LEMMA CallEffect ==
  ASSUME TypeOK, NEW r, ValidRequest(r, Nat), NEW answer, Call(r, answer)
  PROVE  /\ ledger' \in Ledgers(Nat) /\ records' \in [Cluster -> Address \cup {NoRecord}]
         /\ now' = now /\ others' = others /\ faults' \in 0..MaxFaults
         /\ ledger' = ledger \/ (ledger' \in Handle(r, now, ledger) /\ Allowed(r, now, ledger, ledger'))
         /\ answer \in {"ok", "dns failed"} => ledger' \in Handle(r, now, ledger)
<1>1. /\ ledger \in Ledgers(Nat) /\ records \in [Cluster -> Address \cup {NoRecord}]
      /\ now \in Nat /\ faults \in 0..MaxFaults
  BY BoundsAssumption DEF TypeOK
<1>2. now' = now /\ others' = others
  BY DEF Call
<1>3. faults' \in 0..MaxFaults
  <2>1. faults' = faults \/ Fault("http") \/ Fault("dns")
    BY DEF Call
  <2> QED
    BY <1>1, <2>1, BoundsAssumption DEF Fault
<1>4. CASE ledger' = ledger /\ records' = records /\ answer \notin {"ok", "dns failed"}
  BY <1>1, <1>2, <1>3, <1>4
<1>5. ASSUME NEW s \in Handle(r, now, ledger), NEW tasks \in DNSWork(r, ledger, s),
             ledger' = s, NEW done \in SUBSET DOMAIN tasks, records' = Performed(tasks, done)
      PROVE  /\ ledger' \in Ledgers(Nat) /\ records' \in [Cluster -> Address \cup {NoRecord}]
             /\ ledger' \in Handle(r, now, ledger) /\ Allowed(r, now, ledger, ledger')
  <2>1. s \in Ledgers(Nat) /\ Allowed(r, now, ledger, s)
        /\ Performed(tasks, done) \in [Cluster -> Address \cup {NoRecord}]
    BY <1>1, <1>5, HandlePreserves
  <2> QED
    BY <1>5, <2>1
<1>6. CASE \E s \in Handle(r, now, ledger) : \E tasks \in DNSWork(r, ledger, s) :
             /\ ledger' = s
             /\ \E done \in SUBSET DOMAIN tasks : records' = Performed(tasks, done)
  BY <1>2, <1>3, <1>5, <1>6
<1> QED
  BY <1>4, <1>6 DEF Call

(* The requests of the IPAssignment controller are well-formed ...         *)
LEMMA AssignmentRequests ==
  ASSUME NEW a \in Assignment
  PROVE  /\ ValidRequest(ReserveIP(Key(a), Owner(a), ForProvider[a].status,
                                   ForProvider[a].createDNS, ForProvider[a].lease), Nat)
         /\ \A r \in Edits(a) \cup Releases(a) : ValidRequest(r, Nat)
<1>1. /\ Key(a) \in Network /\ Owner(a) \in Cluster /\ ForProvider[a].status \in Status
      /\ ForProvider[a].createDNS \in BOOLEAN /\ ForProvider[a].lease \in Nat
  BY AssignmentFacts
<1>2. \A n \in Network, c \in Cluster, st \in Status, dns \in BOOLEAN, k \in Nat :
        ValidRequest(ReserveIP(n, c, st, dns, k), Nat)
  BY DEF ReserveIP, ValidRequest, WithKey, WithAddress, WithDNS, WithInfo
<1>3. \A n \in Network, d \in Digit, c \in Cluster, st \in Status, dns \in BOOLEAN :
        ValidRequest(EditIP(n, d, c, st, dns), Nat)
  BY DEF EditIP, ValidRequest, WithKey, WithAddress, WithDNS, WithInfo, IPArgument
<1>4. \A n \in Network, d \in Digit, k \in Nat : ValidRequest(RenewLease(n, d, k), Nat)
  BY DEF RenewLease, ValidRequest, WithKey, WithAddress, WithDNS, WithInfo, IPArgument
<1>5. \A n \in Network, d \in Digit : ValidRequest(ReleaseIP(n, d), Nat)
  BY DEF ReleaseIP, ValidRequest, WithKey, WithAddress, WithDNS, WithInfo, IPArgument
<1> QED
  BY <1>1, <1>2, <1>3, <1>4, <1>5 DEF Edits, Releases

(* ... and so are those of the Network controller.                         *)
LEMMA NetworkRequests ==
  ASSUME NEW m \in NetworkCR
  PROVE  /\ NetKey(m) \in Network /\ m # NoNetworkCR
         /\ computeDesiredIPs(m) \in SUBSET Digit
         /\ ValidRequest(CreateNetwork(NetworkPools(m)), Nat)
         /\ \A hosts \in SUBSET Digit : ValidRequest(AddIPs(NetKey(m), hosts), Nat)
         /\ ValidRequest(DeleteNetwork(NetKey(m)), Nat)
<1>1. NetKey(m) \in Network /\ m # NoNetworkCR
  BY NetworkAssumption DEF NetKey
<1>2. computeDesiredIPs(m) \in SUBSET Digit
  BY NetworkAssumption DEF computeDesiredIPs
<1>3. NetworkPools(m) \in [Network -> SUBSET Digit]
  BY <1>2, NetworkAssumption DEF NetworkPools
<1>4. \A pools \in [Network -> SUBSET Digit] : ValidRequest(CreateNetwork(pools), Nat)
  BY DEF CreateNetwork, ValidRequest, WithKey, WithAddress, WithDNS, WithInfo
<1>5. \A n \in Network, hosts \in SUBSET Digit : ValidRequest(AddIPs(n, hosts), Nat)
  BY DEF AddIPs, ValidRequest, WithKey, WithAddress, WithDNS, WithInfo
<1>6. \A n \in Network : ValidRequest(DeleteNetwork(n), Nat)
  BY DEF DeleteNetwork, ValidRequest, WithKey, WithAddress, WithDNS, WithInfo
<1> QED
  BY <1>1, <1>2, <1>3, <1>4, <1>5, <1>6

(* Update edits, and with a lease renews, every address of its list and    *)
(* nothing else.                                                           *)
LEMMA UpdateCallsType ==
  ASSUME NEW a \in Assignment, NEW S \in SUBSET Digit, NEW order \in Orders(S)
  PROVE  /\ UpdateCalls(a, order) \in Seq(Edits(a))
         /\ \A i \in DOMAIN UpdateCalls(a, order) : UpdateCalls(a, order)[i].ip.host \in S
<1> DEFINE p == ForProvider[a]
           edit(d) == EditIP(Key(a), d, Owner(a), p.status, p.createDNS)
           renew(d) == RenewLease(Key(a), d, p.lease)
           c == Cardinality(S)
<1>1. c \in Nat
  BY FiniteAssumption, FS_Subset, FS_CardinalityType
<1> HIDE DEF c
<1>2. order \in [1..c -> S] /\ Len(order) = c /\ DOMAIN order = 1..c
  BY <1>1 DEF Orders, c
<1>3. \A d \in S : /\ edit(d) \in Edits(a) /\ edit(d).ip.host \in S
                   /\ renew(d) \in Edits(a) /\ renew(d).ip.host \in S
  BY DEF Edits, EditIP, RenewLease
<1>4. CASE Leased(a)
  <2> DEFINE call(i) == IF i % 2 = 1 THEN edit(order[(i + 1) \div 2]) ELSE renew(order[i \div 2])
  <2>1. UpdateCalls(a, order) = [i \in 1..(2 * c) |-> call(i)]
    BY <1>2, <1>4 DEF UpdateCalls
  <2>2. ASSUME NEW i \in 1..(2 * c) PROVE call(i) \in Edits(a) /\ call(i).ip.host \in S
    <3>1. i % 2 = 1 => (i + 1) \div 2 \in 1..c
      BY <1>1
    <3>2. i % 2 # 1 => i \div 2 \in 1..c
      BY <1>1
    <3>3. i % 2 = 1 => order[(i + 1) \div 2] \in S
      BY <1>2, <3>1
    <3>4. i % 2 # 1 => order[i \div 2] \in S
      BY <1>2, <3>2
    <3> HIDE DEF edit, renew
    <3>5. CASE i % 2 = 1
      BY <1>3, <3>3, <3>5
    <3>6. CASE i % 2 # 1
      BY <1>3, <3>4, <3>6
    <3> QED
      BY <3>5, <3>6
  <2> HIDE DEF call
  <2>3. 2 * c \in Nat
    BY <1>1
  <2> DEFINE k == 2 * c
  <2> HIDE DEF k
  <2>4. [i \in 1..k |-> call(i)] \in Seq(Edits(a))
    BY <2>2, <2>3 DEF k
  <2> QED
    BY <2>1, <2>2, <2>4 DEF k
<1>5. CASE ~Leased(a)
  <2>1. UpdateCalls(a, order) = [i \in 1..c |-> edit(order[i])]
    BY <1>2, <1>5 DEF UpdateCalls
  <2>2. \A i \in 1..c : edit(order[i]) \in Edits(a) /\ edit(order[i]).ip.host \in S
    BY <1>2, <1>3
  <2> HIDE DEF edit
  <2> QED
    BY <1>1, <2>1, <2>2
<1> QED
  BY <1>4, <1>5

(* Delete releases every address of its list and nothing else.             *)
LEMMA DeleteCallsType ==
  ASSUME NEW a \in Assignment, NEW S \in SUBSET Digit, NEW order \in Orders(S)
  PROVE  /\ DeleteCalls(a, order) \in Seq(Releases(a))
         /\ \A i \in DOMAIN DeleteCalls(a, order) : DeleteCalls(a, order)[i].ip.host \in S
         /\ S \subseteq {DeleteCalls(a, order)[i].ip.host : i \in DOMAIN DeleteCalls(a, order)}
<1> DEFINE c == Cardinality(S)
<1>1. IsFiniteSet(S) /\ c \in Nat
  BY FiniteAssumption, FS_Subset, FS_CardinalityType
<1>2. order \in [1..c -> S] /\ DOMAIN order = 1..c
  BY DEF Orders
<1> HIDE DEF c
<1>3. \A d \in S : ReleaseIP(Key(a), d) \in Releases(a) /\ ReleaseIP(Key(a), d).ip.host = d
  BY DEF Releases, ReleaseIP
<1>4. DeleteCalls(a, order) = [i \in 1..c |-> ReleaseIP(Key(a), order[i])]
  BY <1>2 DEF DeleteCalls
<1>5. DeleteCalls(a, order) \in Seq(Releases(a))
  BY <1>1, <1>2, <1>3, <1>4
<1>6. \A i \in 1..c : DeleteCalls(a, order)[i].ip.host = order[i] /\ order[i] \in S
  BY <1>2, <1>3, <1>4
<1>7. \A d \in S : \E i \in 1..c : order[i] = d
  BY <1>1, <1>2, OrdersAll
<1>8. DOMAIN DeleteCalls(a, order) = 1..c
  BY <1>4
<1> QED
  BY <1>5, <1>6, <1>7, <1>8

-----------------------------------------------------------------------------
(* Types.                                                                  *)

APIType ==
  /\ ledger \in Ledgers(Nat)
  /\ records \in [Cluster -> Address \cup {NoRecord}]
  /\ now \in 0..MaxNow /\ faults \in 0..MaxFaults /\ others \in 0..MaxOthers

(* The worker starts idle.                                                 *)
LEMMA InitTypes == Init => InductiveInv
<1> SUFFICES ASSUME Init PROVE InductiveInv
  OBVIOUS
<1>1. APIType
  BY PoolsAssumption, BoundsAssumption DEF Init, APIInit, APIType
<1>2. AssignmentTypeOK
  <2>1. doomed = FALSE /\ step = "idle" /\ cr = NoCR
    BY DEF Init, AssignmentInit
  <2>2. synced \in [Assignment -> [Digit -> {-1} \cup 0..MaxNow]] /\ observedAt \in 0..MaxNow
    BY BoundsAssumption DEF Init, AssignmentInit
  <2> QED
    BY <2>1, <2>2 DEF Init, AssignmentInit, AssignmentTypeOK
<1>3. NetworkTypeOK
  BY DEF Init, NetworkInit, NetworkTypeOK
<1>4. CallsOfCR
  BY DEF Init, AssignmentInit, CallsOfCR
<1> QED
  BY <1>1, <1>2, <1>3, <1>4 DEF InductiveInv, TypeOK, APIType

(* What Observe takes for the addresses of an assignment are host parts.   *)
LEMMA ObservedType ==
  ASSUME TypeOK, NEW a \in Assignment
  PROVE  /\ heldBy(a) \in SUBSET Digit /\ atProvider[a] \in SUBSET Digit
         /\ Observed(a) \in SUBSET Digit
         /\ StartFrom(a) \in SUBSET Digit /\ Missing(a) \in Nat
<1>1. heldBy(a) \in SUBSET Digit
  BY DEF heldBy, GetNetworkIPs, handleAPINetworkIPs
<1>2. atProvider[a] \in SUBSET Digit
  BY DEF TypeOK, AssignmentTypeOK
<1>3. ForProvider[a].countIPs \in Nat
  BY AssignmentFacts
<1>4. /\ FirstOf(heldBy(a), ForProvider[a].countIPs) \in SUBSET heldBy(a)
      /\ Cardinality(FirstOf(heldBy(a), ForProvider[a].countIPs)) \in Nat
      /\ Cardinality(FirstOf(heldBy(a), ForProvider[a].countIPs)) <= ForProvider[a].countIPs
  BY <1>1, <1>3, FirstOfBound
<1>5. Observed(a) \in SUBSET Digit
  BY <1>1, <1>2, <1>4 DEF Observed
<1>6. StartFrom(a) \in SUBSET Digit
  BY <1>1, <1>4 DEF StartFrom
<1>7. Missing(a) \in Nat
  BY <1>3, <1>4 DEF Missing, StartFrom
<1> QED
  BY <1>1, <1>2, <1>5, <1>6, <1>7

(* A fault is counted.                                                     *)
LEMMA FaultType ==
  ASSUME TypeOK, NEW f, Fault(f)
  PROVE  faults' \in 0..MaxFaults
  BY BoundsAssumption DEF TypeOK, Fault

(* A reconcile that leaves leases in order is noted for their addresses.   *)
LEMMA SyncedType ==
  ASSUME AssignmentTypeOK, NEW a \in Assignment, NEW S, NEW t \in 0..MaxNow
  PROVE  /\ Synced(a, S, t) \in [Assignment -> [Digit -> {-1} \cup 0..MaxNow]]
         /\ \A b \in Assignment, d \in Digit :
              Synced(a, S, t)[b][d] = IF b = a /\ d \in S THEN t ELSE synced[b][d]
<1>1. synced \in [Assignment -> [Digit -> {-1} \cup 0..MaxNow]]
  BY DEF AssignmentTypeOK
<1> DEFINE mine == [d \in Digit |-> IF d \in S THEN t ELSE synced[a][d]]
<1>2. mine \in [Digit -> {-1} \cup 0..MaxNow]
  BY <1>1
<1>3. Synced(a, S, t) = [synced EXCEPT ![a] = mine]
  BY <1>1 DEF Synced
<1>4. \A d \in Digit : mine[d] = IF d \in S THEN t ELSE synced[a][d]
  OBVIOUS
<1> HIDE DEF mine
<1> QED
  BY <1>1, <1>2, <1>3, <1>4

(* The deletion timestamp as the reconcile read it.                        *)
LEMMA SawDeletion ==
  ASSUME NEW a, NEW S, Saw(a, S)
  PROVE  /\ cr' = a /\ observedAt' = now /\ seen' = S \cap heldBy(a)
         /\ a \in deleting => doomed' = TRUE
         /\ a \notin deleting => doomed' = FALSE
<1>1. cr' = a /\ observedAt' = now /\ seen' = S \cap heldBy(a) /\ doomed' = (a \in deleting)
  BY Zenon DEF Saw
<1>2. doomed' \in BOOLEAN /\ (doomed' <=> a \in deleting)
  <2>1. doomed' = (a \in deleting)
    BY <1>1, Zenon
  <2>2. doomed' \in BOOLEAN
    BY <2>1
  <2> QED
    BY <2>1, <2>2
<1>3. a \notin deleting => doomed' = FALSE
  <2>1. a \notin deleting => doomed' \in BOOLEAN /\ ~doomed'
    BY <1>2
  <2> QED
    BY <2>1
<1>4. a \in deleting => doomed' = TRUE
  BY <1>2
<1> QED
  BY <1>1, <1>3, <1>4, Zenon

(* A reconcile that observes keeps the types ...                           *)
LEMMA ReconcileTypes ==
  ASSUME InductiveInv, NEW a \in Assignment, Reconcile(a), UNCHANGED netVars
  PROVE  InductiveInv'
<1>0. TypeOK /\ APIType /\ AssignmentTypeOK /\ NetworkTypeOK /\ CallsOfCR
  BY DEF InductiveInv, TypeOK, APIType
<1>1. NetworkTypeOK'
  BY <1>0 DEF NetworkTypeOK, netVars, netCRVars
<1>2. /\ heldBy(a) \in SUBSET Digit /\ atProvider[a] \in SUBSET Digit
      /\ Observed(a) \in SUBSET Digit
  BY <1>0, ObservedType
<1>3. step = "idle" /\ cr = NoCR /\ a \notin gone /\ todo = <<>>
  BY <1>0 DEF Reconcile, Reads, ObserveAbsent, ObserveUpToDate, ObserveOutdated,
              ObserveForDeletion, ObserveGone, ObserveFails, AssignmentTypeOK
<1>4. CASE ObserveAbsent(a)
  <2>1. APIType'
    BY <1>0, <1>4 DEF ObserveAbsent, APIType, apiVars
  <2>2. cr' = a /\ observedAt' = now /\ seen' = {} /\ doomed' = FALSE
    <3>1. Saw(a, {}) /\ a \notin deleting
      BY <1>4 DEF ObserveAbsent
    <3>2. cr' = a /\ observedAt' = now /\ seen' = {} \cap heldBy(a) /\ doomed' = FALSE
      BY <3>1, SawDeletion, Zenon
    <3> QED
      BY <3>2
  <2>4. AssignmentTypeOK'
    BY <1>0, <1>2, <1>3, <1>4, <2>2 DEF ObserveAbsent, AddFinalizer, APIType, apiVars, AssignmentTypeOK
  <2>3. CallsOfCR'
    BY <1>4 DEF ObserveAbsent, CallsOfCR
  <2> QED
    BY <1>1, <2>1, <2>3, <2>4 DEF InductiveInv, TypeOK, APIType
<1>5. CASE ObserveUpToDate(a)
  <2>1. APIType'
    BY <1>0, <1>5 DEF ObserveUpToDate, APIType, apiVars
  <2>2. cr' = a /\ observedAt' = now /\ seen' = Observed(a) \cap heldBy(a) /\ doomed' = FALSE
    BY <1>5, SawDeletion DEF ObserveUpToDate
  <2>4. synced' \in [Assignment -> [Digit -> {-1} \cup 0..MaxNow]]
    BY <1>0, <1>5, SyncedType DEF ObserveUpToDate, APIType
  <2>5. AssignmentTypeOK'
    BY <1>0, <1>2, <1>3, <1>5, <2>2, <2>4
       DEF ObserveUpToDate, AddFinalizer, ToStore, APIType, apiVars, AssignmentTypeOK
  <2>3. CallsOfCR'
    BY <1>5 DEF ObserveUpToDate, ToStore, CallsOfCR
  <2> QED
    BY <1>1, <2>1, <2>3, <2>5 DEF InductiveInv, TypeOK, APIType
<1>6. CASE ObserveOutdated(a)
  <2>1. APIType'
    BY <1>0, <1>6 DEF ObserveOutdated, APIType, apiVars
  <2>2. ips' \in SUBSET Digit
    BY <1>2, <1>6 DEF ObserveOutdated, AddFinalizer
  <2>6. cr' = a /\ observedAt' = now /\ seen' = Observed(a) \cap heldBy(a) /\ doomed' = FALSE
    BY <1>6, SawDeletion DEF ObserveOutdated
  <2>3. AssignmentTypeOK'
    BY <1>0, <1>2, <1>3, <1>6, <2>2, <2>6
       DEF ObserveOutdated, AddFinalizer, APIType, apiVars, AssignmentTypeOK
  <2>4. PICK order \in Orders(ips') : todo' = UpdateCalls(a, order)
    BY <1>6 DEF ObserveOutdated
  <2>5. todo' \in Seq(Edits(a)) /\ \A i \in DOMAIN todo' : todo'[i].ip.host \in ips'
    BY <2>2, <2>4, UpdateCallsType
  <2>7. CallsOfCR'
    BY <2>5, <2>6 DEF CallsOfCR, Edits, Key, Owner, EditIP, RenewLease
  <2> QED
    BY <1>1, <2>1, <2>3, <2>7 DEF InductiveInv, TypeOK, APIType
<1>7. CASE ObserveForDeletion(a)
  <2>1. APIType'
    BY <1>0, <1>7 DEF ObserveForDeletion, APIType, apiVars
  <2>2. ips' \in SUBSET Digit
    BY <1>2, <1>7 DEF ObserveForDeletion
  <2>3. AssignmentTypeOK'
    BY <1>0, <1>2, <1>3, <1>7, <2>2
       DEF ObserveForDeletion, Saw, APIType, apiVars, crVars, AssignmentTypeOK
  <2>4. PICK order \in Orders(ips') : todo' = DeleteCalls(a, order)
    BY <1>7 DEF ObserveForDeletion
  <2>5. todo' \in Seq(Releases(a)) /\ \A i \in DOMAIN todo' : todo'[i].ip.host \in ips'
    BY <2>2, <2>4, DeleteCallsType
  <2>6. cr' = a /\ doomed' = TRUE
    BY <1>7 DEF ObserveForDeletion, Saw
  <2>7. CallsOfCR'
    BY <2>5, <2>6 DEF CallsOfCR, Releases, Key, ReleaseIP
  <2> QED
    BY <1>1, <2>1, <2>3, <2>7 DEF InductiveInv, TypeOK, APIType
<1>8. CASE ObserveGone(a)
  <2>1. APIType'
    BY <1>0, <1>8 DEF ObserveGone, APIType, apiVars
  <2>2. AssignmentTypeOK'
    BY <1>0, <1>3, <1>8 DEF ObserveGone, Reads, workerVars, history, APIType, apiVars,
                             AssignmentTypeOK
  <2>3. CallsOfCR'
    BY <1>3, <1>8 DEF ObserveGone, workerVars, CallsOfCR
  <2> QED
    BY <1>1, <2>1, <2>2, <2>3 DEF InductiveInv, TypeOK, APIType
<1>9. CASE ObserveFails(a)
  <2>1. APIType'
    BY <1>0, <1>9, FaultType DEF ObserveFails, APIType
  <2>2. AssignmentTypeOK'
    BY <1>0, <1>3, <1>9 DEF ObserveFails, crVars, workerVars, APIType, AssignmentTypeOK
  <2>3. CallsOfCR'
    BY <1>3, <1>9 DEF ObserveFails, workerVars, CallsOfCR
  <2> QED
    BY <1>1, <2>1, <2>2, <2>3 DEF InductiveInv, TypeOK, APIType
<1> QED
  BY <1>4, <1>5, <1>6, <1>7, <1>8, <1>9 DEF Reconcile

(* ... and so does every step after it: Create, ...                        *)
LEMMA CreateTypes ==
  ASSUME InductiveInv, UNCHANGED netVars,
         CreateLists \/ CreateRefused \/ CreateListFails \/ CreateDone
           \/ \E answer \in Answers : Reserve(answer)
  PROVE  InductiveInv'
<1>0. TypeOK /\ APIType /\ AssignmentTypeOK /\ NetworkTypeOK /\ CallsOfCR
  BY DEF InductiveInv, TypeOK, APIType
<1>1. NetworkTypeOK'
  BY <1>0 DEF NetworkTypeOK, netVars, netCRVars
<1>2. step \in {"create", "reserve"} /\ cr \in Assignment \ gone /\ cr # NoCR /\ todo = <<>>
  BY <1>0, AssignmentAssumption
     DEF CreateLists, CreateRefused, CreateListFails, CreateDone, Reserve, AssignmentTypeOK
<1>3. CASE CreateLists
  <2>1. StartFrom(cr) \in SUBSET Digit /\ Missing(cr) \in Nat
    BY <1>0, <1>2, ObservedType
  <2>2. APIType'
    BY <1>0, <1>3 DEF CreateLists, APIType, apiVars
  <2>3. AssignmentTypeOK'
    BY <1>0, <1>2, <1>3, <2>1 DEF CreateLists, crVars, history, AssignmentTypeOK
  <2>4. CallsOfCR'
    BY <1>3 DEF CreateLists, CallsOfCR
  <2> QED
    BY <1>1, <2>2, <2>3, <2>4 DEF InductiveInv, TypeOK, APIType
<1>4. CASE CreateRefused
  <2>1. APIType'
    BY <1>0, <1>4 DEF CreateRefused, APIType, apiVars
  <2>2. AssignmentTypeOK'
    BY <1>0, <1>2, <1>4 DEF CreateRefused, ToAnnotate, crVars, history, AssignmentTypeOK
  <2>3. CallsOfCR'
    BY <1>4 DEF CreateRefused, ToAnnotate, CallsOfCR
  <2> QED
    BY <1>1, <2>1, <2>2, <2>3 DEF InductiveInv, TypeOK, APIType
<1>5. CASE CreateListFails
  <2>1. APIType'
    BY <1>0, <1>5, FaultType DEF CreateListFails, APIType
  <2>2. AssignmentTypeOK'
    BY <1>0, <1>2, <1>5 DEF CreateListFails, ToAnnotate, crVars, AssignmentTypeOK
  <2>3. CallsOfCR'
    BY <1>5 DEF CreateListFails, ToAnnotate, CallsOfCR
  <2> QED
    BY <1>1, <2>1, <2>2, <2>3 DEF InductiveInv, TypeOK, APIType
<1>6. CASE CreateDone
  <2>1. APIType'
    BY <1>0, <1>6 DEF CreateDone, APIType, apiVars
  <2>2. ips' \in SUBSET Digit
    BY <1>0, <1>2, <1>6 DEF CreateDone, AssignmentTypeOK
  <2>3. AssignmentTypeOK'
    BY <1>0, <1>2, <1>6, <2>2 DEF CreateDone, ToAnnotate, crVars, history, AssignmentTypeOK
  <2>4. CallsOfCR'
    BY <1>6 DEF CreateDone, ToAnnotate, CallsOfCR
  <2> QED
    BY <1>1, <2>1, <2>3, <2>4 DEF InductiveInv, TypeOK, APIType
<1>7. ASSUME NEW answer \in Answers, Reserve(answer) PROVE InductiveInv'
  <2> DEFINE p == ForProvider[cr]
             r == ReserveIP(p.networkKey, p.cluster, p.status, p.createDNS, p.lease)
  <2>1. ValidRequest(r, Nat)
    BY <1>2, AssignmentRequests DEF Key, Owner
  <2>2. Call(r, answer)
    BY <1>7 DEF Reserve
  <2> HIDE DEF r
  <2>3. APIType'
    BY <1>0, <2>1, <2>2, CallEffect DEF APIType
  <2>4. \/ /\ taken' \in SUBSET Digit /\ need' = need - 1
           /\ step' = step /\ todo' = todo /\ disturbed' = disturbed
        \/ ToAnnotate /\ disturbed' = disturbed \cup {cr}
    BY <1>0, <1>7 DEF Reserve, AssignmentTypeOK
  <2>5. unheard' \in SUBSET Assignment
    BY <1>0, <1>2, <1>7 DEF Reserve, Remember, AssignmentTypeOK
  <2>6. /\ UNCHANGED <<crVars, cr, ips, doomed, seen, observedAt, synced>>
        /\ need \in Nat /\ need > 0 /\ step = "reserve"
    BY <1>0, <1>7 DEF Reserve, AssignmentTypeOK
  <2>7. AssignmentTypeOK'
    BY <1>0, <1>2, <2>4, <2>5, <2>6 DEF ToAnnotate, crVars, AssignmentTypeOK
  <2>8. CallsOfCR'
    BY <2>4, <2>6 DEF ToAnnotate, CallsOfCR
  <2> QED
    BY <1>1, <2>3, <2>7, <2>8 DEF InductiveInv, TypeOK, APIType
<1> QED
  BY <1>3, <1>4, <1>5, <1>6, <1>7

(* ... the calls of Update and Delete, ...                                 *)
LEMMA SendTypes ==
  ASSUME InductiveInv, UNCHANGED netVars, NEW answer \in Answers, Send(answer)
  PROVE  InductiveInv'
<1>0. TypeOK /\ APIType /\ AssignmentTypeOK /\ NetworkTypeOK /\ CallsOfCR
  BY DEF InductiveInv, TypeOK, APIType
<1>1. NetworkTypeOK'
  BY <1>0 DEF NetworkTypeOK, netVars, netCRVars
<1>2. step = "send" /\ cr \in Assignment \ gone /\ todo # <<>>
  BY <1>0 DEF Send, AssignmentTypeOK
<1> DEFINE R == IF doomed THEN Releases(cr) ELSE Edits(cr)
<1>3. todo \in Seq(R) /\ \A i \in DOMAIN todo : todo[i].ip.host \in ips
  BY <1>0, <1>2 DEF CallsOfCR
<1>4. \A r \in R : ValidRequest(r, Nat)
  BY <1>2, AssignmentRequests
<1> HIDE DEF R
<1>5. Head(todo) \in R /\ Tail(todo) \in Seq(R)
      /\ \A i \in DOMAIN Tail(todo) : Tail(todo)[i].ip.host \in ips
  BY <1>2, <1>3
<1>6. PICK r : r = Head(todo) /\ ValidRequest(r, Nat) /\ Call(r, answer)
  BY <1>4, <1>5 DEF Send
<1>7. APIType'
  BY <1>0, <1>6, CallEffect DEF APIType
<1>8. \/ todo' = Tail(todo) /\ step' = step /\ taken' = taken /\ need' = need
      \/ ToStore
  BY DEF Send
<1>9. unheard' \in SUBSET Assignment /\ disturbed' \in SUBSET Assignment
  BY <1>0, <1>2 DEF Send, Remember, AssignmentTypeOK
<1>10. UNCHANGED <<crVars, cr, ips, doomed, seen, observedAt, synced>>
  BY DEF Send
<1>11. AssignmentTypeOK'
  BY <1>0, <1>2, <1>8, <1>9, <1>10 DEF ToStore, crVars, AssignmentTypeOK
<1>12. CallsOfCR'
  <2>1. CASE ToStore
    BY <2>1 DEF ToStore, CallsOfCR
  <2>2. CASE todo' = Tail(todo) /\ step' = step
    <3>1. (IF doomed THEN Releases(cr) ELSE Edits(cr))' = R
      BY <1>10 DEF R, Releases, Edits, Key, Owner, EditIP, RenewLease, ReleaseIP
    <3> QED
      BY <1>5, <1>10, <2>2, <3>1 DEF CallsOfCR
  <2> QED
    BY <1>8, <2>1, <2>2
<1> QED
  BY <1>1, <1>7, <1>11, <1>12 DEF InductiveInv, TypeOK, APIType

(* ... the annotations of a Create, ...                                    *)
LEMMA AnnotateTypes ==
  ASSUME InductiveInv, Annotate \/ AnnotateFails, UNCHANGED netVars
  PROVE  InductiveInv'
<1>0. TypeOK /\ APIType /\ AssignmentTypeOK /\ NetworkTypeOK /\ CallsOfCR
  BY DEF InductiveInv, TypeOK, APIType
<1>1. NetworkTypeOK'
  BY <1>0 DEF NetworkTypeOK, netVars, netCRVars
<1>2. /\ step = "annotate" /\ step' = "store" /\ cr \in Assignment \ gone /\ cr # NoCR
      /\ todo = <<>> /\ UNCHANGED <<atProvider, deleting, finalizer, gone, cr, doomed, todo, taken, need>>
  BY <1>0, AssignmentAssumption DEF Annotate, AnnotateFails, Annotated, crVars, AssignmentTypeOK
<1>3. APIType'
  BY <1>0, FaultType DEF Annotate, AnnotateFails, APIType, apiVars
<1>4. ips' \in SUBSET Digit
  BY <1>0, <1>2 DEF Annotate, AnnotateFails, Annotated, AssignmentTypeOK
<1>5. /\ pending' \subseteq pending /\ UNCHANGED <<seen, observedAt, synced, unheard>>
      /\ disturbed' \in SUBSET Assignment
  BY <1>0, <1>2 DEF Annotate, AnnotateFails, crVars, history, AssignmentTypeOK
<1>6. AssignmentTypeOK'
  BY <1>0, <1>2, <1>4, <1>5 DEF AssignmentTypeOK
<1>7. CallsOfCR'
  BY <1>2 DEF CallsOfCR
<1> QED
  BY <1>1, <1>3, <1>6, <1>7 DEF InductiveInv, TypeOK, APIType

(* ... their end, the write of the status, and a crash.                    *)
LEMMA StoreTypes ==
  ASSUME InductiveInv, ((Sent \/ StoreStatus \/ StoreStatusFails) /\ UNCHANGED netVars) \/ Crash
  PROVE  InductiveInv'
<1>0. TypeOK /\ APIType /\ AssignmentTypeOK /\ NetworkTypeOK /\ CallsOfCR
  BY DEF InductiveInv, TypeOK, APIType
<1>1. NetworkTypeOK'
  BY <1>0 DEF NetworkTypeOK, netVars, netCRVars, Crash, NetToIdle
<1>2. 0 \in 0..MaxNow
  BY BoundsAssumption
<1>3. CASE Sent
  <2>1. APIType'
    BY <1>0, <1>3 DEF Sent, APIType, apiVars
  <2>2. synced' \in [Assignment -> [Digit -> {-1} \cup 0..MaxNow]]
    BY <1>0, <1>3, SyncedType DEF Sent, AssignmentTypeOK
  <2>3. AssignmentTypeOK'
    BY <1>0, <1>3, <2>2 DEF Sent, ToStore, crVars, AssignmentTypeOK
  <2>4. CallsOfCR'
    BY <1>3 DEF Sent, ToStore, CallsOfCR
  <2> QED
    BY <1>1, <2>1, <2>3, <2>4 DEF InductiveInv, TypeOK, APIType
<1>4. CASE StoreStatus
  <2>1. APIType'
    BY <1>0, <1>4 DEF StoreStatus, APIType, apiVars
  <2>2. atProvider' \in [Assignment -> SUBSET Digit]
    BY <1>0, <1>4 DEF StoreStatus, AssignmentTypeOK
  <2>3. doomed' = FALSE /\ step' = "idle" /\ cr' = NoCR
    BY <1>4 DEF StoreStatus, ToIdle
  <2>4. AssignmentTypeOK'
    BY <1>0, <1>2, <1>4, <2>2, <2>3 DEF StoreStatus, ToIdle, AssignmentTypeOK
  <2>5. CallsOfCR'
    BY <2>3 DEF CallsOfCR
  <2> QED
    BY <1>1, <2>1, <2>4, <2>5 DEF InductiveInv, TypeOK, APIType
<1>5. CASE StoreStatusFails
  <2>1. APIType'
    BY <1>0, <1>5, FaultType DEF StoreStatusFails, APIType
  <2>2. doomed' = FALSE /\ step' = "idle" /\ cr' = NoCR
    BY <1>5 DEF StoreStatusFails, ToIdle
  <2>3. cr \in Assignment
    BY <1>0, <1>5 DEF StoreStatusFails, AssignmentTypeOK
  <2>4. AssignmentTypeOK'
    BY <1>0, <1>2, <1>5, <2>2, <2>3 DEF StoreStatusFails, ToIdle, crVars, AssignmentTypeOK
  <2>5. CallsOfCR'
    BY <2>2 DEF CallsOfCR
  <2> QED
    BY <1>1, <2>1, <2>4, <2>5 DEF InductiveInv, TypeOK, APIType
<1>6. CASE Crash
  <2>1. APIType'
    BY <1>0, <1>6, FaultType DEF Crash, APIType
  <2>2. doomed' = FALSE /\ step' = "idle" /\ cr' = NoCR
    BY <1>6 DEF Crash, WorkerCrash, ToIdle
  <2>3. disturbed' \in SUBSET Assignment
    BY <1>0, <1>6 DEF Crash, WorkerCrash, AssignmentTypeOK
  <2>4. AssignmentTypeOK'
    BY <1>0, <1>2, <1>6, <2>2, <2>3 DEF Crash, WorkerCrash, ToIdle, crVars, AssignmentTypeOK
  <2>5. CallsOfCR'
    BY <2>2 DEF CallsOfCR
  <2> QED
    BY <1>1, <2>1, <2>4, <2>5 DEF InductiveInv, TypeOK, APIType
<1> QED
  BY <1>3, <1>4, <1>5, <1>6

(* The other clients and the reclaimer have a request each.                *)
LEMMA WorldEffect ==
  ASSUME TypeOK, OtherClient \/ Reclaim
  PROVE  /\ records' \in [Cluster -> Address \cup {NoRecord}]
         /\ ledger' \in Ledgers(Nat)
         /\ \E r : /\ r \in Others \/ r.kind = "reclaim"
                   /\ Allowed(r, now, ledger, ledger')
<1>1. ledger \in Ledgers(Nat) /\ records \in [Cluster -> Address \cup {NoRecord}] /\ now \in Nat
  BY BoundsAssumption DEF TypeOK
<1>2. PICK r : /\ r \in Others \/ (r.kind = "reclaim" /\ r.now = now)
               /\ Serve(r)
  <2>1. CASE OtherClient
    BY <2>1 DEF OtherClient
  <2>2. CASE Reclaim
    BY <2>2 DEF Reclaim
  <2> QED
    BY <2>1, <2>2
<1>3. ValidRequest(r, Nat) \/ (r.kind = "reclaim" /\ r.now \in Nat)
  BY <1>1, <1>2, OthersAssumption
<1>4. PICK s \in Handle(r, now, ledger) : \E tasks \in DNSWork(r, ledger, s) :
        ledger' = s /\ records' = Performed(tasks, DOMAIN tasks)
  BY <1>2 DEF Serve
<1>5. PICK tasks \in DNSWork(r, ledger, s) : ledger' = s /\ records' = Performed(tasks, DOMAIN tasks)
  BY <1>4
<1>6. /\ s \in Ledgers(Nat) /\ Allowed(r, now, ledger, s)
      /\ Performed(tasks, DOMAIN tasks) \in [Cluster -> Address \cup {NoRecord}]
  BY <1>1, <1>3, HandlePreserves
<1> QED
  BY <1>2, <1>5, <1>6

(* Their steps keep the types.                                             *)
LEMMA WorldTypes ==
  ASSUME InductiveInv, OtherClient \/ Reclaim \/ Pass, Notice, UNCHANGED netVars
  PROVE  InductiveInv'
<1>0. TypeOK /\ APIType /\ AssignmentTypeOK /\ NetworkTypeOK /\ CallsOfCR
  BY DEF InductiveInv, TypeOK, APIType
<1>1. NetworkTypeOK'
  BY <1>0 DEF NetworkTypeOK, netVars, netCRVars
<1>2. APIType'
  <2>1. CASE OtherClient
    BY <1>0, <2>1, WorldEffect, BoundsAssumption DEF OtherClient, APIType
  <2>2. CASE Reclaim
    BY <1>0, <2>2, WorldEffect DEF Reclaim, APIType
  <2>3. CASE Pass
    BY <1>0, <2>3, BoundsAssumption DEF Pass, APIType
  <2> QED
    BY <2>1, <2>2, <2>3
<1>3. disturbed' \in SUBSET Assignment
  BY <1>0 DEF Notice, AssignmentTypeOK
<1>4. AssignmentTypeOK'
  BY <1>0, <1>3 DEF Notice, crVars, workerVars, AssignmentTypeOK
<1>5. CallsOfCR'
  BY <1>0 DEF Notice, workerVars, CallsOfCR, Edits, Releases, Key, Owner, EditIP, RenewLease, ReleaseIP
<1> QED
  BY <1>1, <1>2, <1>4, <1>5 DEF InductiveInv, TypeOK, APIType

(* The Network controller's steps after Observe are calls with requests of *)
(* its own: create, add and delete.                                        *)
LEMMA NetWorkCalls ==
  ASSUME TypeOK, NetWork
  PROVE  \/ /\ UNCHANGED <<ledger, records, now, others>>
            /\ faults' = faults \/ Fault("http") \/ Fault("status")
            /\ NetUpdate \/ NetUpdateFails \/ NetAnnotate \/ NetAnnotateFails
         \/ \E r, answer :
              /\ ValidRequest(r, Nat) /\ Call(r, answer) /\ UNCHANGED netCRVars
              /\ NetToIdle \/ (netStep' = "annotate" /\ UNCHANGED <<netCR, missing>>)
              /\ \/ netStep \in {"create", "add"} /\ r.kind \in {"create network", "add ip"}
                 \/ netStep = "delete" /\ r.kind = "delete network"
<1>1. NetworkTypeOK
  BY DEF TypeOK
<1>2. CASE NetUpdate \/ NetUpdateFails \/ NetAnnotate \/ NetAnnotateFails
  BY <1>2 DEF NetUpdate, NetUpdateFails, NetAnnotate, NetAnnotateFails, apiVars
<1>3. CASE NetCreate
  <2>1. netStep = "create" /\ netCR \in NetworkCR
    BY <1>1, <1>3 DEF NetCreate, NetworkTypeOK
  <2>2. PICK r : r = CreateNetwork(NetworkPools(netCR)) /\ NetCall(r)
    BY <1>3 DEF NetCreate
  <2>3. ValidRequest(r, Nat) /\ r.kind = "create network"
    BY <2>1, <2>2, NetworkRequests DEF CreateNetwork
  <2>4. PICK answer : Call(r, answer)
    BY <2>2 DEF NetCall
  <2>5. UNCHANGED netCRVars
    BY <2>2 DEF NetCall
  <2>6. netStep' = "annotate" /\ UNCHANGED <<netCR, missing>>
    BY <1>3 DEF NetCreate
  <2> QED
    BY <2>1, <2>3, <2>4, <2>5, <2>6
<1>4. CASE NetAdd
  <2>1. netStep = "add" /\ netCR \in NetworkCR /\ missing \in SUBSET Digit
    BY <1>1, <1>4 DEF NetAdd, NetworkTypeOK
  <2>2. PICK r : r = AddIPs(NetKey(netCR), missing) /\ NetCall(r)
    BY <1>4 DEF NetAdd
  <2>3. ValidRequest(r, Nat) /\ r.kind = "add ip"
    BY <2>1, <2>2, NetworkRequests DEF AddIPs
  <2>4. PICK answer : Call(r, answer)
    BY <2>2 DEF NetCall
  <2>5. UNCHANGED netCRVars
    BY <2>2 DEF NetCall
  <2>6. NetToIdle
    BY <1>4 DEF NetAdd
  <2> QED
    BY <2>1, <2>3, <2>4, <2>5, <2>6
<1>5. CASE NetDelete
  <2>1. netStep = "delete" /\ netCR \in NetworkCR
    BY <1>1, <1>5 DEF NetDelete, NetworkTypeOK
  <2>2. PICK r : r = DeleteNetwork(NetKey(netCR)) /\ NetCall(r)
    BY <1>5 DEF NetDelete
  <2>3. ValidRequest(r, Nat) /\ r.kind = "delete network"
    BY <2>1, <2>2, NetworkRequests DEF DeleteNetwork
  <2>4. PICK answer : Call(r, answer)
    BY <2>2 DEF NetCall
  <2>5. UNCHANGED netCRVars
    BY <2>2 DEF NetCall
  <2>6. NetToIdle
    BY <1>5 DEF NetDelete
  <2> QED
    BY <2>1, <2>3, <2>4, <2>5, <2>6
<1> QED
  BY <1>2, <1>3, <1>4, <1>5 DEF NetWork

(* They keep the types, ...                                                *)
LEMMA NetWorkTypes ==
  ASSUME InductiveInv, NetWork, Notice
  PROVE  InductiveInv'
<1>0. TypeOK /\ APIType /\ AssignmentTypeOK /\ NetworkTypeOK /\ CallsOfCR
  BY DEF InductiveInv, TypeOK, APIType
<1>1. APIType'
  <2>1. CASE UNCHANGED <<ledger, records, now, others>> /\ (faults' = faults \/ Fault("http") \/ Fault("status"))
    BY <1>0, <2>1, FaultType DEF APIType
  <2>2. ASSUME NEW r, NEW answer, ValidRequest(r, Nat), Call(r, answer) PROVE APIType'
    BY <1>0, <2>2, CallEffect DEF APIType
  <2> QED
    BY <1>0, <2>1, <2>2, NetWorkCalls
<1>2. NetworkTypeOK'
  <2>1. CASE NetUpdate
    <3>1. netCR \in NetworkCR
      BY <1>0, <2>1 DEF NetUpdate, NetworkTypeOK
    <3>2. computeDesiredIPs(netCR) \in SUBSET Digit
      BY <3>1, NetworkRequests
    <3> DEFINE lacking == computeDesiredIPs(netCR) \ GetNetworkIPs(NetKey(netCR))
    <3>3. lacking \in SUBSET Digit
      BY <3>2
    <3>4. \/ NetToIdle
          \/ netStep' = "add" /\ missing' = lacking /\ netCR' = netCR
      BY <2>1 DEF NetUpdate
    <3> HIDE DEF lacking
    <3>5. UNCHANGED netCRVars /\ netStep = "update"
      BY <2>1 DEF NetUpdate
    <3> QED
      BY <1>0, <3>3, <3>4, <3>5 DEF NetToIdle, netCRVars, NetworkTypeOK
  <2>2. CASE /\ NetToIdle \/ (netStep' = "annotate" /\ UNCHANGED <<netCR, missing>>)
             /\ netStep # "idle"
             /\ netPending' \subseteq netPending /\ UNCHANGED <<netDeleting, netFinalizer, netGone>>
    BY <1>0, <2>2 DEF NetToIdle, NetworkTypeOK
  <2>3. netStep # "idle"
    BY DEF NetWork, NetCreate, NetAnnotate, NetAnnotateFails, NetUpdate, NetUpdateFails, NetAdd, NetDelete
  <2>4. CASE NetUpdateFails \/ NetAnnotate \/ NetAnnotateFails
    BY <2>2, <2>3, <2>4 DEF NetUpdateFails, NetAnnotate, NetAnnotateFails, netCRVars
  <2>5. CASE /\ UNCHANGED netCRVars
             /\ NetToIdle \/ (netStep' = "annotate" /\ UNCHANGED <<netCR, missing>>)
    BY <2>2, <2>3, <2>5 DEF netCRVars
  <2> QED
    BY <1>0, <2>1, <2>4, <2>5, NetWorkCalls
<1>3. disturbed' \in SUBSET Assignment
  BY <1>0 DEF Notice, AssignmentTypeOK
<1>4. AssignmentTypeOK'
  BY <1>0, <1>3 DEF Notice, crVars, workerVars, AssignmentTypeOK
<1>5. CallsOfCR'
  BY <1>0 DEF Notice, workerVars, CallsOfCR, Edits, Releases, Key, Owner, EditIP, RenewLease, ReleaseIP
<1> QED
  BY <1>1, <1>2, <1>4, <1>5 DEF InductiveInv, TypeOK, APIType

(* ... as do its Observe, and what users do to the objects.                *)
LEMMA ObjectTypes ==
  ASSUME InductiveInv,
         \/ /\ \E m \in NetworkCR : NetReconcile(m) \/ DeleteNetworkCR(m) \/ NetUnblock(m)
            /\ UNCHANGED assignmentVars
         \/ (\E a \in Assignment : DeleteAssignment(a) \/ Unblock(a)) /\ UNCHANGED netVars
  PROVE  InductiveInv'
<1>0. TypeOK /\ APIType /\ AssignmentTypeOK /\ NetworkTypeOK /\ CallsOfCR
  BY DEF InductiveInv, TypeOK, APIType
<1>1. ASSUME NEW a \in Assignment, DeleteAssignment(a) \/ Unblock(a), UNCHANGED netVars
      PROVE  InductiveInv'
  <2>1. APIType' /\ NetworkTypeOK'
    BY <1>0, <1>1 DEF DeleteAssignment, Unblock, apiVars, APIType, netVars, netCRVars, NetworkTypeOK
  <2>2. AssignmentTypeOK'
    BY <1>0, <1>1 DEF DeleteAssignment, Unblock, Refused, workerVars, history, AssignmentTypeOK
  <2>3. CallsOfCR'
    BY <1>0, <1>1 DEF DeleteAssignment, Unblock, workerVars, CallsOfCR, Edits, Releases, Key,
                      Owner, EditIP, RenewLease, ReleaseIP
  <2> QED
    BY <2>1, <2>2, <2>3 DEF InductiveInv, TypeOK, APIType
<1>2. ASSUME NEW m \in NetworkCR, NetReconcile(m) \/ DeleteNetworkCR(m) \/ NetUnblock(m),
             UNCHANGED assignmentVars
      PROVE  InductiveInv'
  <2>1. m # NoNetworkCR
    BY NetworkRequests
  <2>2. APIType'
    BY <1>0, <1>2 DEF NetReconcile, NetObserveAbsent, NetObserveOutdated, NetObserveUpToDate,
                      NetObserveForDeletion, NetObserveGone, NetGoOn, DeleteNetworkCR, NetUnblock,
                      apiVars, APIType
  <2>3. AssignmentTypeOK'
    BY <1>0, <1>2 DEF assignmentVars, crVars, workerVars, history, AssignmentTypeOK
  <2>4. CallsOfCR'
    BY <1>0, <1>2 DEF assignmentVars, workerVars, CallsOfCR, Edits, Releases, Key, Owner,
                      EditIP, RenewLease, ReleaseIP
  <2>5. NetworkTypeOK'
    <3>1. CASE DeleteNetworkCR(m) \/ NetUnblock(m)
      BY <1>0, <3>1 DEF DeleteNetworkCR, NetUnblock, NetworkTypeOK
    <3>2. CASE NetObserveUpToDate(m) \/ NetObserveGone(m)
      BY <1>0, <3>2 DEF NetObserveUpToDate, NetObserveGone, NetReads, NetworkTypeOK
    <3>3. CASE NetObserveAbsent(m) \/ NetObserveOutdated(m) \/ NetObserveForDeletion(m)
      BY <1>0, <3>3 DEF NetObserveAbsent, NetObserveOutdated, NetObserveForDeletion, NetReads,
                        NetGoOn, NetworkTypeOK
    <3> QED
      BY <1>2, <3>1, <3>2, <3>3 DEF NetReconcile
  <2> QED
    BY <2>2, <2>3, <2>4, <2>5 DEF InductiveInv, TypeOK, APIType
<1> QED
  BY <1>1, <1>2

(* Every step of the provider keeps the types and the calls of its worker. *)
LEMMA TypesStep == InductiveInv /\ [Next]_vars => InductiveInv'
<1> SUFFICES ASSUME InductiveInv, [Next]_vars PROVE InductiveInv'
  OBVIOUS
<1>1. CASE Work /\ UNCHANGED netVars
  BY <1>1, CreateTypes, AnnotateTypes, SendTypes, StoreTypes DEF Work
<1>2. CASE UNCHANGED vars
  <2>1. TypeOK /\ CallsOfCR
    BY DEF InductiveInv
  <2>2. TypeOK'
    BY <1>2, <2>1 DEF vars, apiVars, assignmentVars, crVars, workerVars, history, netVars,
                      netCRVars, TypeOK, AssignmentTypeOK, NetworkTypeOK
  <2>3. CallsOfCR'
    BY <1>2, <2>1 DEF vars, assignmentVars, workerVars, CallsOfCR, Edits, Releases, Key, Owner,
                      EditIP, RenewLease, ReleaseIP
  <2> QED
    BY <2>2, <2>3 DEF InductiveInv
<1> QED
  BY <1>1, <1>2, ReconcileTypes, ObjectTypes, NetWorkTypes, WorldTypes, StoreTypes
     DEF Next, Done

(* The provider's inductive invariant: types, and that Update and Delete   *)
(* call clusterbook only for addresses in the status of their object.      *)
THEOREM Invariance == Spec => []InductiveInv
<1> QED
  BY InitTypes, TypesStep, PTL DEF Spec

(* Every variable of the provider keeps its type, for any number of        *)
(* objects, networks, clusters, faults and other clients.                  *)
THEOREM TypeCorrect == Spec => []TypeOK
<1>1. InductiveInv => TypeOK
  BY DEF InductiveInv
<1> QED
  BY <1>1, Invariance, PTL

(* Create and Update of the Network controller touch no entry that exists, *)
(* whatever was added and assigned between its look at the pool and its    *)
(* call.                                                                   *)
THEOREM EntriesAreKept == Spec => NetworkKeepsEntries
<1> DEFINE Kept ==
      (netStep \in {"create", "add"}) /\ netStep' # netStep =>
        \A a \in Address : InPool(ledger, a[1], a[2]) =>
          InPool(ledger', a[1], a[2]) /\ ledger'[a[1]][a[2]] = ledger[a[1]][a[2]]
<1>1. ASSUME InductiveInv, [Next]_vars PROVE [Kept]_vars
  <2> SUFFICES ASSUME netStep \in {"create", "add"}, netStep' # netStep,
                      NEW a \in Address, InPool(ledger, a[1], a[2])
               PROVE  InPool(ledger', a[1], a[2]) /\ ledger'[a[1]][a[2]] = ledger[a[1]][a[2]]
    OBVIOUS
  <2>1. TypeOK /\ ledger \in Ledgers(Nat)
    BY <1>1 DEF InductiveInv, TypeOK
  <2>2. a[1] \in Network /\ a[2] \in Digit
    BY DEF Address
  <2>3. CASE ledger' = ledger
    BY <2>3
  <2>4. CASE NetWork /\ ledger' # ledger
    <3>1. PICK r, answer : /\ ValidRequest(r, Nat) /\ Call(r, answer)
                           /\ r.kind \in {"create network", "add ip"}
      BY <2>1, <2>4, NetWorkCalls
    <3>2. ledger' \in Handle(r, now, ledger)
      BY <2>1, <2>4, <3>1, CallEffect
    <3>3. Grows(ledger, ledger')
      <4>1. Nat \in SUBSET Nat /\ 0 \in Nat
        OBVIOUS
      <4> QED
        BY <2>1, <3>1, <3>2, <4>1, CreateEffect
    <3> QED
      BY <2>2, <3>3 DEF Grows
  <2>5. NetWork \/ ledger' = ledger
    <3>1. CASE UNCHANGED netVars
      BY <3>1 DEF netVars
    <3>2. CASE Crash
      BY <3>2 DEF Crash
    <3>3. CASE \E m \in NetworkCR : NetReconcile(m) \/ DeleteNetworkCR(m) \/ NetUnblock(m)
      BY <3>3 DEF NetReconcile, NetObserveAbsent, NetObserveOutdated, NetObserveUpToDate,
                  NetObserveForDeletion, NetObserveGone, NetGoOn, DeleteNetworkCR, NetUnblock, apiVars
    <3> QED
      BY <1>1, <3>1, <3>2, <3>3 DEF Next, Done, vars, apiVars
  <2> QED
    BY <2>3, <2>4, <2>5
<1> QED
  BY <1>1, Invariance, PTL DEF Spec, NetworkKeepsEntries

=============================================================================
