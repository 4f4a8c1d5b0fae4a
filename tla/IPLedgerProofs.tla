--------------------------- MODULE IPLedgerProofs ---------------------------
(***************************************************************************)
(* What each handler does to the entries of the ledger, for every ledger,  *)
(* request and time.                                                       *)
(***************************************************************************)
EXTENDS IPLedger, FiniteSetTheorems, TLAPS

-----------------------------------------------------------------------------
(* Entries.                                                                *)

(* A configured network has a pool. *)
LEMMA ConfiguredPool ==
  ASSUME NEW T, NEW l \in Ledgers(T), NEW n \in Network, Configured(l, n)
  PROVE  l[n] \in IPs(T)
  BY DEF Ledgers, Configured

(* A key of a pool has an IPInfo. *)
LEMMA InPoolInfo ==
  ASSUME NEW T, NEW l \in Ledgers(T), NEW n \in Network, NEW d \in Digit, InPool(l, n, d)
  PROVE  l[n][d] \in IPInfo(T) /\ Entry(l, n, d) = l[n][d]
  BY ConfiguredPool DEF IPs, InPool, Entry

(* A map lookup gives an IPInfo, also for a key that is absent. *)
LEMMA EntryType ==
  ASSUME NEW T, 0 \in T, NEW l \in Ledgers(T), NEW n \in Network, NEW d \in Digit
  PROVE  Entry(l, n, d) \in IPInfo(T)
  BY InPoolInfo DEF Entry, IPInfo, Blank, Status

(* Ledgers with fewer times are ledgers. *)
LEMMA LedgersOfNat ==
  ASSUME NEW T \in SUBSET Nat, NEW l \in Ledgers(T)
  PROVE  l \in Ledgers(Nat)
  BY DEF Ledgers, IPs, IPInfo

(* A pool is not the mark of a missing one.                                *)
LEMMA PoolIsPool ==
  ASSUME NEW T \in SUBSET Nat, NEW p \in IPs(T)
  PROVE  p # NoPool
  BY NameAssumption DEF IPs, IPInfo

(* An IPInfo is not the mark of a missing entry.                           *)
LEMMA InfoIsInfo ==
  ASSUME NEW T \in SUBSET Nat, NEW e \in IPInfo(T)
  PROVE  e # NoEntry
  BY NameAssumption DEF IPInfo

(* l[n][d] = e in Go writes one entry and no other. *)
LEMMA PutType ==
  ASSUME NEW T, NEW l \in Ledgers(T), NEW n \in Network, NEW d \in Digit,
         NEW e \in IPInfo(T) \cup {NoEntry}, Configured(l, n)
  PROVE  Put(l, n, d, e) \in Ledgers(T)
  BY ConfiguredPool DEF Put, Ledgers, IPs

(* What Entry reads after such a write.                                    *)
LEMMA PutEntry ==
  ASSUME NEW T \in SUBSET Nat, NEW l \in Ledgers(T), NEW n \in Network, NEW d \in Digit,
         NEW e \in IPInfo(T) \cup {NoEntry}, Configured(l, n),
         NEW m \in Network, NEW x \in Digit
  PROVE  Entry(Put(l, n, d, e), m, x) =
           IF m = n /\ x = d THEN (IF e = NoEntry THEN Blank ELSE e) ELSE Entry(l, m, x)
<1>1. l[n] \in IPs(T)
  BY ConfiguredPool
<1>2. [l[n] EXCEPT ![d] = e] \in IPs(T)
  BY <1>1 DEF IPs
<1>3. Put(l, n, d, e)[n] = [l[n] EXCEPT ![d] = e] /\ (m # n => Put(l, n, d, e)[m] = l[m])
  BY DEF Put, Ledgers
<1>4. Configured(Put(l, n, d, e), n)
  BY <1>2, <1>3, PoolIsPool DEF Configured
<1>5. CASE m # n
  BY <1>3, <1>5 DEF Entry, InPool, Configured
<1>6. CASE m = n
  BY <1>1, <1>3, <1>4, <1>6 DEF Entry, InPool, IPs, Configured
<1> QED
  BY <1>5, <1>6

-----------------------------------------------------------------------------
(* What is written.                                                        *)

(* The strings of a status. *)
LEMMA StatusValues ==
  /\ DNSStatus = {"ASSIGNED:DNS", "PENDING:DNS"}
  /\ Status = {"", "ASSIGNED", "PENDING", "ASSIGNED:DNS", "PENDING:DNS"}
<1>1. DOMAIN Marked = {"ASSIGNED", "PENDING"}
  BY DEF Marked
<1>2. Marked["ASSIGNED"] = "ASSIGNED:DNS" /\ Marked["PENDING"] = "PENDING:DNS"
  BY DEF Marked
<1>3. DNSStatus = {"ASSIGNED:DNS", "PENDING:DNS"}
  BY <1>1, <1>2 DEF DNSStatus
<1> QED
  BY <1>1, <1>3 DEF Status

(* An empty status becomes ASSIGNED, and one with DNS gets its suffix. *)
LEMMA SavedStatusType ==
  ASSUME NEW r, r.status \in Status
  PROVE  /\ DefaultStatus(r.status) \in Status \ {""}
         /\ SavedStatus(r) \in Status \ {""}
         /\ wantsDNS(r) => SavedStatus(r) \in DNSStatus
<1>1. Marked["ASSIGNED"] = "ASSIGNED:DNS" /\ Marked["PENDING"] = "PENDING:DNS"
  BY DEF Marked
<1>2. DefaultStatus(r.status) \in {"ASSIGNED", "PENDING", "ASSIGNED:DNS", "PENDING:DNS"}
  BY StatusValues DEF DefaultStatus
<1>3. withDNSSuffix(DefaultStatus(r.status)) \in {"ASSIGNED:DNS", "PENDING:DNS"}
  BY <1>1, <1>2, StatusValues DEF withDNSSuffix, hasDNSSuffix
<1> QED
  BY <1>2, <1>3, StatusValues DEF SavedStatus

(* assign and reserve write a complete entry. *)
LEMMA ClaimType ==
  ASSUME NEW T \in SUBSET Nat, 0 \in T, NEW D \in SUBSET Nat, NEW t \in Nat,
         \A k \in D : t + k \in T,
         NEW r, r.cluster \in Cluster \cup {NoCluster}, r.status \in Status, r.lease \in D
  PROVE  Claim(r, t) \in IPInfo(T)
<1>1. LeaseEnd(r.lease, t) \in T
  BY DEF LeaseEnd
<1> QED
  BY <1>1, SavedStatusType DEF Claim, IPInfo

(* A free entry of a pool that has no holder. *)
LEMMA BlankType ==
  ASSUME NEW T, 0 \in T
  PROVE  Blank \in IPInfo(T)
  BY StatusValues DEF Blank, IPInfo

(* Edit, release and renew keep an IPInfo one. *)
LEMMA UpdateType ==
  ASSUME NEW T, NEW e \in IPInfo(T)
  PROVE  /\ \A x \in T : [e EXCEPT !.lease = x] \in IPInfo(T)
         /\ \A x \in Status, c \in Cluster \cup {NoCluster} :
              [e EXCEPT !.status = x, !.cluster = c] \in IPInfo(T)
  BY DEF IPInfo

-----------------------------------------------------------------------------
(* The effect of a handler on one address: may request r, handled at time  *)
(* t, turn the entry was of host part d in network n into another one, is? *)

MayClaim(r, t, n, d, was, is) ==
  /\ \/ r.kind = "assign" /\ n = r.key /\ d = r.ip.host
     \/ r.kind = "reserve" /\ n = r.key /\ isFree(was)
  /\ r.cluster # NoCluster
  /\ is = Claim(r, t)

MayReserve(r, n, was, is) ==
  /\ r.kind = "ReserveIpAddresses" /\ n = r.key /\ isFree(was) /\ r.cluster # NoCluster
  /\ is = [status |-> DefaultStatus(r.status), cluster |-> r.cluster, lease |-> 0]

MayEdit(r, n, d, was, is) ==
  /\ \/ r.kind = "edit" /\ n = r.key /\ d = r.ip.host
     \/ r.kind \in {"htmx assign", "htmx edit"} /\ r.ip = [net |-> n, host |-> d]
  /\ Complete(r)
  /\ is = Edited(r, was)

MayRenew(r, t, n, d, was, is) ==
  /\ r.kind = "renew" /\ n = r.key /\ d = r.ip.host /\ ~isFree(was)
  /\ is = [was EXCEPT !.lease = t + r.lease]

MayClear(r, n, d, was, is) ==
  /\ \/ r.kind \in {"release", "delete ip", "htmx delete ip"} /\ n = r.key /\ d = r.ip.host
     \/ r.kind \in {"delete network", "htmx delete network"} /\ n = r.key
     \/ r.kind = "reclaim" /\ was.lease \in 1..r.now
  /\ is = Blank

MaySet(r, n, d, was, is) ==
  \/ /\ r.kind = "htmx release" /\ r.ip = [net |-> n, host |-> d]
     /\ is = [was EXCEPT !.status = "", !.cluster = NoCluster]
  \/ /\ r.kind = "SetClusterInfo" /\ [net |-> n, host |-> d] \in r.ips
     /\ is = [was EXCEPT !.status = r.status, !.cluster = r.cluster]

May(r, t, n, d, was, is) ==
  \/ MayClaim(r, t, n, d, was, is) \/ MayReserve(r, n, was, is)
  \/ MayEdit(r, n, d, was, is) \/ MayRenew(r, t, n, d, was, is)
  \/ MayClear(r, n, d, was, is) \/ MaySet(r, n, d, was, is)

Allowed(r, t, l, s) ==
  \A n \in Network, d \in Digit :
    Entry(s, n, d) # Entry(l, n, d) => May(r, t, n, d, Entry(l, n, d), Entry(s, n, d))

(* One Put into a configured network is allowed when its entry is. *)
LEMMA PutAllowed ==
  ASSUME NEW T \in SUBSET Nat, 0 \in T, NEW l \in Ledgers(T), NEW r, NEW t,
         NEW n \in Network, NEW d \in Digit, Configured(l, n),
         NEW e \in IPInfo(T), May(r, t, n, d, Entry(l, n, d), e)
  PROVE  Put(l, n, d, e) \in Ledgers(T) /\ Allowed(r, t, l, Put(l, n, d, e))
<1>1. e # NoEntry
  BY InfoIsInfo
<1>2. \A m \in Network, x \in Digit :
        Entry(Put(l, n, d, e), m, x) = IF m = n /\ x = d THEN e ELSE Entry(l, m, x)
  BY <1>1, PutEntry
<1> QED
  BY <1>2, PutType DEF Allowed

(* delete(pool, d) is allowed when clearing the entry is. *)
LEMMA DropAllowed ==
  ASSUME NEW T \in SUBSET Nat, 0 \in T, NEW l \in Ledgers(T), NEW r, NEW t,
         NEW n \in Network, NEW d \in Digit, Configured(l, n),
         May(r, t, n, d, Entry(l, n, d), Blank)
  PROVE  Put(l, n, d, NoEntry) \in Ledgers(T) /\ Allowed(r, t, l, Put(l, n, d, NoEntry))
<1>1. \A m \in Network, x \in Digit :
        Entry(Put(l, n, d, NoEntry), m, x) = IF m = n /\ x = d THEN Blank ELSE Entry(l, m, x)
  BY PutEntry
<1> QED
  BY <1>1, PutType DEF Allowed

(* The address in a request, as the digit of a pool. *)
LEMMA DigitOf ==
  ASSUME NEW ip \in IPArgument, NEW key \in Network
  PROVE  /\ \A d \in hostDigit(ip, key) : d = ip.host /\ d \in Digit
         /\ \A d \in GetLastIPDigit(ip) :
              d = ip.host /\ d \in Digit /\ ip.net \in Network /\ ip = [net |-> ip.net, host |-> d]
  BY DEF hostDigit, GetLastIPDigit, IPArgument

(* REST handlers that write one entry. *)
LEMMA RestEffect ==
  ASSUME NEW T \in SUBSET Nat, 0 \in T, NEW D \in SUBSET Nat, NEW t \in Nat,
         \A k \in D : t + k \in T, NEW l \in Ledgers(T),
         NEW r, ValidRequest(r, D),
         r.kind \in {"assign", "reserve", "release", "renew", "delete ip", "edit"},
         NEW s \in Handle(r, t, l)
  PROVE  s \in Ledgers(T) /\ Allowed(r, t, l, s)
<1>0. r.key \in Network /\ (r.kind # "reserve" => r.ip \in IPArgument)
  BY DEF ValidRequest, WithKey, WithAddress
<1>1. CASE r.kind = "assign"
  <2>1. PICK d \in hostDigit(r.ip, r.key) :
          r.cluster # NoCluster /\ Configured(l, r.key) /\ s = Put(l, r.key, d, Claim(r, t))
    BY <1>1 DEF Handle, handleAPIAssign
  <2>2. d = r.ip.host /\ d \in Digit
    BY <1>0, <1>1, DigitOf
  <2>3. Claim(r, t) \in IPInfo(T)
    BY <1>1, ClaimType DEF ValidRequest, WithInfo, WithDNS
  <2>4. May(r, t, r.key, d, Entry(l, r.key, d), Claim(r, t))
    BY <1>1, <2>1, <2>2 DEF May, MayClaim
  <2> QED
    BY <1>0, <2>1, <2>2, <2>3, <2>4, PutAllowed
<1>2. CASE r.kind = "reserve"
  <2>1. PICK d \in Reservable(r, l) :
          r.cluster # NoCluster /\ Configured(l, r.key) /\ s = Put(l, r.key, d, Claim(r, t))
    BY <1>2 DEF Handle, handleAPIReserve
  <2>2. d \in Digit /\ isFree(Entry(l, r.key, d))
    <3>1. CASE r.any
      BY <1>0, <2>1, <3>1 DEF Reservable, FreeDigits, Entry
    <3>2. CASE ~r.any
      <4>1. r.ip \in IPArgument
        BY <1>2, <3>2 DEF ValidRequest
      <4> QED
        BY <1>0, <2>1, <3>2, <4>1, DigitOf DEF Reservable, Entry, isFree, Blank
    <3> QED
      BY <3>1, <3>2
  <2>3. Claim(r, t) \in IPInfo(T)
    BY <1>2, ClaimType DEF ValidRequest, WithInfo, WithDNS
  <2>4. May(r, t, r.key, d, Entry(l, r.key, d), Claim(r, t))
    BY <1>2, <2>1, <2>2 DEF May, MayClaim
  <2> QED
    BY <1>0, <2>1, <2>2, <2>3, <2>4, PutAllowed
<1>3. CASE r.kind = "release"
  <2>1. PICK d \in GetLastIPDigit(r.ip) : Configured(l, r.key) /\ s = Put(l, r.key, d, Blank)
    BY <1>3 DEF Handle, handleAPIRelease
  <2>2. d = r.ip.host /\ d \in Digit
    BY <1>0, <1>3, <2>1, DigitOf
  <2>3. May(r, t, r.key, d, Entry(l, r.key, d), Blank)
    BY <1>3, <2>2 DEF May, MayClear
  <2> QED
    BY <1>0, <2>1, <2>2, <2>3, BlankType, PutAllowed
<1>4. CASE r.kind = "renew"
  <2>1. PICK d \in GetLastIPDigit(r.ip) :
          /\ InPool(l, r.key, d) /\ ~isFree(l[r.key][d])
          /\ s = Put(l, r.key, d, [l[r.key][d] EXCEPT !.lease = t + r.lease])
    BY <1>4 DEF Handle, handleAPIRenewLease
  <2>2. d = r.ip.host /\ d \in Digit
    BY <1>0, <1>4, <2>1, DigitOf
  <2>3. l[r.key][d] \in IPInfo(T) /\ Entry(l, r.key, d) = l[r.key][d]
    BY <1>0, <2>1, <2>2, InPoolInfo
  <2>4. t + r.lease \in T
    BY <1>4 DEF ValidRequest
  <2>5. [l[r.key][d] EXCEPT !.lease = t + r.lease] \in IPInfo(T)
    BY <2>3, <2>4, UpdateType
  <2>6. May(r, t, r.key, d, Entry(l, r.key, d), [l[r.key][d] EXCEPT !.lease = t + r.lease])
    BY <1>4, <2>1, <2>2, <2>3 DEF May, MayRenew
  <2> QED
    BY <1>0, <2>1, <2>2, <2>5, <2>6, PutAllowed DEF InPool
<1>5. CASE r.kind = "delete ip"
  <2>1. PICK d \in hostDigit(r.ip, r.key) : InPool(l, r.key, d) /\ s = Put(l, r.key, d, NoEntry)
    BY <1>5 DEF Handle, handleAPIDeleteIP, PathDigit
  <2>2. d = r.ip.host /\ d \in Digit
    BY <1>0, <1>5, <2>1, DigitOf
  <2>3. May(r, t, r.key, d, Entry(l, r.key, d), Blank)
    BY <1>5, <2>2 DEF May, MayClear
  <2> QED
    BY <1>0, <2>1, <2>2, <2>3, DropAllowed DEF InPool
<1>6. CASE r.kind = "edit"
  <2>1. PICK d \in hostDigit(r.ip, r.key) :
          Complete(r) /\ InPool(l, r.key, d) /\ s = Put(l, r.key, d, Edited(r, l[r.key][d]))
    BY <1>6 DEF Handle, handleAPIEditIP, PathDigit
  <2>2. d = r.ip.host /\ d \in Digit
    BY <1>0, <1>6, <2>1, DigitOf
  <2>3. l[r.key][d] \in IPInfo(T) /\ Entry(l, r.key, d) = l[r.key][d]
    BY <1>0, <2>1, <2>2, InPoolInfo
  <2>4. Edited(r, l[r.key][d]) \in IPInfo(T)
    BY <1>6, <2>3, UpdateType, SavedStatusType DEF Edited, ValidRequest, WithInfo, WithDNS
  <2>5. May(r, t, r.key, d, Entry(l, r.key, d), Edited(r, l[r.key][d]))
    BY <1>6, <2>1, <2>2, <2>3 DEF May, MayEdit
  <2> QED
    BY <1>0, <2>1, <2>2, <2>4, <2>5, PutAllowed DEF InPool
<1> QED
  BY <1>1, <1>2, <1>3, <1>4, <1>5, <1>6

(* HTMX handlers that write one entry. *)
LEMMA DashboardEffect ==
  ASSUME NEW T \in SUBSET Nat, 0 \in T, NEW D, NEW t, NEW l \in Ledgers(T),
         NEW r, ValidRequest(r, D),
         r.kind \in {"htmx assign", "htmx edit", "htmx release", "htmx delete ip"},
         NEW s \in Handle(r, t, l)
  PROVE  s \in Ledgers(T) /\ Allowed(r, t, l, s)
<1>0. r.ip \in IPArgument
  BY DEF ValidRequest, WithAddress
<1>1. CASE r.kind \in {"htmx assign", "htmx edit"}
  <2>1. s \in handleHTMXEdit(r, l)
    BY <1>1 DEF Handle, handleHTMXAssign
  <2>2. PICK d \in GetLastIPDigit(r.ip) :
          /\ Complete(r) /\ Configured(l, r.ip.net)
          /\ s = Put(l, r.ip.net, d, Edited(r, Entry(l, r.ip.net, d)))
    BY <2>1 DEF handleHTMXEdit
  <2>3. d \in Digit /\ r.ip.net \in Network /\ r.ip = [net |-> r.ip.net, host |-> d]
    BY <1>0, <2>2 DEF GetLastIPDigit, IPArgument
  <2>4. Entry(l, r.ip.net, d) \in IPInfo(T)
    BY <2>3, EntryType
  <2>5. Edited(r, Entry(l, r.ip.net, d)) \in IPInfo(T)
    BY <1>1, <2>4, UpdateType, SavedStatusType DEF Edited, ValidRequest, WithInfo, WithDNS
  <2>6. May(r, t, r.ip.net, d, Entry(l, r.ip.net, d), Edited(r, Entry(l, r.ip.net, d)))
    BY <1>1, <2>2, <2>3 DEF May, MayEdit
  <2> QED
    BY <2>2, <2>3, <2>5, <2>6, PutAllowed
<1>2. CASE r.kind = "htmx release"
  <2> DEFINE new(d) == [Entry(l, r.ip.net, d) EXCEPT !.status = "", !.cluster = NoCluster]
  <2>1. PICK d \in GetLastIPDigit(r.ip) : Configured(l, r.ip.net) /\ s = Put(l, r.ip.net, d, new(d))
    BY <1>2 DEF Handle, handleHTMXRelease
  <2>2. d \in Digit /\ r.ip.net \in Network /\ r.ip = [net |-> r.ip.net, host |-> d]
    BY <1>0, <2>1 DEF GetLastIPDigit, IPArgument
  <2>3. new(d) \in IPInfo(T)
    BY <2>2, EntryType, UpdateType, StatusValues
  <2>4. May(r, t, r.ip.net, d, Entry(l, r.ip.net, d), new(d))
    BY <1>2, <2>2 DEF May, MaySet
  <2> QED
    BY <2>1, <2>2, <2>3, <2>4, PutAllowed
<1>3. CASE r.kind = "htmx delete ip"
  <2>1. PICK d \in GetLastIPDigit(r.ip) :
          s = IF Configured(l, r.key) THEN Put(l, r.key, d, NoEntry) ELSE l
    BY <1>3 DEF Handle, handleHTMXDeleteIP
  <2>2. d = r.ip.host /\ d \in Digit /\ r.key \in Network
    BY <1>0, <1>3, <2>1 DEF GetLastIPDigit, IPArgument, ValidRequest, WithKey
  <2>3. May(r, t, r.key, d, Entry(l, r.key, d), Blank)
    BY <1>3, <2>2 DEF May, MayClear
  <2>4. CASE Configured(l, r.key)
    BY <2>1, <2>2, <2>3, <2>4, DropAllowed
  <2>5. CASE ~Configured(l, r.key)
    BY <2>1, <2>5 DEF Allowed
  <2> QED
    BY <2>4, <2>5
<1> QED
  BY <1>1, <1>2, <1>3

(* A new pool lists its hosts as free. *)
LEMMA NewPoolType ==
  ASSUME NEW T \in SUBSET Nat, 0 \in T, NEW hosts
  PROVE  /\ NewPool(hosts) \in IPs(T)
         /\ NewPool(hosts) # NoPool
         /\ \A d \in Digit : NewPool(hosts)[d] \in {Blank, NoEntry}
<1>1. NewPool(hosts) \in IPs(T)
  BY BlankType DEF NewPool, IPs
<1> QED
  BY <1>1, PoolIsPool DEF NewPool

(* Every key of the pools of l is one of s, with the same IPInfo, and what *)
(* s has besides is free.                                                  *)
Grows(l, s) ==
  \A n \in Network, d \in Digit :
    /\ InPool(l, n, d) => InPool(s, n, d) /\ s[n][d] = l[n][d]
    /\ InPool(s, n, d) /\ ~InPool(l, n, d) => s[n][d] = Blank

(* A ledger that grows keeps what every lookup gives. *)
LEMMA GrowsKeeps ==
  ASSUME NEW l, NEW s, Grows(l, s)
  PROVE  \A n \in Network, d \in Digit : Entry(s, n, d) = Entry(l, n, d)
  BY DEF Grows, Entry

(* Pools of new networks. *)
LEMMA PoolsGrow ==
  ASSUME NEW T \in SUBSET Nat, 0 \in T, NEW l \in Ledgers(T), NEW s,
         NEW asked \in SUBSET Network, NEW pools,
         \A n \in asked : ~Configured(l, n),
         s = [n \in Network |-> IF n \in asked THEN NewPool(pools[n]) ELSE l[n]]
  PROVE  s \in Ledgers(T) /\ Grows(l, s)
<1>1. s \in Ledgers(T)
  BY NewPoolType DEF Ledgers
<1>2. ASSUME NEW n \in Network, NEW d \in Digit
      PROVE  /\ InPool(l, n, d) => InPool(s, n, d) /\ s[n][d] = l[n][d]
             /\ InPool(s, n, d) /\ ~InPool(l, n, d) => s[n][d] = Blank
  <2>1. CASE n \in asked
    BY <2>1, NewPoolType DEF InPool
  <2>2. CASE n \notin asked
    BY <2>2 DEF InPool, Configured
  <2> QED
    BY <2>1, <2>2
<1> QED
  BY <1>1, <1>2 DEF Grows

(* Addresses that a pool does not list yet. *)
LEMMA HostsGrow ==
  ASSUME NEW T \in SUBSET Nat, 0 \in T, NEW l \in Ledgers(T), NEW s,
         NEW key \in Network, Configured(l, key), NEW hosts,
         s = [l EXCEPT ![key] =
               [d \in Digit |-> IF d \in hosts /\ l[key][d] = NoEntry THEN Blank ELSE l[key][d]]]
  PROVE  s \in Ledgers(T) /\ Grows(l, s)
<1> DEFINE new == [d \in Digit |-> IF d \in hosts /\ l[key][d] = NoEntry THEN Blank ELSE l[key][d]]
<1>1. l[key] \in IPs(T)
  BY ConfiguredPool
<1>2. new \in IPs(T) /\ new # NoPool
  <2>1. new \in IPs(T)
    BY <1>1, BlankType DEF IPs
  <2> QED
    BY <2>1, PoolIsPool
<1>3. \A d \in Digit : new[d] = IF d \in hosts /\ l[key][d] = NoEntry THEN Blank ELSE l[key][d]
  OBVIOUS
<1>4. s = [l EXCEPT ![key] = new]
  OBVIOUS
<1> HIDE DEF new
<1>5. s \in Ledgers(T)
  BY <1>2, <1>4 DEF Ledgers
<1>6. s[key] = new /\ \A n \in Network : n # key => s[n] = l[n]
  BY <1>4 DEF Ledgers
<1>7. Blank # NoEntry
  BY BlankType, InfoIsInfo
<1>8. ASSUME NEW n \in Network, NEW d \in Digit
      PROVE  /\ InPool(l, n, d) => InPool(s, n, d) /\ s[n][d] = l[n][d]
             /\ InPool(s, n, d) /\ ~InPool(l, n, d) => s[n][d] = Blank
  <2>1. CASE n = key
    BY <2>1, <1>2, <1>3, <1>6, <1>7 DEF InPool, Configured
  <2>2. CASE n # key
    BY <2>2, <1>6 DEF InPool, Configured
  <2> QED
    BY <2>1, <2>2
<1> QED
  BY <1>5, <1>8 DEF Grows

(* Creating networks and adding addresses changes no entry: what is added  *)
(* is free, and was not there.                                             *)
LEMMA CreateEffect ==
  ASSUME NEW T \in SUBSET Nat, 0 \in T, NEW D, NEW t, NEW l \in Ledgers(T),
         NEW r, ValidRequest(r, D),
         r.kind \in {"create network", "add ip", "htmx add network", "htmx add ip"},
         NEW s \in Handle(r, t, l)
  PROVE  s \in Ledgers(T) /\ Grows(l, s)
<1>1. CASE r.kind = "create network"
  <2> DEFINE asked == {n \in Network : r.pools[n] # {}}
  <2>1. /\ \A n \in asked : ~Configured(l, n)
        /\ s = [n \in Network |-> IF n \in asked THEN NewPool(r.pools[n]) ELSE l[n]]
    BY <1>1 DEF Handle, handleAPICreateNetwork
  <2>2. asked \in SUBSET Network
    OBVIOUS
  <2> HIDE DEF asked
  <2> QED
    BY <2>1, <2>2, PoolsGrow
<1>2. CASE r.kind = "add ip"
  <2>1. r.key \in Network
    BY <1>2 DEF ValidRequest, WithKey
  <2>2. /\ Configured(l, r.key)
        /\ s = [l EXCEPT ![r.key] = [d \in Digit |->
                 IF d \in r.hosts /\ l[r.key][d] = NoEntry THEN Blank ELSE l[r.key][d]]]
    BY <1>2, <2>1 DEF Handle, handleAPIAddIP
  <2> QED
    BY <2>1, <2>2, HostsGrow
<1>3. CASE r.kind = "htmx add network"
  <2>1. r.key \in Network
    BY <1>3 DEF ValidRequest, WithKey
  <2>2. ~Configured(l, r.key) /\ s = [l EXCEPT ![r.key] = NewPool(r.hosts)]
    BY <1>3 DEF Handle, handleHTMXAddNetwork
  <2> DEFINE asked == {r.key}
             pools == [n \in asked |-> r.hosts]
  <2>3. s = [n \in Network |-> IF n \in asked THEN NewPool(pools[n]) ELSE l[n]]
    BY <2>1, <2>2 DEF Ledgers
  <2>4. asked \in SUBSET Network /\ \A n \in asked : ~Configured(l, n)
    BY <2>1, <2>2
  <2> HIDE DEF asked, pools
  <2> QED
    BY <2>3, <2>4, PoolsGrow
<1>4. CASE r.kind = "htmx add ip"
  <2>1. r.key \in Network /\ r.host \in Digit
    BY <1>4 DEF ValidRequest, WithKey
  <2>2. Configured(l, r.key) /\ ~InPool(l, r.key, r.host) /\ s = Put(l, r.key, r.host, Blank)
    BY <1>4 DEF Handle, handleHTMXAddIP
  <2>3. l[r.key][r.host] = NoEntry /\ l[r.key] \in IPs(T)
    BY <2>1, <2>2, ConfiguredPool DEF InPool
  <2> DEFINE hosts == {r.host}
  <2>4. s = [l EXCEPT ![r.key] = [d \in Digit |->
              IF d \in hosts /\ l[r.key][d] = NoEntry THEN Blank ELSE l[r.key][d]]]
    BY <2>1, <2>2, <2>3 DEF Put, IPs, Ledgers
  <2>5. Configured(l, r.key)
    BY <2>2
  <2> HIDE DEF hosts
  <2> QED
    BY <2>1, <2>4, <2>5, HostsGrow
<1> QED
  BY <1>1, <1>2, <1>3, <1>4

(* delete(ledger, key) clears the entries of one network. *)
LEMMA DeleteNetworkEffect ==
  ASSUME NEW T \in SUBSET Nat, NEW D, NEW t, NEW l \in Ledgers(T),
         NEW r, ValidRequest(r, D),
         r.kind \in {"delete network", "htmx delete network"},
         NEW s \in Handle(r, t, l)
  PROVE  s \in Ledgers(T) /\ Allowed(r, t, l, s)
<1>1. r.key \in Network
  BY DEF ValidRequest, WithKey
<1>2. s = [l EXCEPT ![r.key] = NoPool]
  BY DEF Handle, handleAPIDeleteNetwork, handleHTMXDeleteNetwork
<1>3. s \in Ledgers(T)
  BY <1>1, <1>2 DEF Ledgers
<1>4. ASSUME NEW n \in Network, NEW d \in Digit, Entry(s, n, d) # Entry(l, n, d)
      PROVE  MayClear(r, n, d, Entry(l, n, d), Entry(s, n, d))
  <2>1. n = r.key
    BY <1>1, <1>2, <1>4 DEF Ledgers, Entry, InPool, Configured
  <2>2. s[n] = NoPool
    BY <1>1, <1>2, <2>1 DEF Ledgers
  <2>3. Entry(s, n, d) = Blank
    BY <2>2 DEF Entry, InPool, Configured
  <2> QED
    BY <2>1, <2>3 DEF MayClear
<1> QED
  BY <1>3, <1>4 DEF Allowed, May

(* Overwriting some entries of one pool. *)
LEMMA OverlayEntry ==
  ASSUME NEW T \in SUBSET Nat, NEW l \in Ledgers(T), NEW n \in Network, Configured(l, n),
         NEW ds, NEW e \in IPInfo(T), NEW s, s = Overlay(l, n, ds, e)
  PROVE  /\ s \in Ledgers(T)
         /\ \A m \in Network, d \in Digit :
              Entry(s, m, d) = IF m = n /\ d \in ds THEN e ELSE Entry(l, m, d)
<1> DEFINE new == [d \in Digit |-> IF d \in ds THEN e ELSE l[n][d]]
<1>1. l[n] \in IPs(T)
  BY ConfiguredPool
<1>2. new \in IPs(T)
  BY <1>1 DEF IPs
<1>3. \A d \in Digit : new[d] = IF d \in ds THEN e ELSE l[n][d]
  OBVIOUS
<1>4. s = [l EXCEPT ![n] = new]
  BY DEF Overlay
<1> HIDE DEF new
<1>5. s \in Ledgers(T)
  BY <1>2, <1>4 DEF Ledgers
<1>6. s[n] = new /\ \A m \in Network : m # n => s[m] = l[m]
  BY <1>4 DEF Ledgers
<1>7. e # NoEntry /\ new # NoPool
  BY <1>2, InfoIsInfo, PoolIsPool
<1>8. ASSUME NEW m \in Network, NEW d \in Digit
      PROVE  Entry(s, m, d) = IF m = n /\ d \in ds THEN e ELSE Entry(l, m, d)
  <2>1. CASE m = n
    BY <2>1, <1>3, <1>6, <1>7 DEF Entry, InPool, Configured
  <2>2. CASE m # n
    BY <2>2, <1>6 DEF Entry, InPool, Configured
  <2> QED
    BY <2>1, <2>2
<1> QED
  BY <1>5, <1>8

(* ReserveIpAddresses overwrites free entries only. *)
LEMMA ReserveIpEffect ==
  ASSUME NEW T \in SUBSET Nat, 0 \in T, NEW D, NEW t, NEW l \in Ledgers(T),
         NEW r, ValidRequest(r, D), r.kind = "ReserveIpAddresses",
         NEW s \in Handle(r, t, l)
  PROVE  s \in Ledgers(T) /\ Allowed(r, t, l, s)
<1> DEFINE info == [status |-> DefaultStatus(r.status), cluster |-> r.cluster, lease |-> 0]
<1>1. /\ r.key \in Network /\ r.cluster \in Cluster \cup {NoCluster} /\ r.status \in Status
  BY DEF ValidRequest, WithKey, WithInfo
<1>2. info \in IPInfo(T)
  BY <1>1, SavedStatusType DEF IPInfo
<1>3. s \in ReserveIpAddresses(r, l)
  BY DEF Handle
<1>4. PICK ds \in GenerateIPs(r.count, r.key, l) :
        r.cluster # NoCluster /\ Configured(l, r.key) /\ s = Overlay(l, r.key, ds, info)
  BY <1>3 DEF ReserveIpAddresses
<1>5. \A d \in ds : InPool(l, r.key, d) /\ isFree(l[r.key][d])
  BY <1>4 DEF GenerateIPs, FreeDigits
<1>6. \A d \in ds : isFree(Entry(l, r.key, d))
  BY <1>5 DEF Entry
<1> HIDE DEF info
<1>7. /\ s \in Ledgers(T)
      /\ \A m \in Network, d \in Digit :
           Entry(s, m, d) = IF m = r.key /\ d \in ds THEN info ELSE Entry(l, m, d)
  BY <1>1, <1>2, <1>4, OverlayEntry
<1>8. ASSUME NEW n \in Network, NEW d \in Digit, Entry(s, n, d) # Entry(l, n, d)
      PROVE  MayReserve(r, n, Entry(l, n, d), Entry(s, n, d))
  <2>1. n = r.key /\ d \in ds /\ Entry(s, n, d) = info
    BY <1>7, <1>8
  <2> QED
    BY <1>4, <1>6, <2>1 DEF MayReserve, info
<1> QED
  BY <1>7, <1>8 DEF Allowed, May

(* SetClusterInfo writes the addresses of its range. *)
LEMMA SetClusterInfoEffect ==
  ASSUME NEW T \in SUBSET Nat, 0 \in T, NEW D, NEW t, NEW l \in Ledgers(T),
         NEW r, ValidRequest(r, D), r.kind = "SetClusterInfo",
         NEW s \in Handle(r, t, l)
  PROVE  s \in Ledgers(T) /\ Allowed(r, t, l, s)
<1> DEFINE new(n, d) == [Entry(l, n, d) EXCEPT !.status = r.status, !.cluster = r.cluster]
           pool(n) == [d \in Digit |-> IF [net |-> n, host |-> d] \in r.ips THEN new(n, d) ELSE l[n][d]]
<1>1. r.cluster \in Cluster \cup {NoCluster} /\ r.status \in Status
  BY DEF ValidRequest, WithInfo
<1>2. s \in SetClusterInfo(r, l)
  BY DEF Handle
<1>3. s = [n \in Network |-> IF ~Configured(l, n) THEN NoPool ELSE pool(n)]
  BY <1>2 DEF SetClusterInfo
<1>4. \A n \in Network, d \in Digit : new(n, d) \in IPInfo(T)
  BY <1>1, EntryType, UpdateType
<1> HIDE DEF new
<1>5. \A n \in Network : Configured(l, n) => pool(n) \in IPs(T)
  BY <1>4, ConfiguredPool DEF IPs
<1>6. \A n \in Network, d \in Digit :
        pool(n)[d] = IF [net |-> n, host |-> d] \in r.ips THEN new(n, d) ELSE l[n][d]
  OBVIOUS
<1> HIDE DEF pool
<1>7. s \in Ledgers(T)
  BY <1>3, <1>5 DEF Ledgers
<1>8. ASSUME NEW n \in Network, NEW d \in Digit, Entry(s, n, d) # Entry(l, n, d)
      PROVE  MaySet(r, n, d, Entry(l, n, d), Entry(s, n, d))
  <2>1. Configured(l, n)
    BY <1>3, <1>8 DEF Entry, InPool, Configured
  <2>2. s[n] = pool(n) /\ pool(n) # NoPool
    BY <1>3, <1>5, <2>1, PoolIsPool
  <2>3. [net |-> n, host |-> d] \in r.ips
    BY <1>6, <1>8, <2>1, <2>2 DEF Entry, InPool, Configured
  <2>4. s[n][d] = new(n, d) /\ new(n, d) # NoEntry
    BY <1>4, <1>6, <2>2, <2>3, InfoIsInfo
  <2>5. Entry(s, n, d) = new(n, d)
    BY <2>2, <2>4 DEF Entry, InPool, Configured
  <2> QED
    BY <2>3, <2>5 DEF MaySet, new
<1> QED
  BY <1>7, <1>8 DEF Allowed, May

(* The reclaimer clears the entries whose lease has ended. *)
LEMMA ReclaimEffect ==
  ASSUME NEW T \in SUBSET Nat, 0 \in T, NEW t, NEW l \in Ledgers(T),
         NEW r, r.kind = "reclaim", r.now \in Nat,
         NEW s \in Handle(r, t, l)
  PROVE  s \in Ledgers(T) /\ Allowed(r, t, l, s)
<1> DEFINE pool(n) == [d \in Digit |-> IF <<n, d>> \in FindExpiredLeases(l, r.now) THEN Blank ELSE l[n][d]]
<1>1. s \in reclaimOnce(r, l)
  BY DEF Handle
<1>2. s = [n \in Network |-> IF ~Configured(l, n) THEN NoPool ELSE pool(n)]
  BY <1>1 DEF reclaimOnce, ReclaimExpiredLeases
<1>3. \A n \in Network : Configured(l, n) => pool(n) \in IPs(T)
  BY BlankType, ConfiguredPool DEF IPs
<1>4. \A n \in Network, d \in Digit :
        pool(n)[d] = IF <<n, d>> \in FindExpiredLeases(l, r.now) THEN Blank ELSE l[n][d]
  OBVIOUS
<1> HIDE DEF pool
<1>5. s \in Ledgers(T)
  BY <1>2, <1>3 DEF Ledgers
<1>6. ASSUME NEW n \in Network, NEW d \in Digit, Entry(s, n, d) # Entry(l, n, d)
      PROVE  MayClear(r, n, d, Entry(l, n, d), Entry(s, n, d))
  <2>1. Configured(l, n)
    BY <1>2, <1>6 DEF Entry, InPool, Configured
  <2>2. s[n] = pool(n) /\ pool(n) # NoPool
    BY <1>2, <1>3, <2>1, PoolIsPool
  <2>3. <<n, d>> \in FindExpiredLeases(l, r.now)
    BY <1>4, <1>6, <2>1, <2>2 DEF Entry, InPool, Configured
  <2>4. InPool(l, n, d) /\ l[n][d].lease # 0 /\ l[n][d].lease <= r.now
    BY <2>3 DEF FindExpiredLeases
  <2>5. l[n][d] \in IPInfo(T) /\ Entry(l, n, d) = l[n][d]
    BY <2>4, InPoolInfo
  <2>6. Entry(l, n, d).lease \in 1..r.now
    <3>1. l[n][d].lease \in Nat
      BY <2>5 DEF IPInfo
    <3>2. ASSUME NEW x \in Nat, x # 0, x <= r.now
          PROVE  x \in 1..r.now
      BY <3>2
    <3> QED
      BY <2>4, <2>5, <3>1, <3>2
  <2>7. Entry(s, n, d) = Blank
    BY <1>4, <2>2, <2>3 DEF Entry, InPool, Configured
  <2> QED
    BY <2>6, <2>7 DEF MayClear
<1> QED
  BY <1>5, <1>6 DEF Allowed, May

-----------------------------------------------------------------------------
(* Whatever a handler or the reclaimer saves is a ledger, in which every   *)
(* entry that is not as it was loaded is one the request may change, to    *)
(* what it may change it to: no handler has an effect on an address that   *)
(* is not its own.                                                         *)
THEOREM HandleEffect ==
  ASSUME NEW T \in SUBSET Nat, 0 \in T, NEW D \in SUBSET Nat, NEW t \in Nat,
         \A k \in D : t + k \in T, NEW l \in Ledgers(T), NEW r,
         ValidRequest(r, D) \/ (r.kind = "reclaim" /\ r.now \in Nat),
         NEW s \in Handle(r, t, l)
  PROVE  s \in Ledgers(T) /\ Allowed(r, t, l, s)
<1>1. CASE r.kind = "reclaim" /\ r.now \in Nat
  BY <1>1, ReclaimEffect
<1>2. CASE ValidRequest(r, D)
  <2>1. CASE r.kind \in {"assign", "reserve", "release", "renew", "delete ip", "edit"}
    BY <1>2, <2>1, RestEffect
  <2>2. CASE r.kind \in {"htmx assign", "htmx edit", "htmx release", "htmx delete ip"}
    BY <1>2, <2>2, DashboardEffect
  <2>3. CASE r.kind \in {"create network", "add ip", "htmx add network", "htmx add ip"}
    <3>1. s \in Ledgers(T) /\ Grows(l, s)
      BY <1>2, <2>3, CreateEffect
    <3>2. \A n \in Network, d \in Digit : Entry(s, n, d) = Entry(l, n, d)
      BY <3>1, GrowsKeeps
    <3> QED
      BY <3>1, <3>2 DEF Allowed
  <2>4. CASE r.kind \in {"delete network", "htmx delete network"}
    BY <1>2, <2>4, DeleteNetworkEffect
  <2>5. CASE r.kind = "ReserveIpAddresses"
    BY <1>2, <2>5, ReserveIpEffect
  <2>6. CASE r.kind = "SetClusterInfo"
    BY <1>2, <2>6, SetClusterInfoEffect
  <2>7. r.kind \in WithKey \cup WithAddress \cup {"create network", "SetClusterInfo"}
    BY <1>2 DEF ValidRequest
  <2> QED
    BY <2>1, <2>2, <2>3, <2>4, <2>5, <2>6, <2>7 DEF WithKey, WithAddress
<1> QED
  BY <1>1, <1>2

-----------------------------------------------------------------------------
(* The custom resource's format.                                           *)

(* What the format keeps of an IPInfo. *)
Reduced(e) == IF isFree(e) \/ e.cluster = NoCluster THEN [Blank EXCEPT !.lease = e.lease] ELSE e

(* A reduced IPInfo is one, and is not reduced further. *)
LEMMA ReducedType ==
  ASSUME NEW T \in SUBSET Nat, NEW e \in IPInfo(T)
  PROVE  Reduced(e) \in IPInfo(T) /\ Reduced(Reduced(e)) = Reduced(e)
  BY StatusValues DEF Reduced, IPInfo, Blank, isFree

(* Saving a ledger as a custom resource and loading it again reduces every *)
(* entry and does nothing else.                                            *)
LEMMA RoundTripEntry ==
  ASSUME NEW T \in SUBSET Nat, 0 \in T, NEW l \in Ledgers(T)
  PROVE  /\ RoundTrip(l) \in Ledgers(T)
         /\ \A n \in Network, d \in Digit :
              Entry(RoundTrip(l), n, d) = Reduced(Entry(l, n, d))
<1> DEFINE pool(n) == [d \in Digit |->
             IF InPool(l, n, d) /\ (isFree(l[n][d]) \/ l[n][d].cluster = NoCluster)
               THEN [Blank EXCEPT !.lease = l[n][d].lease] ELSE l[n][d]]
           empty(n) == \A d \in Digit : ~InPool(l, n, d)
<1>1. RoundTrip(l) = [n \in Network |-> IF empty(n) THEN NoPool ELSE pool(n)]
  BY DEF RoundTrip
<1>2. \A n \in Network, d \in Digit :
        pool(n)[d] = IF InPool(l, n, d) THEN Reduced(l[n][d]) ELSE l[n][d]
  BY DEF Reduced
<1>3. \A n \in Network, d \in Digit : InPool(l, n, d) => Reduced(l[n][d]) \in IPInfo(T)
  BY InPoolInfo, ReducedType
<1>4. ASSUME NEW n \in Network, ~empty(n) PROVE pool(n) \in IPs(T) /\ pool(n) # NoPool
  <2>1. Configured(l, n)
    BY <1>4 DEF InPool
  <2>2. l[n] \in IPs(T)
    BY <2>1, ConfiguredPool
  <2>3. \A d \in Digit : pool(n)[d] \in IPInfo(T) \cup {NoEntry}
    BY <1>2, <1>3, <2>2 DEF IPs
  <2>4. pool(n) \in IPs(T)
    BY <2>3 DEF IPs
  <2> QED
    BY <2>4, PoolIsPool
<1> HIDE DEF pool
<1>5. RoundTrip(l) \in Ledgers(T)
  BY <1>1, <1>4 DEF Ledgers
<1>6. Reduced(Blank) = Blank
  BY DEF Reduced, Blank, isFree
<1>7. ASSUME NEW n \in Network, NEW d \in Digit
      PROVE  Entry(RoundTrip(l), n, d) = Reduced(Entry(l, n, d))
  <2>1. CASE InPool(l, n, d)
    <3>1. RoundTrip(l)[n] = pool(n) /\ pool(n)[d] = Reduced(l[n][d])
      BY <1>1, <1>2, <2>1
    <3>2. pool(n) # NoPool /\ pool(n)[d] # NoEntry
      BY <1>3, <1>4, <2>1, <3>1, InfoIsInfo
    <3> QED
      BY <2>1, <3>1, <3>2 DEF Entry, InPool, Configured
  <2>2. CASE ~InPool(l, n, d)
    <3>1. Entry(l, n, d) = Blank
      BY <2>2 DEF Entry
    <3>2. ~InPool(RoundTrip(l), n, d)
      <4>1. CASE empty(n)
        BY <1>1, <4>1 DEF InPool, Configured
      <4>2. CASE ~empty(n)
        <5>1. Configured(l, n)
          BY <4>2 DEF InPool
        <5>2. RoundTrip(l)[n][d] = l[n][d]
          BY <1>1, <1>2, <2>2, <4>2
        <5> QED
          BY <2>2, <5>1, <5>2 DEF InPool
      <4> QED
        BY <4>1, <4>2
    <3> QED
      BY <1>6, <3>1, <3>2 DEF Entry
  <2> QED
    BY <2>1, <2>2
<1> QED
  BY <1>5, <1>7

(* Loading and saving again changes nothing any more. *)
LEMMA RoundTripTwice ==
  ASSUME NEW T \in SUBSET Nat, 0 \in T, NEW l \in Ledgers(T)
  PROVE  RoundTrip(RoundTrip(l)) = RoundTrip(l)
<1> DEFINE pool(m, n) == [d \in Digit |->
             IF InPool(m, n, d) /\ (isFree(m[n][d]) \/ m[n][d].cluster = NoCluster)
               THEN [Blank EXCEPT !.lease = m[n][d].lease] ELSE m[n][d]]
           empty(m, n) == \A d \in Digit : ~InPool(m, n, d)
           s == RoundTrip(l)
<1>1. \A m : RoundTrip(m) = [n \in Network |-> IF empty(m, n) THEN NoPool ELSE pool(m, n)]
  BY DEF RoundTrip
<1>2. \A m, n : \A d \in Digit :
        pool(m, n)[d] = IF InPool(m, n, d) THEN Reduced(m[n][d]) ELSE m[n][d]
  BY DEF Reduced
<1>3. s \in Ledgers(T)
  BY RoundTripEntry
<1> HIDE DEF s, pool, empty
<1>4. ASSUME NEW n \in Network PROVE RoundTrip(s)[n] = s[n]
  <2>1. CASE empty(l, n)
    <3>1. s[n] = NoPool
      BY <1>1, <2>1 DEF s
    <3>2. empty(s, n)
      BY <3>1 DEF empty, InPool, Configured
    <3> QED
      BY <1>1, <3>1, <3>2
  <2>2. CASE ~empty(l, n)
    <3>1. PICK x \in Digit : InPool(l, n, x)
      BY <2>2 DEF empty
    <3>2. l[n] \in IPs(T) /\ Configured(l, n)
      BY <3>1, ConfiguredPool DEF InPool
    <3>3. s[n] = pool(l, n)
      BY <1>1, <2>2 DEF s
    <3>4. \A d \in Digit : InPool(l, n, d) =>
            /\ l[n][d] \in IPInfo(T) /\ Reduced(l[n][d]) \in IPInfo(T)
            /\ Reduced(Reduced(l[n][d])) = Reduced(l[n][d])
      BY InPoolInfo, ReducedType
    <3>5. s[n][x] # NoEntry
      BY <1>2, <3>1, <3>3, <3>4, InfoIsInfo
    <3>6. s[n] # NoPool
      <4>1. \A d \in Digit : pool(l, n)[d] \in IPInfo(T) \cup {NoEntry}
        BY <1>2, <3>2, <3>4 DEF IPs
      <4>2. pool(l, n) \in IPs(T)
        BY <4>1 DEF IPs, pool
      <4> QED
        BY <3>3, <4>2, PoolIsPool
    <3>7. InPool(s, n, x)
      BY <3>5, <3>6 DEF InPool, Configured
    <3>8. RoundTrip(s)[n] = pool(s, n)
      BY <1>1, <3>7 DEF empty
    <3>9. ASSUME NEW d \in Digit PROVE pool(s, n)[d] = s[n][d]
      <4>1. CASE InPool(l, n, d)
        BY <1>2, <3>3, <3>4, <4>1
      <4>2. CASE ~InPool(l, n, d)
        <5>1. l[n][d] = NoEntry
          BY <3>2, <4>2 DEF InPool
        <5>2. s[n][d] = NoEntry
          BY <1>2, <3>3, <4>2, <5>1
        <5> QED
          BY <1>2, <5>2 DEF InPool
      <4> QED
        BY <4>1, <4>2
    <3>10. pool(s, n) = [d \in Digit |-> pool(s, n)[d]] /\ s[n] = [d \in Digit |-> s[n][d]]
      BY <3>3 DEF pool
    <3> QED
      BY <3>8, <3>9, <3>10
  <2> QED
    BY <2>1, <2>2
<1>5. RoundTrip(s) = [n \in Network |-> RoundTrip(s)[n]] /\ s = [n \in Network |-> s[n]]
  BY <1>1 DEF s
<1> QED
  BY <1>4, <1>5 DEF s

-----------------------------------------------------------------------------
(* DNS.                                                                    *)

(* The addresses whose records are written or withdrawn are addresses. *)
LEMMA WrittenType ==
  ASSUME NEW D, NEW l, NEW s, NEW r, ValidRequest(r, D), r.kind \in DNSKinds
  PROVE  Written(r, l, s) \subseteq Network \X Digit
<1>1. CASE r.kind = "reserve"
  BY <1>1 DEF Written
<1>2. CASE r.kind \in {"assign", "delete ip", "edit"}
  <2>1. r.key \in Network /\ r.ip \in IPArgument
    BY <1>2 DEF ValidRequest, WithKey, WithAddress
  <2>2. Written(r, l, s) = {r.key} \X hostDigit(r.ip, r.key)
    BY <1>2 DEF Written
  <2> QED
    BY <2>1, <2>2, DigitOf
<1>3. CASE r.kind \in {"release", "htmx delete ip"}
  <2>1. r.key \in Network /\ r.ip \in IPArgument
    BY <1>3 DEF ValidRequest, WithKey, WithAddress
  <2>2. Written(r, l, s) = {r.key} \X GetLastIPDigit(r.ip)
    BY <1>3 DEF Written
  <2> QED
    BY <2>1, <2>2, DigitOf
<1>4. CASE r.kind \in {"htmx assign", "htmx release", "htmx edit"}
  <2>1. r.ip \in IPArgument
    BY <1>4 DEF ValidRequest, WithAddress
  <2>2. Written(r, l, s) = {r.ip.net} \X GetLastIPDigit(r.ip)
    BY <1>4 DEF Written
  <2>3. GetLastIPDigit(r.ip) # {} => r.ip.net \in Network
    BY DEF GetLastIPDigit
  <2> QED
    BY <2>1, <2>2, <2>3 DEF GetLastIPDigit, IPArgument
<1> QED
  BY <1>1, <1>2, <1>3, <1>4 DEF DNSKinds

(* Where a record is created, the saved entry is the new holder's and says *)
(* that it has one.                                                        *)
Shows(s, a, c) ==
  /\ Entry(s, a[1], a[2]).cluster = c
  /\ Entry(s, a[1], a[2]).status \in DNSStatus

(* After assign, reserve and edit with dns, and their twins on the         *)
(* dashboard, the address they wrote shows that.                           *)
LEMMA WrittenEntry ==
  ASSUME NEW T \in SUBSET Nat, 0 \in T, NEW D \in SUBSET Nat, NEW t \in Nat,
         \A k \in D : t + k \in T, NEW l \in Ledgers(T),
         NEW r, ValidRequest(r, D), Created(r), NEW s \in Handle(r, t, l)
  PROVE  r.cluster \in Cluster /\ \A a \in Written(r, l, s) : Shows(s, a, r.cluster)
<1>0. /\ r.kind \in {"assign", "reserve", "edit", "htmx assign", "htmx edit"} /\ wantsDNS(r)
      /\ r.cluster \in Cluster \cup {NoCluster} /\ r.status \in Status
  BY DEF Created, ValidRequest, WithInfo, WithDNS
<1>1. SavedStatus(r) \in DNSStatus
  BY <1>0, SavedStatusType
<1>2. /\ Claim(r, t).cluster = r.cluster /\ Claim(r, t).status = SavedStatus(r)
  BY DEF Claim
<1>3. \A e \in IPInfo(T) : Edited(r, e).cluster = r.cluster /\ Edited(r, e).status = SavedStatus(r)
  BY DEF Edited, IPInfo
<1>4. CASE r.kind = "assign"
  <2>0. r.key \in Network /\ r.ip \in IPArgument
    BY <1>4 DEF ValidRequest, WithKey, WithAddress
  <2>1. PICK d \in hostDigit(r.ip, r.key) :
          r.cluster # NoCluster /\ Configured(l, r.key) /\ s = Put(l, r.key, d, Claim(r, t))
    BY <1>4 DEF Handle, handleAPIAssign
  <2>2. d \in Digit
    BY <2>0, <2>1, DigitOf
  <2>3. Claim(r, t) \in IPInfo(T)
    BY <1>4, ClaimType DEF ValidRequest, WithInfo, WithDNS
  <2>4. Entry(s, r.key, d) = Claim(r, t)
    BY <2>0, <2>1, <2>2, <2>3, PutEntry, InfoIsInfo
  <2>5. \A a \in Written(r, l, s) : a = <<r.key, d>>
    BY <1>4, <2>1 DEF Written, hostDigit
  <2>6. r.cluster # NoCluster
    BY <2>1
  <2>7. Shows(s, <<r.key, d>>, r.cluster)
    BY <1>1, <1>2, <2>4 DEF Shows
  <2> QED
    BY <1>0, <2>5, <2>6, <2>7
<1>5. CASE r.kind = "reserve"
  <2>1. r.cluster # NoCluster
    BY <1>5 DEF Handle, handleAPIReserve
  <2>2. Allowed(r, t, l, s)
    BY <1>5, RestEffect
  <2>3. ASSUME NEW a \in Written(r, l, s) PROVE Shows(s, a, r.cluster)
    <3>1. a \in Network \X Digit /\ Entry(l, a[1], a[2]) # Entry(s, a[1], a[2])
      BY <1>5 DEF Written
    <3>2. May(r, t, a[1], a[2], Entry(l, a[1], a[2]), Entry(s, a[1], a[2]))
      BY <2>2, <3>1 DEF Allowed
    <3>3. Entry(s, a[1], a[2]) = Claim(r, t)
      BY <1>5, <3>2 DEF May, MayClaim, MayReserve, MayEdit, MayRenew, MayClear, MaySet
    <3> QED
      BY <1>1, <1>2, <3>3 DEF Shows
  <2> QED
    BY <1>0, <2>1, <2>3
<1>6. CASE r.kind = "edit"
  <2>0. r.key \in Network /\ r.ip \in IPArgument
    BY <1>6 DEF ValidRequest, WithKey, WithAddress
  <2>1. PICK d \in hostDigit(r.ip, r.key) :
          Complete(r) /\ InPool(l, r.key, d) /\ s = Put(l, r.key, d, Edited(r, l[r.key][d]))
    BY <1>6 DEF Handle, handleAPIEditIP, PathDigit
  <2>2. d \in Digit
    BY <2>0, <2>1, DigitOf
  <2>3. l[r.key][d] \in IPInfo(T)
    BY <2>0, <2>1, <2>2, InPoolInfo
  <2>4. Edited(r, l[r.key][d]) \in IPInfo(T)
    BY <1>0, <2>3, UpdateType, SavedStatusType DEF Edited
  <2>5. Entry(s, r.key, d) = Edited(r, l[r.key][d])
    BY <2>0, <2>1, <2>2, <2>4, PutEntry, InfoIsInfo DEF InPool
  <2>6. \A a \in Written(r, l, s) : a = <<r.key, d>>
    BY <1>6, <2>1 DEF Written, hostDigit
  <2>7. r.cluster # NoCluster
    BY <2>1 DEF Complete
  <2>8. Shows(s, <<r.key, d>>, r.cluster)
    BY <1>1, <1>3, <2>3, <2>5 DEF Shows
  <2> QED
    BY <1>0, <2>6, <2>7, <2>8
<1>7. CASE r.kind \in {"htmx assign", "htmx edit"}
  <2>0. r.ip \in IPArgument
    BY <1>7 DEF ValidRequest, WithAddress
  <2>1. s \in handleHTMXEdit(r, l)
    BY <1>7 DEF Handle, handleHTMXAssign
  <2>2. PICK d \in GetLastIPDigit(r.ip) :
          /\ Complete(r) /\ Configured(l, r.ip.net)
          /\ s = Put(l, r.ip.net, d, Edited(r, Entry(l, r.ip.net, d)))
    BY <2>1 DEF handleHTMXEdit
  <2>3. d \in Digit /\ r.ip.net \in Network
    BY <2>0, <2>2 DEF GetLastIPDigit, IPArgument
  <2>4. Entry(l, r.ip.net, d) \in IPInfo(T)
    BY <2>3, EntryType
  <2>5. Edited(r, Entry(l, r.ip.net, d)) \in IPInfo(T)
    BY <1>0, <2>4, UpdateType, SavedStatusType DEF Edited
  <2>6. Entry(s, r.ip.net, d) = Edited(r, Entry(l, r.ip.net, d))
    BY <2>2, <2>3, <2>5, PutEntry, InfoIsInfo
  <2>7. \A a \in Written(r, l, s) : a = <<r.ip.net, d>>
    <3>1. d = r.ip.host /\ GetLastIPDigit(r.ip) = {r.ip.host}
      BY <2>3 DEF GetLastIPDigit
    <3>2. Written(r, l, s) = {r.ip.net} \X GetLastIPDigit(r.ip)
      BY <1>7 DEF Written
    <3> QED
      BY <3>1, <3>2
  <2>8. r.cluster # NoCluster
    BY <2>2 DEF Complete
  <2>9. Shows(s, <<r.ip.net, d>>, r.cluster)
    BY <1>1, <1>3, <2>4, <2>6 DEF Shows
  <2> QED
    BY <1>0, <2>7, <2>8, <2>9
<1> QED
  BY <1>0, <1>4, <1>5, <1>6, <1>7

(* A request that names its address writes that one.                       *)
LEMMA WrittenNamed ==
  ASSUME NEW D, NEW l, NEW s, NEW r, ValidRequest(r, D), r.kind \in DNSKinds, r.kind # "reserve",
         NEW a \in Written(r, l, s)
  PROVE  /\ r.kind \in {"assign", "delete ip", "edit", "release", "htmx delete ip"} =>
              a = <<r.key, r.ip.host>>
         /\ r.kind \in {"htmx assign", "htmx release", "htmx edit"} => a = <<r.ip.net, r.ip.host>>
<1>0. ASSUME NEW k, NEW h, NEW S, \A x \in S : x = h, a \in {k} \X S PROVE a = <<k, h>>
  BY <1>0
<1>1. CASE r.kind \in {"assign", "delete ip", "edit"}
  <2>1. Written(r, l, s) = {r.key} \X hostDigit(r.ip, r.key)
    BY <1>1 DEF Written
  <2>2. \A x \in hostDigit(r.ip, r.key) : x = r.ip.host
    BY DEF hostDigit
  <2>3. a = <<r.key, r.ip.host>>
    BY <1>0, <2>1, <2>2
  <2> QED
    BY <1>1, <2>3
<1>2. ASSUME r.kind \notin {"assign", "delete ip", "edit"}
      PROVE  a = IF r.kind \in {"release", "htmx delete ip"} THEN <<r.key, r.ip.host>>
                 ELSE <<r.ip.net, r.ip.host>>
  <2>1. Written(r, l, s) = IF r.kind \in {"release", "htmx delete ip"}
                           THEN {r.key} \X GetLastIPDigit(r.ip) ELSE {r.ip.net} \X GetLastIPDigit(r.ip)
    BY <1>2 DEF Written
  <2>2. \A x \in GetLastIPDigit(r.ip) : x = r.ip.host
    BY DEF GetLastIPDigit
  <2> QED
    BY <1>0, <2>1, <2>2
<1> QED
  BY <1>1, <1>2 DEF DNSKinds

(* No request writes two addresses that may have records.                  *)
LEMMA WrittenOne ==
  ASSUME NEW T \in SUBSET Nat, 0 \in T, NEW D \in SUBSET Nat, NEW t \in Nat,
         \A k \in D : t + k \in T, NEW l \in Ledgers(T),
         NEW r, ValidRequest(r, D), r.kind \in DNSKinds, NEW s \in Handle(r, t, l),
         NEW a \in Written(r, l, s), NEW b \in Written(r, l, s)
  PROVE  a = b
<1>1. CASE r.kind = "reserve"
  <2>0. /\ r.key \in Network /\ r.any \in BOOLEAN /\ (~r.any => r.ip \in IPArgument)
        /\ r.cluster \in Cluster \cup {NoCluster} /\ r.status \in Status /\ r.lease \in D
    BY <1>1 DEF ValidRequest, WithKey, WithInfo, WithDNS
  <2>1. PICK d \in Reservable(r, l) : Configured(l, r.key) /\ s = Put(l, r.key, d, Claim(r, t))
    BY <1>1 DEF Handle, handleAPIReserve
  <2>2. d \in Digit
    <3>1. CASE r.any
      BY <2>1, <3>1 DEF Reservable, FreeDigits
    <3>2. CASE ~r.any
      BY <2>0, <2>1, <3>2, DigitOf DEF Reservable
    <3> QED
      BY <3>1, <3>2
  <2>3. Claim(r, t) \in IPInfo(T)
    BY <2>0, ClaimType
  <2>4. \A m \in Network, x \in Digit : ~(m = r.key /\ x = d) => Entry(s, m, x) = Entry(l, m, x)
    BY <2>0, <2>1, <2>2, <2>3, PutEntry
  <2>5. \A e \in Written(r, l, s) : e \in Network \X Digit /\ Entry(l, e[1], e[2]) # Entry(s, e[1], e[2])
    BY <1>1 DEF Written
  <2>6. \A e \in Written(r, l, s) : e = <<r.key, d>>
    BY <2>4, <2>5
  <2> QED
    BY <2>6
<1>2. CASE r.kind # "reserve"
  <2>1. \A e \in Written(r, l, s) :
          /\ r.kind \in {"assign", "delete ip", "edit", "release", "htmx delete ip"} =>
               e = <<r.key, r.ip.host>>
          /\ r.kind \in {"htmx assign", "htmx release", "htmx edit"} => e = <<r.ip.net, r.ip.host>>
    BY <1>2, WrittenNamed
  <2>2. \/ r.kind \in {"assign", "delete ip", "edit", "release", "htmx delete ip"}
        \/ r.kind \in {"htmx assign", "htmx release", "htmx edit"}
    BY <1>2 DEF DNSKinds
  <2>3. CASE r.kind \in {"assign", "delete ip", "edit", "release", "htmx delete ip"}
    BY <2>1, <2>3, Zenon
  <2>4. CASE r.kind \in {"htmx assign", "htmx release", "htmx edit"}
    BY <2>1, <2>4, Zenon
  <2> QED
    BY <2>2, <2>3, <2>4
<1> QED
  BY <1>1, <1>2

(* Whatever the order a Go map is gone through in, no key is left out.     *)
LEMMA OrdersAll ==
  ASSUME NEW S, IsFiniteSet(S), NEW order \in Orders(S), NEW a \in S
  PROVE  \E i \in DOMAIN order : order[i] = a
<1>1. Cardinality(S) \in Nat
  BY FS_CardinalityType
<1> DEFINE I == 1..Cardinality(S)
<1>2. order \in [I -> S] /\ \A i, j \in I : order[i] = order[j] => i = j
  BY DEF Orders
<1>3. Cardinality(I) = Cardinality(S)
  BY <1>1, FS_Interval
<1> HIDE DEF I
<1>4. order \in Injection(I, S)
  BY <1>2 DEF Injection, IsInjective
<1>5. order \in Surjection(I, S)
  BY <1>3, <1>4, FS_Injection
<1> QED
  BY <1>2, <1>5 DEF Surjection

(* The removal of the old record comes before the new one. *)
LEMMA RecordChangesTasks ==
  ASSUME NEW S, NEW r, NEW previous, NEW a,
         DeleteRecord(previous.cluster) \in S,
         Created(r) => CreateRecord(r.cluster, a[1], a[2]) \in S
  PROVE  /\ RecordChanges(r, previous, a) \in Seq(S)
         /\ \A i \in DOMAIN RecordChanges(r, previous, a) :
              \/ RecordChanges(r, previous, a)[i] = DeleteRecord(previous.cluster)
              \/ Created(r) /\ RecordChanges(r, previous, a)[i] = CreateRecord(r.cluster, a[1], a[2])
<1> DEFINE del == DeleteRecord(previous.cluster)
           cre == CreateRecord(r.cluster, a[1], a[2])
           first == IF Withdrawn(r, previous) THEN <<del>> ELSE <<>>
           second == IF Created(r) THEN <<cre>> ELSE <<>>
<1>1. first \in Seq(S) /\ \A i \in DOMAIN first : first[i] = del
  <2>1. CASE Withdrawn(r, previous)
    BY <2>1
  <2>2. CASE ~Withdrawn(r, previous)
    BY <2>2
  <2> QED
    BY <2>1, <2>2
<1>2. second \in Seq(S) /\ \A i \in DOMAIN second : Created(r) /\ second[i] = cre
  <2>1. CASE Created(r)
    BY <2>1
  <2>2. CASE ~Created(r)
    BY <2>2
  <2> QED
    BY <2>1, <2>2
<1>3. RecordChanges(r, previous, a) = first \o second
  BY DEF RecordChanges
<1> HIDE DEF first, second
<1>4. ASSUME NEW i \in DOMAIN (first \o second)
      PROVE  \/ i \in DOMAIN first /\ (first \o second)[i] = first[i]
             \/ \E j \in DOMAIN second : (first \o second)[i] = second[j]
  BY <1>1, <1>2
<1>5. first \o second \in Seq(S)
  BY <1>1, <1>2
<1> QED
  BY <1>1, <1>2, <1>3, <1>4, <1>5

(* One or two tasks, of which the one that creates a record is for an      *)
(* entry that shows it, or the removals of what was reclaimed.             *)
LEMMA WorkIsTasks ==
  ASSUME NEW T \in SUBSET Nat, 0 \in T, NEW D \in SUBSET Nat, NEW t \in Nat,
         \A k \in D : t + k \in T, NEW l \in Ledgers(T), NEW r,
         ValidRequest(r, D) \/ (r.kind = "reclaim" /\ r.now \in Nat),
         NEW s \in Handle(r, t, l), NEW tasks \in DNSWork(r, l, s)
  PROVE  /\ tasks \in Seq(Task)
         /\ \A i \in DOMAIN tasks :
              tasks[i].op = "create" => Shows(s, tasks[i].addr, tasks[i].cluster)
<1>1. CASE r.kind \in DNSKinds
  <2>1. ValidRequest(r, D)
    BY <1>1 DEF DNSKinds
  <2>2. PICK a \in Written(r, l, s) : tasks = RecordChanges(r, Entry(l, a[1], a[2]), a)
    <3>1. DNSWork(r, l, s) = {RecordChanges(r, Entry(l, a[1], a[2]), a) : a \in Written(r, l, s)}
      BY <1>1, Zenon DEF DNSWork, DNSKinds
    <3> QED
      BY <3>1
  <2>3. a \in Network \X Digit
    BY <1>1, <2>1, WrittenType
  <2>4. Created(r) => r.cluster \in Cluster /\ Shows(s, a, r.cluster)
    BY <2>1, WrittenEntry
  <2>5. DeleteRecord(Entry(l, a[1], a[2]).cluster) \in Task
    <3>1. Entry(l, a[1], a[2]) \in IPInfo(T)
      BY <2>3, EntryType
    <3> QED
      BY <3>1 DEF IPInfo, DeleteRecord, Task
  <2>6. Created(r) => CreateRecord(r.cluster, a[1], a[2]) \in Task
    BY <2>3, <2>4 DEF CreateRecord, Task, Address
  <2> DEFINE del == DeleteRecord(Entry(l, a[1], a[2]).cluster)
             cre == CreateRecord(r.cluster, a[1], a[2])
  <2>7. del.op # "create" /\ cre.addr = a /\ cre.cluster = r.cluster
    BY <2>3 DEF DeleteRecord, CreateRecord
  <2>8. /\ tasks \in Seq(Task)
        /\ \A i \in DOMAIN tasks : tasks[i] = del \/ (Created(r) /\ tasks[i] = cre)
    BY <2>2, <2>5, <2>6, RecordChangesTasks
  <2> HIDE DEF del, cre
  <2> QED
    BY <2>4, <2>7, <2>8
<1>2. CASE r.kind = "reclaim"
  <2> DEFINE S == ReclaimedDNS(l, r.now)
  <2>1. PICK order \in Orders(S) :
          tasks = [i \in DOMAIN order |-> DeleteRecord(l[order[i][1]][order[i][2]].cluster)]
    <3>1. PICK order \in Orders(S) : tasks = Removals(l, order)
      BY <1>2 DEF DNSWork, DNSKinds
    <3> QED
      BY <3>1 DEF Removals
  <2>2. \A a \in S : a \in Network \X Digit /\ InPool(l, a[1], a[2])
    BY DEF ReclaimedDNS, FindExpiredLeases
  <2>3. \A a \in S : DeleteRecord(l[a[1]][a[2]].cluster) \in Task
    <3>1. \A a \in S : l[a[1]][a[2]] \in IPInfo(T)
      BY <2>2, InPoolInfo
    <3> QED
      BY <3>1 DEF IPInfo, DeleteRecord, Task
  <2>4. Cardinality(S) \in Nat
    <3>1. S \subseteq Network \X Digit
      BY <2>2
    <3>2. IsFiniteSet(Network \X Digit)
      BY FiniteAssumption, FS_Product
    <3> QED
      BY <3>1, <3>2, FS_Subset, FS_CardinalityType
  <2> HIDE DEF S
  <2>5. order \in [1..Cardinality(S) -> S]
    BY <2>1 DEF Orders
  <2>6. /\ tasks \in [1..Cardinality(S) -> Task]
        /\ \A i \in DOMAIN tasks : tasks[i].op # "create"
    BY <2>1, <2>3, <2>5 DEF DeleteRecord
  <2> QED
    BY <2>4, <2>6
<1>3. CASE r.kind \notin DNSKinds /\ r.kind # "reclaim"
  <2>1. tasks = <<>>
    BY <1>3 DEF DNSWork
  <2> QED
    BY <2>1
<1> QED
  BY <1>1, <1>2, <1>3

=============================================================================
