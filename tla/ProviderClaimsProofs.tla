------------------------ MODULE ProviderClaimsProofs ------------------------
(***************************************************************************)
(* Proofs about the addresses the Crossplane provider claims, where nobody *)
(* else claims any for the clusters of its assignments: it never holds     *)
(* more than asked for, takes only what it saw and leaves nothing behind,  *)
(* and its leases last for half their duration after each reconcile.       *)
(***************************************************************************)
EXTENDS ProviderProofs

-----------------------------------------------------------------------------
(* Claims: what each call does to the addresses that are held.             *)

(* A request that claims nothing for an assignment's cluster, of another   *)
(* client, the reclaimer or the Network controller, gives it no address.   *)
LEMMA ForeignEffect ==
  ASSUME NEW r, \A a \in Assignment : r.kind \in WithInfo => r.cluster # Owner(a),
         NEW t, NEW l \in Ledgers(Nat), NEW s \in Ledgers(Nat), Allowed(r, t, l, s), OwnedIn(l)
  PROVE  OwnedIn(s) /\ \A a \in Assignment : Held(s, a) \subseteq Held(l, a)
<1>1. ASSUME NEW a \in Assignment, NEW d \in Digit,
             Entry(s, Key(a), d).cluster = Owner(a)
      PROVE  /\ Entry(l, Key(a), d).cluster = Entry(s, Key(a), d).cluster
             /\ Entry(l, Key(a), d).status = Entry(s, Key(a), d).status
  <2>n. PICK n \in Network : n = Key(a)
    BY AssignmentFacts
  <2>1. PICK was, is : was = Entry(l, n, d) /\ is = Entry(s, n, d)
    OBVIOUS
  <2>2. was \in IPInfo(Nat) /\ is.cluster = Owner(a) /\ Owner(a) # NoCluster
    BY <1>1, <2>n, <2>1, EntryType, AssignmentFacts
  <2>3. CASE is = was
    BY <2>n, <2>1, <2>3
  <2>4. CASE is # was
    <3>1. May(r, t, n, d, was, is)
      BY <2>1, <2>4 DEF Allowed
    <3>2. r.kind \in WithInfo => r.cluster # Owner(a)
      OBVIOUS
    <3>3. ~MayClaim(r, t, n, d, was, is)
      <4>1. MayClaim(r, t, n, d, was, is) => r.kind \in {"assign", "reserve"} /\ is = Claim(r, t)
        BY DEF MayClaim
      <4>2. Claim(r, t).cluster = r.cluster
        BY DEF Claim
      <4>3. {"assign", "reserve"} \subseteq WithInfo
        BY DEF WithInfo, WithDNS
      <4> QED
        BY <2>2, <3>2, <4>1, <4>2, <4>3
    <3>4. ~MayReserve(r, n, was, is)
      BY <2>2, <3>2 DEF MayReserve, WithInfo
    <3>5. ~MayEdit(r, n, d, was, is)
      BY <2>2, <3>2 DEF MayEdit, Edited, IPInfo, WithInfo, WithDNS
    <3>6. ~MayClear(r, n, d, was, is)
      <4>1. MayClear(r, n, d, was, is) => is = Blank
        BY DEF MayClear
      <4>2. Blank.cluster = NoCluster
        BY DEF Blank
      <4> QED
        BY <2>2, <4>1, <4>2
    <3>7. ~MaySet(r, n, d, was, is)
      BY <2>2, <3>2 DEF MaySet, IPInfo, WithInfo
    <3>8. MayRenew(r, t, n, d, was, is)
      BY <3>1, <3>3, <3>4, <3>5, <3>6, <3>7 DEF May
    <3>9. is.cluster = was.cluster /\ is.status = was.status
      BY <2>2, <3>8 DEF MayRenew, IPInfo
    <3> QED
      BY <2>n, <2>1, <3>9
  <2> QED
    BY <2>3, <2>4
<1>2. OwnedIn(s)
  BY <1>1 DEF OwnedIn, isFree
<1>3. \A a \in Assignment : Held(s, a) \subseteq Held(l, a)
  BY <1>1 DEF Held, isFree
<1> QED
  BY <1>2, <1>3

ReserveRequest(a) ==
  ReserveIP(Key(a), Owner(a), ForProvider[a].status, ForProvider[a].createDNS, ForProvider[a].lease)

(* Each call for an assignment writes one entry of its network.            *)
LEMMA OwnPut ==
  ASSUME NEW a \in Assignment, NEW t \in Nat, NEW l \in Ledgers(Nat),
         NEW r \in {ReserveRequest(a)} \cup Edits(a) \cup Releases(a), NEW s \in Handle(r, t, l)
  PROVE  \E d \in Digit, e \in IPInfo(Nat) :
           /\ Configured(l, Key(a)) /\ s = Put(l, Key(a), d, e)
           /\ r.kind \in {"reserve", "edit", "renew", "release"}
           /\ r.kind \in {"reserve", "edit"} => e.cluster = Owner(a) /\ ~isFree(e)
           /\ r.kind = "reserve" => InPool(l, Key(a), d) /\ isFree(Entry(l, Key(a), d))
           /\ r.kind # "reserve" => d = r.ip.host
           /\ r.kind = "renew" => /\ e.cluster = Entry(l, Key(a), d).cluster
                                  /\ e.status = Entry(l, Key(a), d).status
           /\ r.kind = "release" => e = Blank
           /\ r.kind \in {"reserve", "renew"} /\ Leased(a) => e.lease = t + ForProvider[a].lease
           /\ r.kind = "edit" => e.lease = Entry(l, Key(a), d).lease
<1>n. PICK n \in Network : n = Key(a)
  BY AssignmentFacts
<1>c. PICK c \in Cluster : c = Owner(a) /\ c # NoCluster
  BY AssignmentFacts
<1>p. /\ ForProvider[a].status \in Status \ {""} /\ ForProvider[a].createDNS \in BOOLEAN
      /\ ForProvider[a].lease \in Nat
  BY AssignmentFacts
<1>1. CASE r = ReserveRequest(a)
  <2>1. /\ r.kind = "reserve" /\ r.key = n /\ r.any = TRUE /\ r.cluster = c /\ r.lease \in Nat
        /\ r.status \in Status
    BY <1>1, <1>n, <1>c, <1>p DEF ReserveRequest, ReserveIP
  <2>2. s \in handleAPIReserve(r, t, l)
    BY <2>1 DEF Handle
  <2>3. PICK d \in FreeDigits(l, n) : Configured(l, n) /\ s = Put(l, n, d, Claim(r, t))
    BY <2>1, <2>2 DEF handleAPIReserve, Reservable
  <2>4. d \in Digit /\ InPool(l, n, d) /\ isFree(l[n][d])
    BY <2>3 DEF FreeDigits
  <2>5. isFree(Entry(l, n, d))
    BY <2>4 DEF Entry
  <2>6. Claim(r, t) \in IPInfo(Nat)
    <3>1. Nat \in SUBSET Nat /\ 0 \in Nat /\ \A k \in Nat : t + k \in Nat
      OBVIOUS
    <3> QED
      BY <2>1, <3>1, ClaimType
  <2>7. Claim(r, t).cluster = c /\ ~isFree(Claim(r, t))
    <3>1. SavedStatus(r) # ""
      BY <2>1, SavedStatusType
    <3> QED
      BY <2>1, <3>1 DEF Claim, isFree
  <2>8. Leased(a) => Claim(r, t).lease = t + ForProvider[a].lease
    BY <1>1 DEF ReserveRequest, ReserveIP, Claim, LeaseEnd, Leased
  <2> QED
    BY <1>n, <1>c, <2>1, <2>3, <2>4, <2>5, <2>6, <2>7, <2>8
<1>2. ASSUME NEW d \in Digit,
             r = EditIP(Key(a), d, Owner(a), ForProvider[a].status, ForProvider[a].createDNS)
      PROVE  /\ r.kind = "edit" /\ d = r.ip.host /\ Configured(l, n)
             /\ \E e \in IPInfo(Nat) : /\ s = Put(l, n, d, e) /\ e.cluster = c /\ ~isFree(e)
                                       /\ e.lease = Entry(l, n, d).lease
  <2>1. /\ r.kind = "edit" /\ r.key = n /\ r.ip = [net |-> HostPart, host |-> d] /\ r.cluster = c
        /\ r.status \in Status
    BY <1>2, <1>n, <1>c, <1>p DEF EditIP
  <2>2. s \in handleAPIEditIP(r, l)
    BY <2>1 DEF Handle
  <2>3. PathDigit(r.ip, n) = {d} /\ r.ip.host = d
    BY <2>1 DEF PathDigit, hostDigit
  <2>4. InPool(l, n, d) /\ s = Put(l, n, d, Edited(r, l[n][d]))
    BY <2>1, <2>2, <2>3 DEF handleAPIEditIP
  <2>5. l[n][d] \in IPInfo(Nat)
    BY <2>4, InPoolInfo
  <2>6. SavedStatus(r) \in Status \ {""}
    BY <2>1, SavedStatusType
  <2>7. Edited(r, l[n][d]) \in IPInfo(Nat) /\ Edited(r, l[n][d]).cluster = c /\ ~isFree(Edited(r, l[n][d]))
    BY <2>1, <2>5, <2>6 DEF Edited, IPInfo, isFree
  <2>8. Edited(r, l[n][d]).lease = Entry(l, n, d).lease
    BY <2>4, <2>5 DEF Edited, Entry, IPInfo
  <2> QED
    BY <2>1, <2>3, <2>4, <2>7, <2>8 DEF InPool
<1>3. ASSUME NEW d \in Digit, r = RenewLease(Key(a), d, ForProvider[a].lease)
      PROVE  /\ r.kind = "renew" /\ d = r.ip.host /\ Configured(l, n)
             /\ \E e \in IPInfo(Nat) : /\ s = Put(l, n, d, e) /\ e.cluster = Entry(l, n, d).cluster
                                       /\ e.status = Entry(l, n, d).status
                                       /\ e.lease = t + ForProvider[a].lease
  <2>1. r.kind = "renew" /\ r.key = n /\ r.ip = [net |-> n, host |-> d] /\ r.lease \in Nat
        /\ r.lease = ForProvider[a].lease
    BY <1>3, <1>n, <1>p DEF RenewLease
  <2>2. s \in handleAPIRenewLease(r, t, l)
    BY <2>1 DEF Handle
  <2>3. GetLastIPDigit(r.ip) = {d} /\ r.ip.host = d
    BY <2>1 DEF GetLastIPDigit
  <2>4. InPool(l, n, d) /\ s = Put(l, n, d, [l[n][d] EXCEPT !.lease = t + r.lease])
    BY <2>1, <2>2, <2>3 DEF handleAPIRenewLease
  <2>5. l[n][d] \in IPInfo(Nat) /\ Entry(l, n, d) = l[n][d]
    BY <2>4, InPoolInfo
  <2>6. PICK e : e = [l[n][d] EXCEPT !.lease = t + r.lease]
    OBVIOUS
  <2>7. /\ e \in IPInfo(Nat) /\ e.cluster = l[n][d].cluster /\ e.status = l[n][d].status
        /\ e.lease = t + r.lease
    BY <2>1, <2>5, <2>6 DEF IPInfo
  <2> QED
    BY <2>1, <2>3, <2>4, <2>5, <2>6, <2>7 DEF InPool
<1>4. ASSUME NEW d \in Digit, r = ReleaseIP(Key(a), d)
      PROVE  /\ r.kind = "release" /\ d = r.ip.host /\ Configured(l, n)
             /\ Blank \in IPInfo(Nat) /\ s = Put(l, n, d, Blank)
  <2>1. r.kind = "release" /\ r.key = n /\ r.ip = [net |-> n, host |-> d]
    BY <1>4, <1>n DEF ReleaseIP
  <2>2. s \in handleAPIRelease(r, l)
    BY <2>1 DEF Handle
  <2>3. GetLastIPDigit(r.ip) = {d} /\ r.ip.host = d
    BY <2>1 DEF GetLastIPDigit
  <2> QED
    BY <2>1, <2>2, <2>3, BlankType DEF handleAPIRelease
<1>5. CASE r \in Edits(a) /\ r # ReserveRequest(a)
  <2>1. PICK d \in Digit :
          \/ r = EditIP(Key(a), d, Owner(a), ForProvider[a].status, ForProvider[a].createDNS)
          \/ r = RenewLease(Key(a), d, ForProvider[a].lease)
    BY <1>5 DEF Edits
  <2> QED
    BY <1>n, <1>c, <1>2, <1>3, <2>1
<1>6. CASE r \in Releases(a)
  <2>1. PICK d \in Digit : r = ReleaseIP(Key(a), d)
    BY <1>6 DEF Releases
  <2> QED
    BY <1>n, <1>4, <2>1
<1> QED
  BY <1>1, <1>5, <1>6

(* Nobody else has the network and the cluster of an assignment.           *)
LEMMA DistinctOwners ==
  ASSUME OnlyProviderClaims, NEW a \in Assignment, NEW b \in Assignment, a # b, Key(a) = Key(b)
  PROVE  Owner(a) # Owner(b)
  BY DEF OnlyProviderClaims

(* What a call for an assignment does: a reservation gives it an address   *)
(* that was free, an edit the address it names, from whoever held it; a    *)
(* release takes that address away, and a renewal changes no holder.       *)
Gives(a, l, s, d) ==
  /\ Held(s, a) = Held(l, a) \cup {d}
  /\ \A b \in Assignment \ {a} :
       Held(s, b) = IF Key(b) = Key(a) THEN Held(l, b) \ {d} ELSE Held(l, b)

Writes(a, l, s, d) ==
  \A n \in Network, x \in Digit : Entry(s, n, x) # Entry(l, n, x) => n = Key(a) /\ x = d

(* These are the effects of its calls.                                     *)
LEMMA OwnEffect ==
  ASSUME OnlyProviderClaims,
         NEW a \in Assignment, NEW t \in Nat, NEW l \in Ledgers(Nat), OwnedIn(l),
         NEW r \in {ReserveRequest(a)} \cup Edits(a) \cup Releases(a), NEW s \in Handle(r, t, l)
  PROVE  /\ OwnedIn(s)
         /\ r.kind \in {"reserve", "edit", "renew", "release"}
         /\ r.kind = "reserve" =>
              \E d \in Digit :
                /\ isFree(Entry(l, Key(a), d)) /\ Gives(a, l, s, d) /\ Writes(a, l, s, d)
                /\ {x \in Digit : s[Key(a)][x] # l[Key(a)][x]} = {d}
         /\ r.kind # "reserve" => Writes(a, l, s, r.ip.host)
         /\ r.kind = "edit" => Gives(a, l, s, r.ip.host)
         /\ r.kind = "renew" => \A b \in Assignment : Held(s, b) = Held(l, b)
         /\ r.kind = "release" =>
              \A b \in Assignment :
                Held(s, b) = IF Key(b) = Key(a) THEN Held(l, b) \ {r.ip.host} ELSE Held(l, b)
<1>n. PICK n \in Network : n = Key(a)
  BY AssignmentFacts
<1>1. PICK d \in Digit, e \in IPInfo(Nat) :
           /\ Configured(l, n) /\ s = Put(l, n, d, e)
           /\ r.kind \in {"reserve", "edit", "renew", "release"}
           /\ r.kind \in {"reserve", "edit"} => e.cluster = Owner(a) /\ ~isFree(e)
           /\ r.kind = "reserve" => InPool(l, n, d) /\ isFree(Entry(l, n, d))
           /\ r.kind # "reserve" => d = r.ip.host
           /\ r.kind = "renew" => /\ e.cluster = Entry(l, n, d).cluster
                                  /\ e.status = Entry(l, n, d).status
           /\ r.kind = "release" => e = Blank
  BY <1>n, OwnPut
<1>2. e # NoEntry /\ \A m \in Network, x \in Digit : Entry(s, m, x) = IF m = n /\ x = d THEN e ELSE Entry(l, m, x)
  BY <1>1, PutEntry, InfoIsInfo
<1>3. \A b \in Assignment :
        /\ Key(b) \in Network /\ Owner(b) # NoCluster
        /\ Held(s, b) = IF Key(b) # n THEN Held(l, b)
                        ELSE IF e.cluster = Owner(b) /\ ~isFree(e) THEN Held(l, b) \cup {d}
                        ELSE Held(l, b) \ {d}
  <2> SUFFICES ASSUME NEW b \in Assignment
               PROVE  /\ Key(b) \in Network /\ Owner(b) # NoCluster
                      /\ Held(s, b) = IF Key(b) # n THEN Held(l, b)
                                      ELSE IF e.cluster = Owner(b) /\ ~isFree(e) THEN Held(l, b) \cup {d}
                                      ELSE Held(l, b) \ {d}
    OBVIOUS
  <2>1. Configured(l, n) /\ s = Put(l, n, d, e)
    BY <1>1
  <2>2. Held(Put(l, n, d, e), b) = IF Key(b) # n THEN Held(l, b)
                                  ELSE IF e.cluster = Owner(b) /\ ~isFree(e) THEN Held(l, b) \cup {d}
                                  ELSE Held(l, b) \ {d}
    BY <2>1, PutHeld
  <2>3. Key(b) \in Network /\ Owner(b) # NoCluster
    BY AssignmentFacts
  <2>4. Held(s, b) = Held(Put(l, n, d, e), b)
    BY <2>1
  <2> QED
    BY <2>2, <2>3, <2>4
<1>4. \A b \in Assignment \ {a} : Key(b) = n => Owner(b) # Owner(a)
  BY <1>n, DistinctOwners
<1>5. OwnedIn(s)
  <2> SUFFICES ASSUME NEW b \in Assignment, NEW x \in Digit, Entry(s, Key(b), x).cluster = Owner(b)
               PROVE  ~isFree(Entry(s, Key(b), x))
    BY DEF OwnedIn
  <2>1. CASE Key(b) = n /\ x = d
    <3>1. Entry(s, Key(b), x) = e /\ e.cluster = Owner(b) /\ Owner(b) # NoCluster
      BY <1>2, <1>3, <2>1
    <3>2. CASE r.kind \in {"reserve", "edit"}
      BY <1>1, <3>1, <3>2
    <3>3. CASE r.kind = "renew"
      BY <1>1, <2>1, <3>1, <3>3 DEF OwnedIn, isFree
    <3>4. CASE r.kind = "release"
      <4>1. e = Blank /\ Blank.cluster = NoCluster
        BY <1>1, <3>4 DEF Blank
      <4> QED
        BY <3>1, <4>1
    <3> QED
      BY <1>1, <3>2, <3>3, <3>4
  <2>2. CASE ~(Key(b) = n /\ x = d)
    BY <1>2, <1>3, <2>2 DEF OwnedIn
  <2> QED
    BY <2>1, <2>2
<1>6. Writes(a, l, s, d)
  BY <1>n, <1>2 DEF Writes
<1>7. r.kind \in {"reserve", "edit"} => Gives(a, l, s, d)
  BY <1>n, <1>1, <1>3, <1>4 DEF Gives
<1>8. r.kind = "reserve" => {x \in Digit : s[n][x] # l[n][x]} = {d}
  <2> SUFFICES ASSUME r.kind = "reserve" PROVE {x \in Digit : s[n][x] # l[n][x]} = {d}
    OBVIOUS
  <2>1. l[n] \in IPs(Nat) /\ s = [l EXCEPT ![n][d] = e]
    BY <1>1 DEF Configured, Put, Ledgers
  <2>2. s[n] = [l[n] EXCEPT ![d] = e]
    BY <2>1 DEF Ledgers
  <2>3. \A x \in Digit : s[n][x] = IF x = d THEN e ELSE l[n][x]
    BY <2>1, <2>2 DEF IPs
  <2>4. isFree(l[n][d]) /\ ~isFree(e)
    BY <1>1 DEF Entry
  <2>5. l[n][d] # e
    BY <2>4
  <2> QED
    BY <2>3, <2>5
<1>9. r.kind = "renew" => \A b \in Assignment : Held(s, b) = Held(l, b)
  <2> SUFFICES ASSUME r.kind = "renew", NEW b \in Assignment PROVE Held(s, b) = Held(l, b)
    OBVIOUS
  <2>1. CASE Key(b) # n
    BY <1>3, <2>1
  <2>2. CASE Key(b) = n
    <3>1. d \in Held(l, b) <=> (e.cluster = Owner(b) /\ ~isFree(e))
      BY <1>1, <2>2 DEF Held, isFree
    <3> QED
      BY <1>3, <2>2, <3>1
  <2> QED
    BY <2>1, <2>2
<1>10. r.kind = "release" =>
         \A b \in Assignment :
           Held(s, b) = IF Key(b) = n THEN Held(l, b) \ {d} ELSE Held(l, b)
  <2>1. isFree(Blank)
    BY DEF isFree, Blank
  <2> QED
    BY <1>1, <1>3, <2>1
<1> QED
  BY <1>n, <1>1, <1>5, <1>6, <1>7, <1>8, <1>9, <1>10

-----------------------------------------------------------------------------
(* What Observe and Create conclude from the ledger.                       *)

(* A set of host parts has at least as many as each of its subsets.        *)
LEMMA SubsetCount ==
  ASSUME NEW Y \in SUBSET Digit, NEW X \in SUBSET Y
  PROVE  /\ IsFiniteSet(X) /\ Cardinality(X) \in Nat /\ Cardinality(Y) \in Nat
         /\ Cardinality(X) <= Cardinality(Y)
<1>1. IsFiniteSet(Y)
  BY FiniteAssumption, FS_Subset
<1>2. IsFiniteSet(X) /\ Cardinality(X) <= Cardinality(Y)
  BY <1>1, FS_Subset
<1> QED
  BY <1>1, <1>2, FS_CardinalityType

(* The addresses Observe goes by are the assignment's own, and a status    *)
(* that lists its own makes it exist.                                      *)
LEMMA ObserveOwn ==
  ASSUME TypeOK, OwnedIn(ledger), NEW a \in Assignment
  PROVE  /\ heldBy(a) = Held(ledger, a)
         /\ ResourceExists(a) => /\ Observed(a) \subseteq Held(ledger, a)
                                 /\ atProvider[a] \subseteq Observed(a)
         /\ atProvider[a] # {} => Observed(a) = atProvider[a]
         /\ atProvider[a] # {} /\ atProvider[a] \subseteq Held(ledger, a) => ResourceExists(a)
         /\ atProvider[a] = {} /\ ~ResourceExists(a) =>
              Held(ledger, a) = {} \/ Cardinality(Held(ledger, a)) < ForProvider[a].countIPs
<1>1. ledger \in Ledgers(Nat) /\ atProvider[a] \in SUBSET Digit
  BY DEF TypeOK, AssignmentTypeOK
<1>2. heldBy(a) = Held(ledger, a)
  BY <1>1, HeldNow
<1>3. Held(ledger, a) \in SUBSET Digit /\ Cardinality(Held(ledger, a)) \in Nat
  BY HeldFinite
<1>4. ForProvider[a].countIPs \in Nat
  BY AssignmentFacts
<1>5. \A d \in Digit : InPool(ledger, Key(a), d) /\ ledger[Key(a)][d].cluster = Owner(a)
                         <=> d \in Held(ledger, a)
  <2> SUFFICES ASSUME NEW d \in Digit
               PROVE  InPool(ledger, Key(a), d) /\ ledger[Key(a)][d].cluster = Owner(a)
                         <=> d \in Held(ledger, a)
    OBVIOUS
  <2>1. CASE InPool(ledger, Key(a), d)
    <3>1. Entry(ledger, Key(a), d) = ledger[Key(a)][d]
      BY <2>1 DEF Entry
    <3> QED
      BY <2>1, <3>1 DEF Held, OwnedIn
  <2>2. CASE ~InPool(ledger, Key(a), d)
    <3>1. isFree(Entry(ledger, Key(a), d))
      BY <2>2 DEF Entry, Blank, isFree
    <3> QED
      BY <2>2, <3>1 DEF Held
  <2> QED
    BY <2>1, <2>2
<1>6. atProvider[a] # {} => (ResourceExists(a) <=> atProvider[a] \subseteq Held(ledger, a))
                            /\ Observed(a) = atProvider[a]
  BY <1>1, <1>5 DEF ResourceExists, Observed
<1>7. atProvider[a] = {} => Observed(a) \subseteq Held(ledger, a)
  <2>1. FirstOf(Held(ledger, a), ForProvider[a].countIPs) \in SUBSET Held(ledger, a)
    BY <1>3, <1>4, FirstOfBound
  <2> QED
    BY <1>2, <2>1 DEF Observed
<1>8. atProvider[a] = {} /\ ~ResourceExists(a) =>
              Held(ledger, a) = {} \/ Cardinality(Held(ledger, a)) < ForProvider[a].countIPs
  BY <1>2, <1>3, <1>4 DEF ResourceExists
<1> QED
  BY <1>2, <1>6, <1>7, <1>8

(* With no more than it asks for, Observe adopts and Create keeps all.     *)
LEMMA AdoptsAll ==
  ASSUME TypeOK, NEW a \in Assignment,
         Cardinality(Held(ledger, a)) <= ForProvider[a].countIPs
  PROVE  /\ atProvider[a] = {} => Observed(a) = Held(ledger, a)
         /\ StartFrom(a) = Held(ledger, a)
         /\ Missing(a) = ForProvider[a].countIPs - Cardinality(Held(ledger, a))
<1>1. heldBy(a) = Held(ledger, a)
  BY HeldNow DEF TypeOK
<1>2. FirstOf(Held(ledger, a), ForProvider[a].countIPs) = Held(ledger, a)
  BY HeldFinite, AssignmentFacts, FirstOfAll
<1> QED
  BY <1>1, <1>2 DEF Observed, StartFrom, Missing

(* The claims of every assignment stay within its count when none of them  *)
(* grows.                                                                  *)
LEMMA ClaimsShrink ==
  ASSUME InductiveInv, WithinCount,
         \A b \in Assignment :
           /\ Held(ledger', b) \subseteq Held(ledger, b)
           /\ step' = "send" /\ cr' = b => ips' \subseteq Claims(b)
           /\ step' = "reserve" /\ cr' = b => step = "reserve" /\ cr = b /\ need' = need
  PROVE  WithinCount'
<1> SUFFICES ASSUME NEW b \in Assignment
             PROVE  Cardinality(Claims(b)') + Due(b)' <= ForProvider[b].countIPs
  BY DEF WithinCount
<1>1. ips \in SUBSET Digit /\ need \in Nat
  BY DEF InductiveInv, TypeOK, AssignmentTypeOK
<1>2. Held(ledger, b) \in SUBSET Digit /\ Held(ledger', b) \in SUBSET Digit
  BY HeldFinite
<1>3. PICK C \in SUBSET Digit : C = Claims(b)
  BY <1>1, <1>2 DEF Claims
<1>4. PICK D : D = Claims(b)' /\ D \in SUBSET C
  BY <1>2, <1>3 DEF Claims
<1>5. Cardinality(C) \in Nat /\ Cardinality(D) \in Nat /\ Cardinality(D) <= Cardinality(C)
  BY <1>3, <1>4, SubsetCount
<1>6. Due(b)' \in Nat /\ Due(b) \in Nat /\ Due(b)' <= Due(b)
  BY <1>1 DEF Due
<1>7. Cardinality(C) + Due(b) <= ForProvider[b].countIPs /\ ForProvider[b].countIPs \in Nat
  BY <1>3, AssignmentFacts DEF WithinCount
<1> QED
  BY <1>4, <1>5, <1>6, <1>7

(* No assignment holds more than it asks for ...                           *)
LEMMA HeldFacts ==
  ASSUME InductiveInv, WithinCount, NEW a \in Assignment
  PROVE  /\ Held(ledger, a) \in SUBSET Digit /\ Cardinality(Held(ledger, a)) \in Nat
         /\ Cardinality(Held(ledger, a)) <= ForProvider[a].countIPs
         /\ Cardinality(Held(ledger, a)) = 0 <=> Held(ledger, a) = {}
<1>1. ips \in SUBSET Digit /\ need \in Nat
  BY DEF InductiveInv, TypeOK, AssignmentTypeOK
<1>2. Held(ledger, a) \in SUBSET Digit /\ IsFiniteSet(Held(ledger, a)) /\ Cardinality(Held(ledger, a)) \in Nat
  BY HeldFinite
<1>3. PICK C \in SUBSET Digit : C = Claims(a) /\ Held(ledger, a) \in SUBSET C
  BY <1>1, <1>2 DEF Claims
<1>4. Cardinality(Held(ledger, a)) <= Cardinality(C) /\ Cardinality(C) \in Nat
  BY <1>3, SubsetCount
<1>5. Due(a) \in Nat
  BY <1>1 DEF Due
<1>6. Cardinality(C) + Due(a) <= ForProvider[a].countIPs /\ ForProvider[a].countIPs \in Nat
  BY <1>3, AssignmentFacts DEF WithinCount
<1>7. Cardinality(Held(ledger, a)) = 0 <=> Held(ledger, a) = {}
  BY <1>2, FS_EmptySet
<1> QED
  BY <1>2, <1>4, <1>5, <1>6, <1>7

(* ... or an address of another.                                           *)
LEMMA HeldApart ==
  ASSUME OnlyProviderClaims, NEW l, NEW a \in Assignment, NEW b \in Assignment, a # b, Key(a) = Key(b)
  PROVE  Held(l, a) \cap Held(l, b) = {}
  BY DistinctOwners DEF Held

(* An assignment that nobody works on and whose addresses stay is at rest  *)
(* as before; its deletion changes nothing about that.                     *)
LEMMA RestKept ==
  ASSUME NEW b, AtRest(b), Held(ledger', b) = Held(ledger, b), atProvider'[b] = atProvider[b],
         b \in deleting => b \in deleting', b \in gone' => b \in gone
  PROVE  AtRest(b)'
  BY DEF AtRest, AllOrNothing

-----------------------------------------------------------------------------
(* The steps of the IPAssignment controller keep the invariant.            *)

(* Observe takes an undisturbed assignment for absent only when it holds   *)
(* nothing, ...                                                            *)
LEMMA AbsentHoldsNothing ==
  ASSUME InductiveInv, ClaimsInv, NEW a \in Assignment, AtRest(a), ~ResourceExists(a)
  PROVE  Held(ledger, a) = {} /\ (a \notin deleting => atProvider[a] = {})
<1>1. TypeOK /\ OwnedIn(ledger) /\ WithinCount
  BY DEF InductiveInv, ClaimsInv
<1>2. ForProvider[a].countIPs \in Nat \ {0}
  BY AssignmentFacts
<1>3. Cardinality(Held(ledger, a)) \in Nat
  BY HeldFinite
<1>4. CASE atProvider[a] = {}
  <2>1. Held(ledger, a) = {} \/ Cardinality(Held(ledger, a)) < ForProvider[a].countIPs
    BY <1>1, <1>4, ObserveOwn
  <2> QED
    BY <1>2, <1>3, <1>4, <2>1 DEF AtRest, AllOrNothing
<1>5. CASE atProvider[a] # {}
  <2>1. ~(atProvider[a] \subseteq Held(ledger, a))
    BY <1>1, <1>5, ObserveOwn
  <2> QED
    BY <1>5, <2>1 DEF AtRest
<1> QED
  BY <1>4, <1>5

(* ... and otherwise goes by all of it.                                    *)
LEMMA ObservesAll ==
  ASSUME InductiveInv, ClaimsInv, NEW a \in Assignment, AtRest(a)
  PROVE  /\ Held(ledger, a) = {} \/ Observed(a) = Held(ledger, a)
         /\ a \notin deleting => {Observed(a), atProvider[a]} \subseteq {{}, Held(ledger, a)}
<1>1. TypeOK /\ OwnedIn(ledger) /\ WithinCount
  BY DEF InductiveInv, ClaimsInv
<1>2. Cardinality(Held(ledger, a)) <= ForProvider[a].countIPs
  BY <1>1, HeldFacts
<1>3. atProvider[a] = {} => Observed(a) = Held(ledger, a)
  BY <1>1, <1>2, AdoptsAll
<1>4. atProvider[a] # {} => Observed(a) = atProvider[a]
  BY <1>1, ObserveOwn
<1> QED
  BY <1>3, <1>4 DEF AtRest

(* A reconcile that observes.                                              *)
LEMMA ReconcileClaims ==
  ASSUME OnlyProviderClaims, InductiveInv, ClaimsInv, NEW a \in Assignment, Reconcile(a)
  PROVE  ClaimsInv'
<1>0. TypeOK /\ OwnedIn(ledger) /\ WithinCount /\ GoesByWhatItSaw /\ Undisturbed
  BY DEF InductiveInv, ClaimsInv
<1>1. step = "idle" /\ cr = NoCR /\ a \notin gone /\ a # NoCR
  BY <1>0, AssignmentAssumption
     DEF TypeOK, Reconcile, Reads, ObserveAbsent, ObserveUpToDate, ObserveOutdated,
         ObserveForDeletion, ObserveGone, ObserveFails, AssignmentTypeOK
<1>2. ledger' = ledger /\ atProvider' = atProvider /\ deleting' = deleting
  BY DEF Reconcile, ObserveAbsent, ObserveUpToDate, ObserveOutdated, ObserveForDeletion,
         ObserveGone, ObserveFails, apiVars, crVars
<1>3. OwnedIn(ledger)'
  BY <1>0, <1>2
<1>4. \A b \in Assignment \ disturbed : AtRest(b)
  BY <1>1, AssignmentAssumption, <1>0 DEF Undisturbed
<1>5. \A b \in Assignment : Claims(b) = Held(ledger, b)
  BY <1>1 DEF Claims
<1>6. ASSUME gone' = gone, step' # "reserve", cr' = a, disturbed' = disturbed,
             step' = "send" => ips' \subseteq Observed(a) /\ ResourceExists(a) /\ seen' = Observed(a) \cap heldBy(a),
             a \notin disturbed => AtWork(a)'
      PROVE  ClaimsInv'
  <2>1. step' = "send" => ips' \subseteq Held(ledger, a) /\ ips' \subseteq seen'
    BY <1>0, <1>6, ObserveOwn
  <2>2. WithinCount'
    BY <1>0, <1>2, <1>5, <1>6, <2>1, ClaimsShrink
  <2>3. GoesByWhatItSaw'
    <3>1. \A b \in Assignment \ {a} : Key(b) = Key(a) => Held(ledger, a) \cap Held(ledger, b) = {}
      BY HeldApart
    <3> QED
      BY <1>2, <1>6, <2>1, <3>1 DEF GoesByWhatItSaw
  <2>4. Undisturbed'
    <3> SUFFICES ASSUME NEW b \in Assignment, b \notin disturbed', b # a PROVE AtRest(b)'
      BY <1>6 DEF Undisturbed
    <3> QED
      BY <1>2, <1>4, <1>6, RestKept
  <2> QED
    BY <1>3, <2>2, <2>3, <2>4 DEF ClaimsInv
<1>7. CASE ObserveAbsent(a)
  <2>1. cr' = a /\ doomed' = FALSE
    BY <1>7, SawDeletion DEF ObserveAbsent
  <2>2. a \notin deleting /\ ~ResourceExists(a) /\ ips' = atProvider[a] /\ step' = "create"
        /\ gone' = gone /\ disturbed' = disturbed
    BY <1>7 DEF ObserveAbsent, AddFinalizer
  <2>3. a \notin disturbed => Held(ledger, a) = {} /\ atProvider[a] = {}
    BY <1>4, <2>2, AbsentHoldsNothing
  <2>4. a \notin disturbed => AtWork(a)'
    BY <1>2, <2>1, <2>2, <2>3 DEF AtWork, AtCreate
  <2> QED
    BY <1>6, <2>1, <2>2, <2>4
<1>8. ASSUME a \notin disturbed, a \notin deleting, ips' \in {Observed(a), atProvider[a]},
             doomed' = FALSE, step' \in {"send", "store"}
      PROVE  AtWork(a)'
  <2>1. AtRest(a) /\ {Observed(a), atProvider[a]} \subseteq {{}, Held(ledger, a)}
    BY <1>4, <1>8, ObservesAll
  <2>2. AllOrNothing(a)' /\ {ips, atProvider[a]}' \subseteq {{}, Held(ledger', a)}
    BY <1>2, <1>8, <2>1 DEF AtRest, AllOrNothing
  <2> QED
    BY <1>8, <2>2 DEF AtWork, AtUpdate
<1>9. CASE ObserveUpToDate(a)
  <2>1. cr' = a /\ doomed' = FALSE
    BY <1>9, SawDeletion DEF ObserveUpToDate
  <2>2. a \notin deleting /\ ips' \in {Observed(a), atProvider[a]} /\ step' = "store"
        /\ gone' = gone /\ disturbed' = disturbed
    BY <1>9 DEF ObserveUpToDate, AddFinalizer, ToStore
  <2> QED
    BY <1>6, <1>8, <2>1, <2>2
<1>10. CASE ObserveOutdated(a)
  <2>1. cr' = a /\ doomed' = FALSE /\ seen' = Observed(a) \cap heldBy(a)
    BY <1>10, SawDeletion DEF ObserveOutdated
  <2>2. a \notin deleting /\ ips' \in {Observed(a), atProvider[a]} /\ step' = "send" /\ ResourceExists(a)
        /\ gone' = gone /\ disturbed' = disturbed
    BY <1>10 DEF ObserveOutdated, AddFinalizer
  <2>3. ips' \subseteq Observed(a)
    BY <1>0, <2>2, ObserveOwn
  <2> QED
    BY <1>6, <1>8, <2>1, <2>2, <2>3
<1>11. CASE ObserveForDeletion(a)
  <2>1. cr' = a /\ doomed' = TRUE /\ seen' = Observed(a) \cap heldBy(a)
    BY <1>11, SawDeletion DEF ObserveForDeletion
  <2>2. ips' = Observed(a) /\ step' = "send" /\ ResourceExists(a)
        /\ gone' = gone /\ disturbed' = disturbed
    BY <1>11 DEF ObserveForDeletion, crVars
  <2>3. Observed(a) \in SUBSET Digit
    BY <1>0, ObservedType
  <2>4. PICK S \in SUBSET Digit : S = Observed(a) /\ \E order \in Orders(S) : todo' = DeleteCalls(a, order)
    BY <1>11, <2>2, <2>3 DEF ObserveForDeletion
  <2>5. S \subseteq {todo'[i].ip.host : i \in DOMAIN todo'}
    BY <2>4, DeleteCallsType
  <2>6. a \notin disturbed => Held(ledger, a) \subseteq S
    BY <1>4, <2>4, ObservesAll
  <2>7. a \notin disturbed => AtWork(a)'
    BY <1>2, <2>1, <2>2, <2>5, <2>6 DEF AtWork, AtRelease
  <2> QED
    BY <1>6, <2>1, <2>2, <2>7
<1>12. ASSUME step' = step, cr' = cr, ips' = ips, need' = need, disturbed \subseteq disturbed',
              gone' = gone \/ (gone' = gone \cup {a} /\ (a \notin disturbed => Held(ledger, a) = {}))
       PROVE  ClaimsInv'
  <2>1. WithinCount'
    BY <1>0, <1>1, <1>2, <1>12, ClaimsShrink
  <2>2. GoesByWhatItSaw'
    BY <1>1, <1>12 DEF GoesByWhatItSaw
  <2>3. Undisturbed'
    <3> SUFFICES ASSUME NEW b \in Assignment, b \notin disturbed' PROVE cr' # b /\ AtRest(b)'
      BY DEF Undisturbed
    <3> QED
      BY <1>1, <1>2, <1>4, <1>12, AssignmentAssumption DEF AtRest, AllOrNothing
  <2> QED
    BY <1>3, <2>1, <2>2, <2>3 DEF ClaimsInv
<1>13. CASE ObserveGone(a)
  <2>1. a \notin disturbed => Held(ledger, a) = {}
    BY <1>4, <1>13, AbsentHoldsNothing DEF ObserveGone
  <2> QED
    BY <1>12, <1>13, <2>1 DEF ObserveGone, workerVars, history
<1>14. CASE ObserveFails(a)
  BY <1>12, <1>14 DEF ObserveFails, crVars, workerVars
<1> QED
  BY <1>7, <1>9, <1>10, <1>11, <1>13, <1>14 DEF Reconcile

(* While the worker goes on with an assignment, the others are at rest.    *)
LEMMA OthersAtRest ==
  ASSUME Undisturbed, \A b \in Assignment \ {cr} : Held(ledger', b) = Held(ledger, b),
         UNCHANGED crVars, disturbed \subseteq disturbed', cr' = cr,
         cr \in Assignment /\ cr \notin disturbed' => AtWork(cr)'
  PROVE  Undisturbed'
<1> SUFFICES ASSUME NEW b \in Assignment, b \notin disturbed', b # cr PROVE AtRest(b)'
  BY DEF Undisturbed
<1>1. AtRest(b)
  BY DEF Undisturbed
<1> QED
  BY <1>1, RestKept DEF crVars

(* Create without a call that writes.                                      *)
LEMMA CreateClaims ==
  ASSUME InductiveInv, ClaimsInv,
         CreateLists \/ CreateRefused \/ CreateListFails \/ CreateDone
  PROVE  ClaimsInv'
<1>0. TypeOK /\ OwnedIn(ledger) /\ WithinCount /\ GoesByWhatItSaw /\ Undisturbed
  BY DEF InductiveInv, ClaimsInv
<1>1. step \in {"create", "reserve"} /\ cr \in Assignment
  BY <1>0 DEF TypeOK, CreateLists, CreateRefused, CreateListFails, CreateDone, AssignmentTypeOK
<1>2. /\ ledger' = ledger /\ UNCHANGED crVars /\ cr' = cr /\ doomed' = doomed
      /\ disturbed \subseteq disturbed' /\ step' # "send"
  BY DEF CreateLists, CreateRefused, CreateListFails, CreateDone, ToAnnotate, apiVars, history
<1>3. OwnedIn(ledger)' /\ GoesByWhatItSaw'
  BY <1>0, <1>2 DEF GoesByWhatItSaw
<1>4. cr \notin disturbed => AtWork(cr)
  BY <1>0, <1>1 DEF Undisturbed
<1>5. PICK a \in Assignment : a = cr
  BY <1>1
<1>6. /\ Held(ledger, a) \in SUBSET Digit /\ Cardinality(Held(ledger, a)) \in Nat
      /\ Cardinality(Held(ledger, a)) <= ForProvider[a].countIPs
      /\ ForProvider[a].countIPs \in Nat
  BY <1>0, HeldFacts, AssignmentFacts
<1>7. WithinCount'
  <2>1. CASE CreateLists
    <3>1. step' = "reserve" /\ need' = ForProvider[a].countIPs - Cardinality(Held(ledger, a))
      BY <1>0, <1>5, <1>6, <2>1, AdoptsAll DEF CreateLists
    <3>2. ASSUME NEW b \in Assignment PROVE Cardinality(Claims(b)') + Due(b)' <= ForProvider[b].countIPs
      <4>1. Claims(b)' = Held(ledger, b)
        BY <1>2, <3>1 DEF Claims
      <4>2. Cardinality(Held(ledger, b)) \in Nat /\ Cardinality(Held(ledger, b)) <= ForProvider[b].countIPs
        BY <1>0, HeldFacts
      <4>3. CASE b = a
        <5>1. Due(b)' = ForProvider[a].countIPs - Cardinality(Held(ledger, a))
          BY <1>2, <1>5, <3>1, <4>3 DEF Due
        <5> QED
          BY <1>6, <4>1, <4>3, <5>1
      <4>4. CASE b # a
        <5>1. Due(b)' = 0
          BY <1>2, <1>5, <4>4 DEF Due
        <5> QED
          BY <4>1, <4>2, <5>1
      <4> QED
        BY <4>3, <4>4
    <3> QED
      BY <3>2 DEF WithinCount
  <2>2. CASE step' = "annotate"
    BY <1>0, <1>2, <2>2, ClaimsShrink
  <2> QED
    BY <2>1, <2>2 DEF CreateRefused, CreateListFails, CreateDone, ToAnnotate
<1>8. cr \notin disturbed' => AtWork(cr)'
  <2>1. CASE CreateLists
    <3>1. StartFrom(a) = Held(ledger, a)
          /\ Missing(a) = ForProvider[a].countIPs - Cardinality(Held(ledger, a))
      BY <1>0, <1>6, AdoptsAll
    <3>2. /\ taken' = Held(ledger, a) /\ step' = "reserve" /\ ips' = ips
          /\ need' = ForProvider[a].countIPs - Cardinality(Held(ledger, a))
      BY <1>5, <2>1, <3>1 DEF CreateLists
    <3>3. cr \notin disturbed => AtCreate(cr)
      BY <1>4, <2>1 DEF CreateLists, AtWork
    <3>4. Cardinality(taken') + need' = ForProvider[a].countIPs
      BY <1>6, <3>2
    <3> QED
      BY <1>2, <1>5, <3>2, <3>3, <3>4 DEF AtWork, AtCreate, AtReserve, crVars
  <2>2. CASE CreateRefused
    <3>1. step' = "annotate" /\ ips' = ips
      BY <2>2 DEF CreateRefused, ToAnnotate
    <3>2. cr \notin disturbed => AtCreate(cr)
      BY <1>4, <2>2 DEF CreateRefused, AtWork
    <3> QED
      BY <1>2, <3>1, <3>2 DEF AtWork, AtCreate, AtUpdate, AllOrNothing, crVars
  <2>3. CASE CreateListFails
    BY <2>3 DEF CreateListFails
  <2>4. CASE CreateDone
    <3>1. step' = "annotate" /\ ips' = taken /\ need = 0
      BY <2>4 DEF CreateDone, ToAnnotate
    <3>2. cr \notin disturbed => AtReserve(cr)
      BY <1>4, <2>4 DEF CreateDone, AtWork
    <3>3. cr \notin disturbed => Held(ledger, a) = taken /\ Cardinality(taken) = ForProvider[a].countIPs
      BY <1>5, <1>6, <3>1, <3>2 DEF AtReserve
    <3> QED
      BY <1>2, <1>5, <3>1, <3>2, <3>3 DEF AtWork, AtReserve, AtUpdate, AllOrNothing, crVars
  <2> QED
    BY <2>1, <2>2, <2>3, <2>4
<1>9. Undisturbed'
  BY <1>0, <1>2, <1>8, OthersAtRest
<1> QED
  BY <1>3, <1>7, <1>9 DEF ClaimsInv

(* A reservation of Create, whether its answer arrives or not.             *)
LEMMA ReserveClaims ==
  ASSUME OnlyProviderClaims, InductiveInv, ClaimsInv, NEW answer \in Answers, Reserve(answer)
  PROVE  /\ ClaimsInv'
         /\ \A n \in Network, d \in Digit :
              Entry(ledger', n, d) # Entry(ledger, n, d) => isFree(Entry(ledger, n, d))
<1>0. TypeOK /\ OwnedIn(ledger) /\ WithinCount /\ GoesByWhatItSaw /\ Undisturbed
  BY DEF InductiveInv, ClaimsInv
<1>1. step = "reserve" /\ need > 0 /\ need \in Nat /\ cr \in Assignment
      /\ ledger \in Ledgers(Nat) /\ now \in Nat
  BY <1>0, BoundsAssumption DEF TypeOK, Reserve, AssignmentTypeOK
<1>2. PICK a \in Assignment : a = cr
  BY <1>1
<1>3. PICK r : r = ReserveRequest(a)
  OBVIOUS
<1>4. Call(r, answer) /\ r.kind = "reserve" /\ ValidRequest(r, Nat)
  BY <1>2, <1>3, AssignmentRequests DEF Reserve, ReserveRequest, ReserveIP, Key, Owner
<1>5. /\ ledger' \in Ledgers(Nat)
      /\ ledger' = ledger \/ ledger' \in Handle(r, now, ledger)
      /\ answer = "ok" => ledger' \in Handle(r, now, ledger)
  BY <1>0, <1>4, CallEffect
<1>6. \/ /\ answer = "ok" /\ need' = need - 1 /\ step' = step /\ disturbed' = disturbed
         /\ taken' = taken \cup {d \in Digit : ledger'[Key(a)][d] # ledger[Key(a)][d]}
      \/ step' = "annotate" /\ disturbed' = disturbed \cup {cr}
  BY <1>2, <1>3, <1>4 DEF Reserve, Succeeded, ToAnnotate, Key, ReserveRequest, ReserveIP, Owner
<1>7. UNCHANGED crVars /\ cr' = cr /\ ips' = ips /\ doomed' = doomed
  BY DEF Reserve
<1>8. Held(ledger, a) \in SUBSET Digit /\ IsFiniteSet(Held(ledger, a)) /\ Cardinality(Held(ledger, a)) \in Nat
  BY HeldFinite
<1>9. Cardinality(Held(ledger, a)) + need <= ForProvider[a].countIPs /\ ForProvider[a].countIPs \in Nat
  BY <1>0, <1>1, <1>2, AssignmentFacts DEF WithinCount, Claims, Due
<1>10. CASE ledger' = ledger
  <2>1. step' = "annotate" /\ disturbed' = disturbed \cup {cr} 
    <3>1. CASE answer = "ok"
      <4>1. \E d \in Digit : {x \in Digit : ledger'[Key(a)][x] # ledger[Key(a)][x]} = {d}
        BY <1>0, <1>1, <1>3, <1>4, <1>5, <3>1, OwnEffect
      <4> QED
        BY <1>10, <4>1
    <3> QED
      BY <1>6, <3>1
  <2>2. OwnedIn(ledger)' /\ GoesByWhatItSaw'
    BY <1>0, <1>10, <2>1 DEF GoesByWhatItSaw
  <2>3. WithinCount'
    BY <1>0, <1>10, <2>1, ClaimsShrink
  <2>4. Undisturbed'
    BY <1>0, <1>7, <1>10, <2>1, OthersAtRest
  <2> QED
    BY <1>10, <2>2, <2>3, <2>4 DEF ClaimsInv
<1>11. CASE ledger' \in Handle(r, now, ledger)
  <2>1. OwnedIn(ledger') /\
        \E d \in Digit :
          /\ isFree(Entry(ledger, Key(a), d))
          /\ Gives(a, ledger, ledger', d) /\ Writes(a, ledger, ledger', d)
          /\ {x \in Digit : ledger'[Key(a)][x] # ledger[Key(a)][x]} = {d}
    BY <1>0, <1>1, <1>3, <1>4, <1>11, OwnEffect
  <2>2. PICK d \in Digit :
          /\ isFree(Entry(ledger, Key(a), d))
          /\ Gives(a, ledger, ledger', d) /\ Writes(a, ledger, ledger', d)
          /\ {x \in Digit : ledger'[Key(a)][x] # ledger[Key(a)][x]} = {d}
    BY <2>1
  <2>3. \A b \in Assignment : Key(b) = Key(a) => d \notin Held(ledger, b)
    BY <2>2 DEF Held
  <2>4. /\ Held(ledger', a) = Held(ledger, a) \cup {d} /\ d \notin Held(ledger, a)
        /\ \A b \in Assignment \ {a} : Held(ledger', b) = Held(ledger, b)
    BY <2>2, <2>3 DEF Gives
  <2>5. Cardinality(Held(ledger', a)) = Cardinality(Held(ledger, a)) + 1
    BY <1>8, <2>4, FS_AddElement
  <2>6. GoesByWhatItSaw'
    BY <1>1, <1>6 DEF GoesByWhatItSaw
  <2>7. WithinCount'
    <3> SUFFICES ASSUME NEW b \in Assignment
                 PROVE  Cardinality(Claims(b)') + Due(b)' <= ForProvider[b].countIPs
      BY DEF WithinCount
    <3>1. Claims(b)' = Held(ledger', b)
      BY <1>1, <1>6 DEF Claims
    <3>2. CASE b = a
      <4>1. Due(b)' = 0 \/ Due(b)' = need - 1
        BY <1>6 DEF Due
      <4> QED
        BY <1>1, <1>8, <1>9, <2>5, <3>1, <3>2, <4>1
    <3>3. CASE b # a
      <4>1. Due(b)' = 0 /\ Held(ledger', b) = Held(ledger, b)
        BY <1>2, <1>7, <2>4, <3>3 DEF Due
      <4>2. Cardinality(Held(ledger, b)) \in Nat /\ Cardinality(Held(ledger, b)) <= ForProvider[b].countIPs
        BY <1>0, HeldFacts
      <4> QED
        BY <3>1, <4>1, <4>2
    <3> QED
      BY <3>2, <3>3
  <2>8. cr \notin disturbed' => AtWork(cr)'
    <3> SUFFICES ASSUME cr \notin disturbed' PROVE AtWork(cr)'
      OBVIOUS
    <3>1. step' = "reserve" /\ need' = need - 1 /\ disturbed' = disturbed /\ taken' = taken \cup {d}
      BY <1>1, <1>6, <2>2
    <3>2. AtReserve(a)
      BY <1>0, <1>1, <1>2, <3>1 DEF Undisturbed, AtWork
    <3>3. Held(ledger', a) = taken'
      BY <2>4, <3>1, <3>2 DEF AtReserve
    <3>4. Cardinality(Held(ledger', a)) + need' = ForProvider[a].countIPs
      BY <1>1, <1>8, <1>9, <2>5, <3>1, <3>2 DEF AtReserve
    <3> QED
      BY <1>2, <1>7, <3>1, <3>2, <3>3, <3>4 DEF AtWork, AtReserve, crVars
  <2>9. Undisturbed'
    BY <1>0, <1>2, <1>6, <1>7, <2>4, <2>8, OthersAtRest
  <2>10. \A n \in Network, x \in Digit :
           Entry(ledger', n, x) # Entry(ledger, n, x) => isFree(Entry(ledger, n, x))
    BY <2>2 DEF Writes
  <2> QED
    BY <2>1, <2>6, <2>7, <2>9, <2>10 DEF ClaimsInv
<1> QED
  BY <1>5, <1>10, <1>11

(* A call of Update or Delete, whether its answer arrives or not.          *)
LEMMA SendClaims ==
  ASSUME OnlyProviderClaims, InductiveInv, ClaimsInv, NEW answer \in Answers, Send(answer)
  PROVE  /\ ClaimsInv'
         /\ \A n \in Network, d \in Digit :
              Entry(ledger', n, d) # Entry(ledger, n, d) => n = Key(cr) /\ d \in seen
<1>0. /\ TypeOK /\ OwnedIn(ledger) /\ WithinCount /\ GoesByWhatItSaw /\ Undisturbed
      /\ AssignmentTypeOK /\ CallsOfCR
  BY DEF InductiveInv, ClaimsInv, TypeOK
<1>1. step = "send" /\ todo # <<>> /\ cr \in Assignment /\ ledger \in Ledgers(Nat) /\ now \in Nat
      /\ ips \in SUBSET Digit
  BY <1>0, BoundsAssumption DEF TypeOK, Send, AssignmentTypeOK
<1>2. PICK a \in Assignment : a = cr
  BY <1>1
<1>3. /\ doomed \in BOOLEAN
      /\ todo \in Seq(IF doomed THEN Releases(a) ELSE Edits(a))
      /\ \A i \in DOMAIN todo : todo[i].ip.host \in ips
  BY <1>0, <1>1, <1>2 DEF CallsOfCR, AssignmentTypeOK
<1>4. PICK r : r = Head(todo)
  OBVIOUS
<1>5. /\ r \in IF doomed THEN Releases(a) ELSE Edits(a)
      /\ r.ip.host \in ips
  <2>1. 1 \in DOMAIN todo /\ Head(todo) = todo[1]
    BY <1>1, <1>3
  <2> QED
    BY <1>1, <1>3, <1>4, <2>1
<1>6. PICK h \in Digit : h = r.ip.host /\ h \in ips
  BY <1>1, <1>5
<1>7. r \in {ReserveRequest(a)} \cup Edits(a) \cup Releases(a) /\ ValidRequest(r, Nat)
  BY <1>3, <1>5, AssignmentRequests
<1>8. /\ doomed => r.kind = "release"
      /\ ~doomed => r.kind \in {"edit", "renew"}
  BY <1>5 DEF Releases, Edits, ReleaseIP, EditIP, RenewLease
<1>9. Call(r, answer)
  BY <1>4 DEF Send
<1>10. /\ ledger' = ledger \/ ledger' \in Handle(r, now, ledger)
       /\ answer = "ok" => ledger' \in Handle(r, now, ledger)
  BY <1>0, <1>7, <1>9, CallEffect
<1>11. /\ \/ todo' = Tail(todo) /\ step' = step
          \/ step' = "store"
       /\ answer = "ok" => todo' = Tail(todo) /\ step' = step
       /\ answer # "ok" => disturbed' = disturbed \cup {cr}
       /\ answer = "ok" => disturbed' = disturbed
  BY DEF Send, Succeeded, ToStore
<1>12. UNCHANGED crVars /\ cr' = cr /\ ips' = ips /\ doomed' = doomed /\ seen' = seen
  BY DEF Send
<1>13. \A b \in Assignment \ {a} : Key(b) = Key(a) => ips \cap Held(ledger, b) = {}
  BY <1>0, <1>1, <1>2 DEF GoesByWhatItSaw
<1>14. ips \subseteq seen
  BY <1>0, <1>1 DEF GoesByWhatItSaw
<1>15. /\ OwnedIn(ledger') /\ Writes(a, ledger, ledger', h)
       /\ \A b \in Assignment \ {a} : Held(ledger', b) = Held(ledger, b)
       /\ Held(ledger', a) \subseteq Held(ledger, a) \cup {h}
       /\ answer = "ok" /\ doomed => Held(ledger', a) = Held(ledger, a) \ {h}
       /\ answer = "ok" /\ ~doomed => Held(ledger', a) \in {Held(ledger, a), Held(ledger, a) \cup {h}}
  <2>1. CASE ledger' \in Handle(r, now, ledger)
    <3>1. /\ OwnedIn(ledger') /\ Writes(a, ledger, ledger', h)
          /\ r.kind = "edit" => Gives(a, ledger, ledger', h)
          /\ r.kind = "renew" => \A b \in Assignment : Held(ledger', b) = Held(ledger, b)
          /\ r.kind = "release" =>
              \A b \in Assignment :
                Held(ledger', b) = IF Key(b) = Key(a) THEN Held(ledger, b) \ {h} ELSE Held(ledger, b)
      BY <1>0, <1>1, <1>6, <1>7, <1>8, <2>1, OwnEffect
    <3>2. \A b \in Assignment \ {a} : Key(b) = Key(a) => Held(ledger, b) \ {h} = Held(ledger, b)
      BY <1>6, <1>13
    <3>3. CASE r.kind = "edit"
      BY <1>8, <3>1, <3>2, <3>3 DEF Gives
    <3>4. CASE r.kind = "renew"
      BY <1>8, <3>1, <3>4
    <3>5. CASE r.kind = "release"
      BY <1>8, <3>1, <3>2, <3>5
    <3> QED
      BY <1>3, <1>8, <3>3, <3>4, <3>5
  <2>2. CASE ledger' = ledger /\ answer # "ok"
    BY <1>0, <2>2 DEF Writes
  <2> QED
    BY <1>10, <2>1, <2>2
<1>16. WithinCount'
  <2> SUFFICES ASSUME NEW b \in Assignment
               PROVE  Cardinality(Claims(b)') + Due(b)' <= ForProvider[b].countIPs
    BY DEF WithinCount
  <2>1. Due(b)' = 0 /\ Due(b) = 0
    BY <1>1, <1>11 DEF Due
  <2>2. Held(ledger, b) \in SUBSET Digit
    BY HeldFinite
  <2>3. PICK C \in SUBSET Digit : C = Claims(b)
    BY <1>1, <2>2 DEF Claims
  <2>4. Claims(b)' \in SUBSET C
    <3>1. CASE b = a
      BY <1>1, <1>2, <1>6, <1>12, <1>15, <2>3, <3>1 DEF Claims
    <3>2. CASE b # a
      BY <1>1, <1>2, <1>12, <1>15, <2>3, <3>2 DEF Claims
    <3> QED
      BY <3>1, <3>2
  <2>5. PICK D : D = Claims(b)' /\ D \in SUBSET C
    BY <2>4
  <2>6. Cardinality(D) \in Nat /\ Cardinality(C) \in Nat /\ Cardinality(D) <= Cardinality(C)
    BY <2>5, SubsetCount
  <2>7. Cardinality(C) + Due(b) <= ForProvider[b].countIPs /\ ForProvider[b].countIPs \in Nat
    BY <1>0, <2>3, AssignmentFacts DEF WithinCount
  <2> QED
    BY <2>1, <2>5, <2>6, <2>7
<1>17. GoesByWhatItSaw'
  BY <1>2, <1>12, <1>13, <1>14, <1>15 DEF GoesByWhatItSaw
<1>18. cr \notin disturbed' => AtWork(cr)'
  <2> SUFFICES ASSUME cr \notin disturbed' PROVE AtWork(cr)'
    OBVIOUS
  <2>1. answer = "ok" /\ todo' = Tail(todo) /\ step' = "send" /\ disturbed' = disturbed
    BY <1>1, <1>11
  <2>2. AtWork(a)
    BY <1>0, <1>2, <2>1 DEF Undisturbed
  <2>3. CASE doomed
    <3>1. Held(ledger, a) \subseteq {todo[i].ip.host : i \in DOMAIN todo}
      BY <1>1, <2>2, <2>3 DEF AtWork, AtRelease
    <3>2. \A i \in DOMAIN todo : i = 1 \/ (i - 1 \in DOMAIN Tail(todo) /\ Tail(todo)[i - 1] = todo[i])
      BY <1>1, <1>3
    <3>3. todo[1] = r
      BY <1>1, <1>3, <1>4
    <3>4. Held(ledger', a) \subseteq {Tail(todo)[i].ip.host : i \in DOMAIN Tail(todo)}
      <4> SUFFICES ASSUME NEW x \in Held(ledger', a)
                   PROVE  \E i \in DOMAIN Tail(todo) : x = Tail(todo)[i].ip.host
        OBVIOUS
      <4>1. x \in Held(ledger, a) /\ x # h
        BY <1>15, <2>1, <2>3
      <4>2. PICK i \in DOMAIN todo : x = todo[i].ip.host
        BY <3>1, <4>1
      <4>3. i # 1
        BY <1>6, <3>3, <4>1, <4>2
      <4> QED
        BY <3>2, <4>2, <4>3
    <3> QED
      BY <1>2, <1>12, <2>1, <2>3, <3>4 DEF AtWork, AtRelease
  <2>4. CASE ~doomed
    <3>1. AtUpdate(a)
      BY <1>1, <2>2, <2>4 DEF AtWork
    <3>2. h \in Held(ledger, a)
      BY <1>6, <3>1 DEF AtUpdate
    <3>3. Held(ledger', a) = Held(ledger, a)
      BY <1>15, <2>1, <2>4, <3>2
    <3> QED
      BY <1>2, <1>12, <2>1, <2>4, <3>1, <3>3 DEF AtWork, AtUpdate, AllOrNothing, crVars
  <2> QED
    BY <1>3, <2>3, <2>4
<1>19. Undisturbed'
  BY <1>0, <1>2, <1>11, <1>12, <1>15, <1>18, OthersAtRest
<1>20. \A n \in Network, d \in Digit :
         Entry(ledger', n, d) # Entry(ledger, n, d) => n = Key(cr) /\ d \in seen
  BY <1>2, <1>6, <1>14, <1>15 DEF Writes
<1> QED
  BY <1>15, <1>16, <1>17, <1>19, <1>20 DEF ClaimsInv

(* The annotations of a Create.                                            *)
LEMMA AnnotateClaims ==
  ASSUME InductiveInv, ClaimsInv, Annotate \/ AnnotateFails
  PROVE  ClaimsInv'
<1>0. /\ TypeOK /\ OwnedIn(ledger) /\ WithinCount /\ GoesByWhatItSaw /\ Undisturbed
  BY DEF InductiveInv, ClaimsInv
<1>1. /\ step = "annotate" /\ step' = "store" /\ ips' \in {ips, atProvider[cr]}
      /\ ledger' = ledger /\ cr' = cr /\ doomed' = doomed /\ disturbed \subseteq disturbed'
      /\ atProvider' = atProvider /\ deleting' = deleting /\ gone' = gone
  BY DEF Annotate, AnnotateFails, Annotated, crVars, history, apiVars
<1>2. OwnedIn(ledger)' /\ GoesByWhatItSaw'
  BY <1>0, <1>1 DEF GoesByWhatItSaw
<1>3. WithinCount'
  BY <1>0, <1>1, ClaimsShrink
<1>4. Undisturbed'
  <2> SUFFICES ASSUME NEW b \in Assignment, b \notin disturbed'
               PROVE  IF cr' = b THEN AtWork(b)' ELSE AtRest(b)'
    BY DEF Undisturbed
  <2>1. IF cr = b THEN AtWork(b) ELSE AtRest(b)
    BY <1>0, <1>1 DEF Undisturbed
  <2>2. CASE cr = b
    BY <1>1, <2>1, <2>2 DEF AtWork, AtUpdate, AllOrNothing
  <2>3. CASE cr # b
    BY <1>1, <2>1, <2>3, RestKept
  <2> QED
    BY <2>2, <2>3
<1> QED
  BY <1>2, <1>3, <1>4 DEF ClaimsInv

(* The end of a reconcile.                                                 *)
LEMMA StoreClaims ==
  ASSUME InductiveInv, ClaimsInv, Sent \/ StoreStatus \/ StoreStatusFails \/ Crash
  PROVE  ClaimsInv'
<1>0. /\ TypeOK /\ OwnedIn(ledger) /\ WithinCount /\ GoesByWhatItSaw /\ Undisturbed
      /\ AssignmentTypeOK
  BY DEF InductiveInv, ClaimsInv, TypeOK
<1>1. ledger' = ledger /\ step' \in {"store", "idle"} /\ deleting' = deleting /\ gone' = gone
      /\ disturbed \subseteq disturbed'
  BY DEF Sent, StoreStatus, StoreStatusFails, Crash, WorkerCrash, ToStore, ToIdle, crVars, apiVars
<1>2. OwnedIn(ledger)' /\ GoesByWhatItSaw'
  BY <1>0, <1>1 DEF GoesByWhatItSaw
<1>3. WithinCount'
  BY <1>0, <1>1, ClaimsShrink
<1>4. CASE Sent
  <2>1. /\ step = "send" /\ todo = <<>> /\ step' = "store" /\ disturbed' = disturbed
        /\ UNCHANGED crVars /\ cr' = cr /\ ips' = ips /\ doomed' = doomed
    BY <1>4 DEF Sent, ToStore
  <2>2. cr \in Assignment /\ cr \notin disturbed => AtWork(cr)
    BY <1>0 DEF Undisturbed
  <2>3. AtRelease(cr) => Held(ledger, cr) = {}
    BY <2>1 DEF AtRelease
  <2>4. cr \in Assignment /\ cr \notin disturbed => AtWork(cr)'
    <3>1. CASE doomed
      BY <1>1, <2>1, <2>2, <2>3, <3>1 DEF AtWork
    <3>2. CASE ~doomed
      BY <1>1, <2>1, <2>2, <3>2 DEF AtWork, AtUpdate, AllOrNothing, crVars
    <3> QED
      BY <3>1, <3>2
  <2>5. Undisturbed'
    BY <1>0, <1>1, <2>1, <2>4, OthersAtRest
  <2> QED
    BY <1>2, <1>3, <2>5 DEF ClaimsInv
<1>5. ASSUME cr' = NoCR,
             \A b \in Assignment : b \notin disturbed' =>
               /\ b # cr => atProvider'[b] = atProvider[b]
               /\ b = cr => AtRest(b)'
      PROVE  ClaimsInv'
  <2> SUFFICES ASSUME NEW b \in Assignment, b \notin disturbed', b # cr PROVE AtRest(b)'
    BY <1>2, <1>3, <1>5, AssignmentAssumption DEF ClaimsInv, Undisturbed
  <2>1. AtRest(b)
    BY <1>0, <1>1 DEF Undisturbed
  <2> QED
    BY <1>1, <1>5, <2>1, RestKept
<1>6. CASE StoreStatus
  <2>1. step = "store" /\ cr \in Assignment /\ cr \notin gone /\ (doomed => cr \in deleting)
        /\ atProvider \in [Assignment -> SUBSET Digit]
    BY <1>0, <1>6 DEF StoreStatus, AssignmentTypeOK
  <2>2. cr' = NoCR /\ (atProvider' = atProvider \/ atProvider' = [atProvider EXCEPT ![cr] = ips])
        /\ disturbed' = disturbed
    BY <1>6 DEF StoreStatus, ToIdle
  <2>3. ASSUME NEW a \in Assignment, a = cr, a \notin disturbed PROVE AtRest(a)'
    <3>2. AtWork(a)
      BY <1>0, <2>3 DEF Undisturbed
    <3>3. atProvider'[a] \in {ips, atProvider[a]} /\ a \notin gone'
      BY <1>1, <2>1, <2>2, <2>3
    <3>4. CASE doomed
      <4>1. Held(ledger', a) = {}
        BY <1>1, <2>1, <3>2, <3>4 DEF AtWork
      <4>2. a \in deleting'
        BY <1>1, <2>1, <2>3, <3>4
      <4> QED
        BY <3>3, <4>1, <4>2 DEF AtRest, AllOrNothing
    <3>5. CASE ~doomed
      <4>1. AtUpdate(a)
        BY <2>1, <3>2, <3>5 DEF AtWork
      <4>2. atProvider'[a] \in {{}, Held(ledger', a)} /\ AllOrNothing(a)'
        BY <1>1, <3>3, <4>1 DEF AtUpdate, AllOrNothing
      <4> QED
        BY <3>3, <4>2 DEF AtRest, AllOrNothing
    <3> QED
      BY <3>4, <3>5
  <2>4. ASSUME NEW b \in Assignment, b \notin disturbed'
        PROVE  (b # cr => atProvider'[b] = atProvider[b]) /\ (b = cr => AtRest(b)')
    BY <2>1, <2>2, <2>3, <2>4
  <2> QED
    BY <1>5, <2>2, <2>4
<1>7. CASE StoreStatusFails \/ Crash
  <2>1. cr' = NoCR /\ atProvider' = atProvider
    BY <1>7 DEF StoreStatusFails, Crash, WorkerCrash, ToIdle, crVars
  <2>2. cr \in Assignment => cr \in disturbed'
    BY <1>7, AssignmentAssumption DEF StoreStatusFails, Crash, WorkerCrash
  <2> QED
    BY <1>5, <2>1, <2>2
<1> QED
  BY <1>4, <1>6, <1>7

(* The steps of everybody else.                                            *)
LEMMA NoticeClaims ==
  ASSUME InductiveInv, ClaimsInv, Notice, ledger' \in Ledgers(Nat), OwnedIn(ledger'),
         \A b \in Assignment : Held(ledger', b) \subseteq Held(ledger, b)
  PROVE  ClaimsInv'
<1>0. /\ TypeOK /\ WithinCount /\ GoesByWhatItSaw /\ Undisturbed /\ ledger \in Ledgers(Nat)
  BY DEF InductiveInv, ClaimsInv, TypeOK
<1>1. UNCHANGED crVars /\ UNCHANGED workerVars /\ seen' = seen
      /\ disturbed' = disturbed \cup {a \in Assignment : heldBy(a) \ heldBy(a)' # {}}
  BY DEF Notice
<1>2. \A b \in Assignment : heldBy(b) = Held(ledger, b) /\ heldBy(b)' = Held(ledger', b)
  BY <1>0, HeldNow, HeldNext
<1>3. \A b \in Assignment : b \notin disturbed' => Held(ledger', b) = Held(ledger, b) /\ b \notin disturbed
  BY <1>1, <1>2
<1>4. WithinCount'
  BY <1>0, <1>1, ClaimsShrink DEF workerVars, Claims
<1>5. GoesByWhatItSaw'
  BY <1>0, <1>1 DEF GoesByWhatItSaw, workerVars
<1>6. Undisturbed'
  <2> SUFFICES ASSUME NEW b \in Assignment, b \notin disturbed'
               PROVE  IF cr' = b THEN AtWork(b)' ELSE AtRest(b)'
    BY DEF Undisturbed
  <2>1. Held(ledger', b) = Held(ledger, b) /\ (IF cr = b THEN AtWork(b) ELSE AtRest(b))
    BY <1>0, <1>3 DEF Undisturbed
  <2>2. CASE cr = b
    BY <1>1, <2>1, <2>2 DEF crVars, workerVars, AtWork, AtCreate, AtReserve, AtRelease, AtUpdate, AllOrNothing
  <2>3. CASE cr # b
    BY <1>1, <2>1, <2>3, RestKept DEF crVars, workerVars
  <2> QED
    BY <2>2, <2>3
<1> QED
  BY <1>4, <1>5, <1>6 DEF ClaimsInv

(* Other clients, the reclaimer, the clock and the Network controller give *)
(* no assignment an address.                                               *)
LEMMA WorldClaims ==
  ASSUME OnlyProviderClaims, InductiveInv, ClaimsInv, Notice,
         NetWork \/ OtherClient \/ Reclaim \/ Pass
  PROVE  ClaimsInv'
<1>0. TypeOK /\ OwnedIn(ledger) /\ ledger \in Ledgers(Nat)
  BY DEF InductiveInv, ClaimsInv, TypeOK
<1>1. CASE ledger' = ledger
  BY <1>0, <1>1, NoticeClaims
<1>2. ASSUME NEW r, \A a \in Assignment : r.kind \in WithInfo => r.cluster # Owner(a),
             Allowed(r, now, ledger, ledger'), ledger' \in Ledgers(Nat)
      PROVE  ClaimsInv'
  <2>1. OwnedIn(ledger') /\ \A a \in Assignment : Held(ledger', a) \subseteq Held(ledger, a)
    BY <1>0, <1>2, ForeignEffect
  <2> QED
    BY <1>2, <2>1, NoticeClaims
<1>3. CASE OtherClient \/ Reclaim
  <2>1. PICK r : /\ r \in Others \/ r.kind = "reclaim"
                 /\ Allowed(r, now, ledger, ledger')
    BY <1>0, <1>3, WorldEffect
  <2>2. "reclaim" \notin WithInfo
    BY DEF WithInfo, WithDNS
  <2>3. \A a \in Assignment : r.kind \in WithInfo => r.cluster # Owner(a)
    BY <2>1, <2>2 DEF OnlyProviderClaims
  <2>4. ledger' \in Ledgers(Nat)
    BY <1>0, <1>3, WorldEffect
  <2> QED
    BY <1>2, <2>1, <2>3, <2>4
<1>4. CASE NetWork /\ ledger' # ledger
  <2>1. PICK r, answer : /\ ValidRequest(r, Nat) /\ Call(r, answer)
                         /\ r.kind \in {"create network", "add ip", "delete network"}
    BY <1>0, <1>4, NetWorkCalls
  <2>2. r.kind \notin WithInfo
    BY <2>1 DEF WithInfo, WithDNS
  <2>3. ledger' \in Ledgers(Nat) /\ Allowed(r, now, ledger, ledger')
    BY <1>0, <1>4, <2>1, CallEffect
  <2> QED
    BY <1>2, <2>2, <2>3
<1> QED
  BY <1>1, <1>3, <1>4 DEF Pass

(* A user deletes or unblocks an object, or the Network controller looks   *)
(* at the ledger, or nothing happens.                                      *)
LEMMA ObjectClaims ==
  ASSUME ClaimsInv, ledger' = ledger, UNCHANGED workerVars, UNCHANGED history,
         atProvider' = atProvider, gone' = gone, deleting \subseteq deleting'
  PROVE  ClaimsInv'
<1>0. OwnedIn(ledger) /\ WithinCount /\ GoesByWhatItSaw /\ Undisturbed
  BY DEF ClaimsInv
<1>1. OwnedIn(ledger)' /\ GoesByWhatItSaw'
  BY <1>0 DEF GoesByWhatItSaw, workerVars, history
<1>2. WithinCount'
  BY <1>0 DEF WithinCount, Claims, Due, workerVars
<1>3. Undisturbed'
  <2> SUFFICES ASSUME NEW b \in Assignment, b \notin disturbed'
               PROVE  IF cr' = b THEN AtWork(b)' ELSE AtRest(b)'
    BY DEF Undisturbed
  <2>1. IF cr = b THEN AtWork(b) ELSE AtRest(b)
    BY <1>0 DEF Undisturbed, history
  <2>2. CASE cr = b
    BY <2>1, <2>2 DEF workerVars, AtWork, AtCreate, AtReserve, AtRelease, AtUpdate, AllOrNothing
  <2>3. CASE cr # b
    BY <2>1, <2>3, RestKept DEF workerVars
  <2> QED
    BY <2>2, <2>3
<1> QED
  BY <1>1, <1>2, <1>3 DEF ClaimsInv

(* No assignment holds anything to begin with.                             *)
LEMMA InitClaims ==
  ASSUME OnlyProviderClaims, Init
  PROVE  ClaimsInv
<1>1. /\ ledger = Pools /\ step = "idle" /\ cr = NoCR /\ gone = {}
      /\ atProvider = [a \in Assignment |-> {}]
  BY DEF Init, APIInit, AssignmentInit
<1>2. \A a \in Assignment, d \in Digit : Entry(ledger, Key(a), d).cluster # Owner(a)
  <2> SUFFICES ASSUME NEW a \in Assignment, NEW d \in Digit
               PROVE  Entry(Pools, Key(a), d).cluster # Owner(a)
    BY <1>1
  <2>1. <<Key(a), d>> \in Address
    BY AssignmentFacts DEF Address
  <2> QED
    BY <2>1 DEF OnlyProviderClaims
<1>3. \A a \in Assignment : Held(ledger, a) = {} /\ a # cr
  BY <1>1, <1>2, AssignmentAssumption DEF Held
<1>4. OwnedIn(ledger) /\ GoesByWhatItSaw
  BY <1>1, <1>2 DEF OwnedIn, GoesByWhatItSaw
<1>5. WithinCount
  <2>1. \A a \in Assignment : Claims(a) = {} /\ Due(a) = 0
    BY <1>3 DEF Claims, Due
  <2>2. Cardinality({}) = 0
    BY FS_EmptySet
  <2>3. \A a \in Assignment : Cardinality(Claims(a)) = 0
    BY <2>1, <2>2
  <2>4. \A a \in Assignment : ForProvider[a].countIPs \in Nat
    BY AssignmentFacts
  <2> QED
    BY <2>1, <2>3, <2>4 DEF WithinCount
<1>6. Undisturbed
  BY <1>1, <1>3 DEF Undisturbed, AtRest, AllOrNothing
<1> QED
  BY <1>4, <1>5, <1>6 DEF ClaimsInv

(* Every step keeps the invariant.                                         *)
LEMMA ClaimsStep ==
  ASSUME OnlyProviderClaims, InductiveInv, ClaimsInv, [Next]_vars
  PROVE  ClaimsInv'
<1>1. CASE Work
  BY <1>1, CreateClaims, ReserveClaims, AnnotateClaims, SendClaims, StoreClaims DEF Work
<1>2. ASSUME NEW a \in Assignment, DeleteAssignment(a) \/ Unblock(a) PROVE ClaimsInv'
  BY <1>2, ObjectClaims DEF DeleteAssignment, Unblock, apiVars
<1>3. ASSUME NEW m \in NetworkCR, NetReconcile(m) \/ DeleteNetworkCR(m) \/ NetUnblock(m),
             UNCHANGED assignmentVars
      PROVE  ClaimsInv'
  <2>1. ledger' = ledger
    BY <1>3 DEF NetReconcile, NetObserveAbsent, NetObserveOutdated, NetObserveUpToDate,
                NetObserveForDeletion, NetObserveGone, NetGoOn, DeleteNetworkCR, NetUnblock, apiVars
  <2> QED
    BY <1>3, <2>1, ObjectClaims DEF assignmentVars, crVars
<1>4. CASE UNCHANGED vars
  BY <1>4, ObjectClaims DEF vars, apiVars, assignmentVars, crVars
<1> QED
  BY <1>1, <1>2, <1>3, <1>4, ReconcileClaims, WorldClaims, StoreClaims DEF Next, Done

-----------------------------------------------------------------------------
(* Where only the provider claims addresses for its clusters: holders,     *)
(* counts, what a reconcile goes by, and undisturbed assignments.          *)
THEOREM ClaimsInvariance ==
  ASSUME OnlyProviderClaims
  PROVE  Spec => [](InductiveInv /\ ClaimsInv)
<1>1. Init => InductiveInv /\ ClaimsInv
  BY InitTypes, InitClaims
<1>2. InductiveInv /\ ClaimsInv /\ [Next]_vars => (InductiveInv /\ ClaimsInv)'
  BY TypesStep, ClaimsStep
<1> QED
  BY <1>1, <1>2, PTL DEF Spec

(* Create never leaves a cluster with more addresses than its assignment   *)
(* asks for, whatever calls, answers, statuses and processes get lost and  *)
(* however often it is retried.                                            *)
THEOREM CountIsKept ==
  ASSUME OnlyProviderClaims
  PROVE  Spec => []NeverMoreThanAsked
<1>1. InductiveInv /\ ClaimsInv => NeverMoreThanAsked
  <2> SUFFICES ASSUME InductiveInv, ClaimsInv, NEW a \in Assignment
               PROVE  Cardinality(heldBy(a)) <= ForProvider[a].countIPs
    BY DEF NeverMoreThanAsked
  <2>1. ledger \in Ledgers(Nat) /\ WithinCount
    BY DEF InductiveInv, TypeOK, ClaimsInv
  <2> QED
    BY <2>1, HeldNow, HeldFacts
<1> QED
  BY <1>1, ClaimsInvariance, PTL

(* An assignment that met no fault and lost nothing leaves no address      *)
(* behind when its finalizer is removed.                                   *)
THEOREM NothingIsLeft ==
  ASSUME OnlyProviderClaims
  PROVE  Spec => []GoneLeavesNothing
<1>1. InductiveInv /\ ClaimsInv => GoneLeavesNothing
  <2> SUFFICES ASSUME InductiveInv, ClaimsInv, NEW a \in gone \ disturbed
               PROVE  heldBy(a) = {}
    BY DEF GoneLeavesNothing
  <2>1. ledger \in Ledgers(Nat) /\ a \in Assignment /\ cr # a
    BY AssignmentAssumption DEF InductiveInv, TypeOK, AssignmentTypeOK
  <2>2. AtRest(a)
    BY <2>1 DEF ClaimsInv, Undisturbed
  <2>3. heldBy(a) = Held(ledger, a)
    BY <2>1, HeldNow
  <2> QED
    BY <2>2, <2>3 DEF AtRest
<1> QED
  BY <1>1, ClaimsInvariance, PTL

(* Create takes no address that is held; Update and Delete overwrite one   *)
(* of another cluster only if it was their own in the Observe before.      *)
THEOREM OnlyWhatItSaw ==
  ASSUME OnlyProviderClaims
  PROVE  Spec => TakesOnlyWhatItSaw
<1> DEFINE Taken ==
      \A a \in Address :
        LET was == Entry(ledger, a[1], a[2])
        IN  /\ ~isFree(was)
            /\ Entry(ledger', a[1], a[2]) # was
            /\ \E x \in Assignment : cr = x /\ was.cluster # Owner(x) /\ Key(x) = a[1]
            /\ step \in {"reserve", "send"} /\ <<step, todo, need>> # <<step, todo, need>>'
            => step = "send" /\ a[2] \in seen
<1>1. ASSUME InductiveInv, ClaimsInv, [Next]_vars PROVE [Taken]_vars
  <2> SUFFICES ASSUME NEW a \in Address, ~isFree(Entry(ledger, a[1], a[2])),
                      Entry(ledger', a[1], a[2]) # Entry(ledger, a[1], a[2]),
                      step \in {"reserve", "send"}, <<step, todo, need>> # <<step, todo, need>>'
               PROVE  step = "send" /\ a[2] \in seen
    OBVIOUS
  <2>1. a[1] \in Network /\ a[2] \in Digit
    BY DEF Address
  <2>2. ledger' # ledger /\ step # "idle"
    OBVIOUS
  <2>3. ~UNCHANGED workerVars
    BY DEF workerVars
  <2>4. \E answer \in Answers : Reserve(answer) \/ Send(answer)
    <3>1. ~UNCHANGED vars /\ ~Notice /\ ~UNCHANGED assignmentVars /\ ~Crash /\ ~Done
      BY <2>2, <2>3 DEF vars, Notice, assignmentVars, Crash, Done, apiVars
    <3>2. \A x \in Assignment : ~Reconcile(x) /\ ~DeleteAssignment(x) /\ ~Unblock(x)
      BY <2>2 DEF Reconcile, Reads, ObserveAbsent, ObserveUpToDate, ObserveOutdated,
                  ObserveForDeletion, ObserveGone, ObserveFails, DeleteAssignment, Unblock, apiVars
    <3>3. Work
      BY <1>1, <3>1, <3>2 DEF Next
    <3> QED
      BY <2>2, <3>3 DEF Work, CreateLists, CreateRefused, CreateListFails, CreateDone,
                        Annotate, AnnotateFails, Sent, StoreStatus, StoreStatusFails, apiVars
  <2>5. PICK answer \in Answers : Reserve(answer) \/ Send(answer)
    BY <2>4
  <2>6. ~Reserve(answer)
    BY <1>1, <2>1, ReserveClaims
  <2>7. Send(answer)
    BY <2>5, <2>6
  <2> QED
    BY <1>1, <2>1, <2>7, SendClaims DEF Send
<1> QED
  BY <1>1, ClaimsInvariance, PTL DEF Spec, TakesOnlyWhatItSaw

-----------------------------------------------------------------------------
(* Leases, where nobody else sets any in the networks of the assignments.  *)

(* Half a duration is at most the whole.                                   *)
LEMMA HalfLease ==
  ASSUME NEW a \in Assignment
  PROVE  /\ ForProvider[a].lease \in Nat /\ ForProvider[a].lease \div 2 \in Nat
         /\ ForProvider[a].lease \div 2 <= ForProvider[a].lease
<1>1. ForProvider[a].lease \in Nat
  BY AssignmentFacts
<1> QED
  BY <1>1

(* A request of another client, of the reclaimer or of the Network         *)
(* controller leaves a lease alone or takes it away.                       *)
LEMMA ForeignLease ==
  ASSUME OnlyProviderLeases, NEW a \in Assignment, Leased(a), NEW d \in Digit,
         NEW r, r \in Others \/ r.kind \notin {"assign", "reserve", "renew"},
         NEW t, NEW l \in Ledgers(Nat), NEW s, Allowed(r, t, l, s)
  PROVE  Entry(s, Key(a), d).lease \in {0, Entry(l, Key(a), d).lease}
<1>n. PICK n \in Network : n = Key(a)
  BY AssignmentFacts
<1>1. PICK was, is : was = Entry(l, n, d) /\ is = Entry(s, n, d)
  OBVIOUS
<1>2. was \in IPInfo(Nat)
  BY <1>1, EntryType
<1>3. r.kind \in {"assign", "reserve", "renew"} /\ r.key = n => r.kind # "renew" /\ r.lease = 0
  BY <1>n DEF OnlyProviderLeases
<1>4. CASE is = was
  BY <1>n, <1>1, <1>4
<1>5. CASE is # was
  <2>1. May(r, t, n, d, was, is)
    BY <1>1, <1>5 DEF Allowed
  <2>2. CASE MayClaim(r, t, n, d, was, is)
    <3>1. is = Claim(r, t) /\ r.lease = 0
      BY <1>3, <2>2 DEF MayClaim
    <3>2. is.lease = 0
      BY <3>1 DEF Claim, LeaseEnd
    <3> QED
      BY <1>n, <1>1, <3>2
  <2>3. CASE MayReserve(r, n, was, is)
    BY <1>n, <1>1, <2>3 DEF MayReserve
  <2>4. CASE MayEdit(r, n, d, was, is)
    <3>1. is.lease = was.lease
      BY <1>2, <2>4 DEF MayEdit, Edited, IPInfo
    <3> QED
      BY <1>n, <1>1, <3>1
  <2>5. CASE MayRenew(r, t, n, d, was, is)
    BY <1>3, <2>5 DEF MayRenew
  <2>6. CASE MayClear(r, n, d, was, is)
    <3>1. is = Blank /\ Blank.lease = 0
      BY <2>6 DEF MayClear, Blank
    <3> QED
      BY <1>n, <1>1, <3>1
  <2>7. CASE MaySet(r, n, d, was, is)
    <3>1. is.lease = was.lease
      BY <1>2, <2>7 DEF MaySet, IPInfo
    <3> QED
      BY <1>n, <1>1, <3>1
  <2> QED
    BY <2>1, <2>2, <2>3, <2>4, <2>5, <2>6, <2>7 DEF May
<1> QED
  BY <1>4, <1>5

(* A call for an assignment takes a lease away, keeps it, or sets it to    *)
(* run from now; a reservation and a renewal do the last.                  *)
LEMMA OwnLease ==
  ASSUME NEW a \in Assignment, NEW t \in Nat, NEW l \in Ledgers(Nat), Leased(a),
         NEW r \in {ReserveRequest(a)} \cup Edits(a) \cup Releases(a), NEW s \in Handle(r, t, l)
  PROVE  /\ \A d \in Digit :
              Entry(s, Key(a), d).lease \in
                {0, Entry(l, Key(a), d).lease, t + ForProvider[a].lease}
         /\ r.kind = "renew" => Entry(s, Key(a), r.ip.host).lease = t + ForProvider[a].lease
         /\ r.kind = "reserve" =>
              \A d \in Held(s, a) \ Held(l, a) :
                Entry(s, Key(a), d).lease = t + ForProvider[a].lease
<1>n. PICK n \in Network : n = Key(a)
  BY AssignmentFacts
<1>1. PICK d \in Digit, e \in IPInfo(Nat) :
           /\ Configured(l, n) /\ s = Put(l, n, d, e)
           /\ r.kind \in {"reserve", "edit", "renew", "release"}
           /\ r.kind # "reserve" => d = r.ip.host
           /\ r.kind = "release" => e = Blank
           /\ r.kind \in {"reserve", "renew"} => e.lease = t + ForProvider[a].lease
           /\ r.kind = "edit" => e.lease = Entry(l, n, d).lease
  BY <1>n, OwnPut
<1>2. e # NoEntry /\ \A m \in Network, x \in Digit : Entry(s, m, x) = IF m = n /\ x = d THEN e ELSE Entry(l, m, x)
  BY <1>1, PutEntry, InfoIsInfo
<1>3. Blank.lease = 0
  BY DEF Blank
<1>4. e.lease \in {0, Entry(l, n, d).lease, t + ForProvider[a].lease}
  BY <1>1, <1>3
<1>5. Entry(s, n, d) = e /\ \A x \in Digit \ {d} : Entry(s, n, x) = Entry(l, n, x)
  BY <1>2
<1>6. \A x \in Digit \ {d} : x \in Held(s, a) => x \in Held(l, a)
  BY <1>n, <1>5 DEF Held
<1>7. r.kind = "reserve" =>
        \A x \in Held(s, a) \ Held(l, a) : Entry(s, n, x).lease = t + ForProvider[a].lease
  <2> SUFFICES ASSUME r.kind = "reserve", NEW x \in Held(s, a) \ Held(l, a)
               PROVE  Entry(s, n, x).lease = t + ForProvider[a].lease
    OBVIOUS
  <2>1. x = d
    BY <1>6 DEF Held
  <2> QED
    BY <1>1, <1>5, <2>1
<1> QED
  BY <1>n, <1>1, <1>4, <1>5, <1>7

(* Update renews every lease of its list.                                  *)
LEMMA UpdateRenews ==
  ASSUME NEW a \in Assignment, Leased(a), NEW S \in SUBSET Digit, NEW order \in Orders(S),
         NEW d \in S
  PROVE  \E i \in DOMAIN UpdateCalls(a, order) :
           UpdateCalls(a, order)[i] = RenewLease(Key(a), d, ForProvider[a].lease)
<1> DEFINE p == ForProvider[a]
           edit(x) == EditIP(Key(a), x, Owner(a), p.status, p.createDNS)
           renew(x) == RenewLease(Key(a), x, p.lease)
           c == Cardinality(S)
           call(i) == IF i % 2 = 1 THEN edit(order[(i + 1) \div 2]) ELSE renew(order[i \div 2])
<1>1. IsFiniteSet(S) /\ c \in Nat
  BY FiniteAssumption, FS_Subset, FS_CardinalityType
<1>2. order \in [1..c -> S] /\ DOMAIN order = 1..c /\ Len(order) = c
  BY <1>1 DEF Orders
<1>3. PICK j \in 1..c : order[j] = d
  BY <1>1, <1>2, OrdersAll
<1> HIDE DEF c
<1>4. UpdateCalls(a, order) = [i \in 1..(2 * c) |-> call(i)]
  BY <1>2 DEF UpdateCalls
<1>5. 2 * j \in 1..(2 * c) /\ (2 * j) % 2 # 1 /\ (2 * j) \div 2 = j
  BY <1>1
<1>6. call(2 * j) = renew(d)
  BY <1>3, <1>5
<1> HIDE DEF call, renew
<1>7. UpdateCalls(a, order)[2 * j] = renew(d) /\ 2 * j \in DOMAIN UpdateCalls(a, order)
  BY <1>4, <1>5, <1>6
<1> QED
  BY <1>7 DEF renew

(* Leases last when what is claimed was claimed before, with its lease or  *)
(* without one, or is leased from now on.                                  *)
LEMMA LeasesKept ==
  ASSUME InductiveInv, LeasesLast, InThePast, synced' = synced,
         \A a \in Assignment, d \in Digit :
           Leased(a) /\ d \in Claims(a)' =>
             \/ d \in Claims(a)
                /\ Entry(ledger', Key(a), d).lease \in {0, Entry(ledger, Key(a), d).lease}
             \/ Entry(ledger', Key(a), d).lease = now + ForProvider[a].lease
  PROVE  LeasesLast'
<1> SUFFICES ASSUME NEW a \in Assignment, NEW d \in Digit, Leased(a), synced[a][d] >= 0, d \in Claims(a)'
             PROVE  LeaseLeft(a, d, synced[a][d])'
  BY DEF LeasesLast, Leased
<1>1. synced[a][d] \in Int /\ synced[a][d] <= now /\ now \in Nat
  BY BoundsAssumption DEF InductiveInv, TypeOK, AssignmentTypeOK, InThePast
<1>2. CASE d \in Claims(a) /\ Entry(ledger', Key(a), d).lease \in {0, Entry(ledger, Key(a), d).lease}
  <2>1. LeaseLeft(a, d, synced[a][d])
    BY <1>2 DEF LeasesLast
  <2> QED
    BY <1>2, <2>1 DEF LeaseLeft, Key
<1>3. CASE Entry(ledger', Key(a), d).lease = now + ForProvider[a].lease
  <2>1. now + ForProvider[a].lease >= synced[a][d] + (ForProvider[a].lease \div 2)
    BY <1>1, HalfLease
  <2> QED
    BY <1>3, <2>1 DEF LeaseLeft, Key
<1> QED
  BY <1>2, <1>3

(* A step that leaves the ledger alone and starts no Update.               *)
LEMMA QuietLeases ==
  ASSUME InductiveInv, LeaseInv, ledger' = ledger, synced' = synced, now' \in Nat, now <= now',
         observedAt' \in {observedAt, now, 0},
         step' = "send" => UNCHANGED workerVars /\ observedAt' = observedAt
  PROVE  LeaseInv'
<1>0. LeasesLast /\ RenewedSoFar /\ InThePast /\ now \in Nat /\ observedAt \in Nat
      /\ synced \in [Assignment -> [Digit -> {-1} \cup 0..MaxNow]]
  BY BoundsAssumption DEF LeaseInv, InductiveInv, TypeOK, AssignmentTypeOK
<1>1. \A a \in Assignment : Claims(a)' \subseteq Claims(a)
  BY DEF Claims, Held, Key, Owner, workerVars
<1>2. LeasesLast'
  BY <1>0, <1>1, LeasesKept
<1>3. RenewedSoFar'
  BY <1>0 DEF RenewedSoFar, LeaseLeft, Key, Leased, RenewLease, workerVars
<1>4. InThePast'
  <2>1. \A a \in Assignment, d \in Digit : synced[a][d] \in Int /\ synced[a][d] <= now
    BY <1>0, BoundsAssumption DEF InThePast
  <2> QED
    BY <1>0, <2>1 DEF InThePast
<1> QED
  BY <1>2, <1>3, <1>4 DEF LeaseInv

(* Observe starts an Update that renews every lease, or finds them all in  *)
(* order.                                                                  *)
LEMMA ReconcileLeases ==
  ASSUME InductiveInv, ClaimsInv, LeaseInv, NEW a \in Assignment, Reconcile(a)
  PROVE  LeaseInv'
<1>0. TypeOK /\ OwnedIn(ledger) /\ LeasesLast /\ InThePast /\ now \in 0..MaxNow /\ now \in Nat
      /\ AssignmentTypeOK /\ atProvider[a] \in SUBSET Digit
  BY BoundsAssumption DEF InductiveInv, TypeOK, ClaimsInv, LeaseInv, AssignmentTypeOK
<1>1. step = "idle"
  BY DEF Reconcile, Reads, ObserveAbsent, ObserveUpToDate, ObserveOutdated, ObserveForDeletion,
         ObserveGone, ObserveFails
<1>2. ledger' = ledger /\ now' = now
  BY DEF Reconcile, ObserveAbsent, ObserveUpToDate, ObserveOutdated, ObserveForDeletion,
         ObserveGone, ObserveFails, apiVars
<1>3. \A b \in Assignment : Claims(b) = Held(ledger, b)
  BY <1>1 DEF Claims
<1>4. CASE ObserveAbsent(a) \/ ObserveGone(a) \/ ObserveFails(a)
  <2>1. synced' = synced /\ observedAt' \in {observedAt, now, 0}
        /\ (step' = "send" => UNCHANGED workerVars /\ observedAt' = observedAt)
    BY <1>4 DEF ObserveAbsent, ObserveGone, ObserveFails, Saw, history, workerVars
  <2> QED
    BY <1>0, <1>2, <2>1, QuietLeases
<1>5. CASE ObserveUpToDate(a)
  <2>1. step' = "store" /\ observedAt' = now
        /\ synced' = Synced(a, atProvider[a], now)
    BY <1>5 DEF ObserveUpToDate, Saw, ToStore
  <2>2. \A b \in Assignment, d \in Digit :
          synced'[b][d] = IF b = a /\ d \in atProvider[a] THEN now ELSE synced[b][d]
    BY <1>0, <2>1, SyncedType
  <2>3. ASSUME NEW d \in atProvider[a], Leased(a) PROVE LeaseLeft(a, d, now)
    <3>1. ResourceExists(a) /\ ResourceUpToDate(a) /\ atProvider[a] # {}
      BY <1>5, <2>3 DEF ObserveUpToDate
    <3>2. InPool(ledger, Key(a), d) /\ ~LeaseDue(a, d)
      BY <2>3, <3>1 DEF ResourceExists, ResourceUpToDate, InOrder
    <3>3. Entry(ledger, Key(a), d) = ledger[Key(a)][d]
      BY <3>2 DEF Entry
    <3>4. ledger[Key(a)][d].lease \in Nat
      <4>1. ledger[Key(a)][d] \in IPInfo(Nat)
        BY <1>0, <2>3, <3>2, InPoolInfo, AssignmentFacts DEF TypeOK
      <4> QED
        BY <4>1 DEF IPInfo
    <3> QED
      BY <1>0, <3>2, <3>3, <3>4, HalfLease DEF LeaseDue, LeaseLeft
  <2>4. LeasesLast'
    <3> SUFFICES ASSUME NEW b \in Assignment, NEW d \in Digit, Leased(b), synced'[b][d] >= 0, d \in Claims(b)'
                 PROVE  LeaseLeft(b, d, synced[b][d])'
      BY DEF LeasesLast, Leased
    <3>1. d \in Claims(b)
      BY <1>2, <2>1 DEF Claims, Held, Key, Owner
    <3>2. LeaseLeft(b, d, synced'[b][d])
      <4>1. CASE b = a /\ d \in atProvider[a]
        BY <2>2, <2>3, <4>1
      <4>2. CASE ~(b = a /\ d \in atProvider[a])
        BY <1>0, <2>2, <3>1, <4>2 DEF LeasesLast
      <4> QED
        BY <4>1, <4>2
    <3> QED
      BY <1>2, <3>2 DEF LeaseLeft, Key
  <2>5. InThePast'
    BY <1>0, <1>2, <2>1, <2>2 DEF InThePast
  <2>6. RenewedSoFar'
    BY <2>1 DEF RenewedSoFar
  <2> QED
    BY <2>4, <2>5, <2>6 DEF LeaseInv
<1>6. ASSUME step' = "send", cr' = a, ips' \subseteq Observed(a), ResourceExists(a),
             observedAt' = now, synced' = synced
      PROVE  LeasesLast' /\ InThePast'
  <2>1. ips' \subseteq Held(ledger, a)
    BY <1>0, <1>6, ObserveOwn
  <2>2. \A b \in Assignment : Claims(b)' \subseteq Claims(b)
    BY <1>2, <1>3, <1>6, <2>1 DEF Claims, Held, Key, Owner
  <2>3. LeasesLast'
    BY <1>0, <1>2, <1>6, <2>2, LeasesKept
  <2> QED
    BY <1>0, <1>2, <1>6, <2>3 DEF InThePast
<1>7. CASE ObserveOutdated(a)
  <2>1. cr' = a /\ doomed' = FALSE /\ observedAt' = now
    BY <1>7, SawDeletion DEF ObserveOutdated
  <2>2. /\ ips' \in {Observed(a), atProvider[a]} /\ step' = "send" /\ ResourceExists(a) /\ synced' = synced
        /\ \E order \in Orders(ips') : todo' = UpdateCalls(a, order)
    BY <1>7 DEF ObserveOutdated, AddFinalizer
  <2>3. ips' \subseteq Observed(a)
    BY <1>0, <2>2, ObserveOwn
  <2>4. PICK S \in SUBSET Digit : S = ips'
    BY <1>0, <2>2, <2>3, ObservedType
  <2>5. PICK order \in Orders(S) : todo' = UpdateCalls(a, order)
    BY <2>2, <2>4
  <2>6. RenewedSoFar'
    <3>1. Leased(a) => \A d \in S : \E i \in DOMAIN UpdateCalls(a, order) :
                         UpdateCalls(a, order)[i] = RenewLease(Key(a), d, ForProvider[a].lease)
      BY <2>5, UpdateRenews
    <3> QED
      BY <2>1, <2>4, <2>5, <3>1 DEF RenewedSoFar, Leased, Key, RenewLease
  <2> QED
    BY <1>6, <2>1, <2>2, <2>3, <2>6 DEF LeaseInv
<1>8. CASE ObserveForDeletion(a)
  <2>1. cr' = a /\ doomed' = TRUE /\ observedAt' = now
    BY <1>8, SawDeletion DEF ObserveForDeletion
  <2>2. ips' = Observed(a) /\ step' = "send" /\ ResourceExists(a) /\ synced' = synced
    BY <1>8 DEF ObserveForDeletion
  <2>3. RenewedSoFar'
    BY <2>1 DEF RenewedSoFar
  <2> QED
    BY <1>6, <2>1, <2>2, <2>3 DEF LeaseInv
<1> QED
  BY <1>4, <1>5, <1>7, <1>8 DEF Reconcile

(* A call of Create, Update or Delete takes no lease from what is claimed, *)
(* for its own or for another assignment, without giving a new one.        *)
LEMMA WorkLeases ==
  ASSUME OnlyProviderClaims, InductiveInv, ClaimsInv, cr \in Assignment,
         NEW r \in {ReserveRequest(cr)} \cup Edits(cr) \cup Releases(cr),
         ledger' \in Handle(r, now, ledger), cr' = cr, ips' = ips, step' \in {step, "annotate", "store"},
         \/ r.kind = "reserve" /\ step = "reserve"
         \/ r.kind # "reserve" /\ step = "send" /\ r.ip.host \in ips,
         NEW b \in Assignment, NEW d \in Digit, Leased(b), d \in Claims(b)'
  PROVE  \/ /\ d \in Claims(b)
            /\ Entry(ledger', Key(b), d).lease \in {0, Entry(ledger, Key(b), d).lease}
         \/ Entry(ledger', Key(b), d).lease = now + ForProvider[b].lease
<1>0. OwnedIn(ledger) /\ GoesByWhatItSaw /\ ledger \in Ledgers(Nat) /\ now \in Nat /\ ips \in SUBSET Digit
  BY BoundsAssumption DEF InductiveInv, TypeOK, AssignmentTypeOK, ClaimsInv
<1>1. PICK a \in Assignment : a = cr
  OBVIOUS
<1>2. /\ r.kind \in {"reserve", "edit", "renew", "release"}
      /\ r.kind = "reserve" =>
           \E x \in Digit : Gives(a, ledger, ledger', x) /\ Writes(a, ledger, ledger', x)
      /\ r.kind # "reserve" => Writes(a, ledger, ledger', r.ip.host)
      /\ r.kind = "edit" => Gives(a, ledger, ledger', r.ip.host)
      /\ r.kind = "renew" => \A x \in Assignment : Held(ledger', x) = Held(ledger, x)
      /\ r.kind = "release" =>
           \A x \in Assignment :
             Held(ledger', x) = IF Key(x) = Key(a) THEN Held(ledger, x) \ {r.ip.host} ELSE Held(ledger, x)
  BY <1>0, <1>1, OwnEffect
<1>3. \A x \in Assignment \ {a} : r.kind # "reserve" /\ Key(x) = Key(a) => r.ip.host \notin Held(ledger, x)
  BY <1>0, <1>1 DEF GoesByWhatItSaw
<1>4. PICK w \in Digit :
        /\ Writes(a, ledger, ledger', w)
        /\ r.kind # "reserve" => w = r.ip.host
        /\ Held(ledger', a) \subseteq Held(ledger, a) \cup {w}
        /\ \A x \in Assignment \ {a} :
             /\ Held(ledger', x) \subseteq Held(ledger, x)
             /\ Key(x) = Key(a) => w \notin Held(ledger', x)
  <2>1. CASE r.kind = "reserve"
    BY <1>2, <2>1 DEF Gives
  <2>2. CASE r.kind = "edit"
    BY <1>0, <1>2, <2>2 DEF Gives
  <2>3. CASE r.kind = "renew"
    BY <1>0, <1>2, <1>3, <2>3
  <2>4. CASE r.kind = "release"
    BY <1>0, <1>2, <2>4
  <2> QED
    BY <1>2, <2>1, <2>2, <2>3, <2>4
<1>5. CASE b # a
  <2>1. d \in Held(ledger', b) /\ d \in Held(ledger, b)
    BY <1>1, <1>4, <1>5 DEF Claims
  <2>2. Key(b) \in Network /\ (Key(b) = Key(a) => d # w)
    BY <1>4, <1>5, <2>1, AssignmentFacts
  <2>3. Entry(ledger', Key(b), d) = Entry(ledger, Key(b), d)
    BY <1>4, <2>2 DEF Writes
  <2> QED
    BY <2>1, <2>3 DEF Claims
<1>6. CASE b = a
  <2>1. /\ Entry(ledger', Key(a), d).lease \in
             {0, Entry(ledger, Key(a), d).lease, now + ForProvider[a].lease}
        /\ r.kind = "reserve" /\ d \in Held(ledger', a) \ Held(ledger, a) =>
             Entry(ledger', Key(a), d).lease = now + ForProvider[a].lease
    BY <1>0, <1>1, <1>6, OwnLease
  <2>2. d \in Claims(a) \/ (r.kind = "reserve" /\ d \in Held(ledger', a) \ Held(ledger, a))
    BY <1>1, <1>4, <1>6 DEF Claims
  <2> QED
    BY <1>6, <2>1, <2>2
<1> QED
  BY <1>5, <1>6

(* Create reserves with a lease.                                           *)
LEMMA ReserveLeases ==
  ASSUME OnlyProviderClaims, InductiveInv, ClaimsInv, LeaseInv, NEW answer \in Answers, Reserve(answer)
  PROVE  LeaseInv'
<1>0. TypeOK /\ LeasesLast /\ InThePast /\ step = "reserve" /\ cr \in Assignment
  BY DEF InductiveInv, TypeOK, LeaseInv, Reserve, AssignmentTypeOK
<1>1. /\ cr' = cr /\ ips' = ips /\ synced' = synced /\ observedAt' = observedAt
      /\ step' \in {step, "annotate"}
  BY DEF Reserve, ToAnnotate
<1>2. PICK r : r = ReserveRequest(cr)
  OBVIOUS
<1>3. Call(r, answer) /\ r.kind = "reserve" /\ ValidRequest(r, Nat)
  BY <1>0, <1>2, AssignmentRequests DEF Reserve, ReserveRequest, ReserveIP, Key, Owner
<1>4. now' = now /\ (ledger' = ledger \/ ledger' \in Handle(r, now, ledger))
  BY <1>0, <1>3, CallEffect
<1>5. CASE ledger' = ledger
  <2>1. now \in Nat
    BY <1>0, BoundsAssumption DEF TypeOK
  <2> QED
    BY <1>0, <1>1, <1>4, <1>5, <2>1, QuietLeases
<1>6. CASE ledger' \in Handle(r, now, ledger)
  <2>1. ASSUME NEW b \in Assignment, NEW d \in Digit, Leased(b), d \in Claims(b)'
        PROVE  \/ /\ d \in Claims(b)
                  /\ Entry(ledger', Key(b), d).lease \in {0, Entry(ledger, Key(b), d).lease}
               \/ Entry(ledger', Key(b), d).lease = now + ForProvider[b].lease
    BY <1>0, <1>1, <1>2, <1>3, <1>6, <2>1, WorkLeases
  <2>2. LeasesLast'
    BY <1>0, <1>1, <2>1, LeasesKept
  <2>3. RenewedSoFar' /\ InThePast'
    BY <1>0, <1>1, <1>4 DEF RenewedSoFar, InThePast
  <2> QED
    BY <2>2, <2>3 DEF LeaseInv
<1> QED
  BY <1>4, <1>5, <1>6

(* Update renews the leases of its list one after the other, whatever      *)
(* happens to the answers.                                                 *)
LEMMA SendLeases ==
  ASSUME OnlyProviderClaims, InductiveInv, ClaimsInv, LeaseInv, NEW answer \in Answers, Send(answer)
  PROVE  LeaseInv'
<1>0. /\ TypeOK /\ LeasesLast /\ InThePast /\ RenewedSoFar /\ CallsOfCR /\ AssignmentTypeOK
      /\ step = "send" /\ todo # <<>> /\ cr \in Assignment /\ ledger \in Ledgers(Nat) /\ now \in Nat
      /\ ips \in SUBSET Digit /\ observedAt \in Nat /\ observedAt <= now
  BY BoundsAssumption DEF InductiveInv, TypeOK, LeaseInv, InThePast, Send, AssignmentTypeOK
<1>1. PICK a \in Assignment : a = cr
  BY <1>0
<1>2. /\ doomed \in BOOLEAN
      /\ todo \in Seq(IF doomed THEN Releases(a) ELSE Edits(a))
      /\ \A i \in DOMAIN todo : todo[i].ip.host \in ips
  BY <1>0, <1>1 DEF CallsOfCR, AssignmentTypeOK
<1>3. PICK r : r = Head(todo) /\ r = todo[1] /\ 1 \in DOMAIN todo
  BY <1>0, <1>2
<1>4. /\ r \in IF doomed THEN Releases(a) ELSE Edits(a)
      /\ r.ip.host \in ips
  BY <1>0, <1>2, <1>3
<1>5. r \in {ReserveRequest(a)} \cup Edits(a) \cup Releases(a) /\ ValidRequest(r, Nat)
  BY <1>2, <1>4, AssignmentRequests
<1>6. r.kind # "reserve"
  BY <1>2, <1>4 DEF Releases, Edits, ReleaseIP, EditIP, RenewLease
<1>7. Call(r, answer)
  BY <1>3 DEF Send
<1>8. /\ now' = now /\ (ledger' = ledger \/ ledger' \in Handle(r, now, ledger))
      /\ answer = "ok" => ledger' \in Handle(r, now, ledger)
  BY <1>0, <1>5, <1>7, CallEffect
<1>9. /\ cr' = cr /\ ips' = ips /\ doomed' = doomed /\ synced' = synced /\ observedAt' = observedAt
      /\ \/ step' = "store"
         \/ step' = "send" /\ todo' = Tail(todo) /\ (r.kind = "renew" => answer = "ok")
  BY <1>0, <1>3 DEF Send, ToStore, Succeeded
<1>10. ASSUME NEW b \in Assignment, NEW d \in Digit, Leased(b), d \in Claims(b)'
       PROVE  \/ /\ d \in Claims(b)
                 /\ Entry(ledger', Key(b), d).lease \in {0, Entry(ledger, Key(b), d).lease}
              \/ Entry(ledger', Key(b), d).lease = now + ForProvider[b].lease
  <2>1. CASE ledger' = ledger
    BY <1>0, <1>9, <1>10, <2>1 DEF Claims
  <2>2. CASE ledger' \in Handle(r, now, ledger)
    BY <1>0, <1>1, <1>4, <1>5, <1>6, <1>9, <1>10, <2>2, WorkLeases
  <2> QED
    BY <1>8, <2>1, <2>2
<1>11. LeasesLast'
  BY <1>0, <1>9, <1>10, LeasesKept
<1>12. RenewedSoFar'
  <2> SUFFICES ASSUME step' = "send", ~doomed, Leased(a), NEW d \in ips
               PROVE  \/ \E i \in DOMAIN todo' : todo'[i] = RenewLease(Key(a), d, ForProvider[a].lease)
                      \/ LeaseLeft(a, d, observedAt)'
    BY <1>1, <1>9 DEF RenewedSoFar, Leased, Key, RenewLease, LeaseLeft
  <2>1. todo' = Tail(todo) /\ (r.kind = "renew" => answer = "ok") /\ d \in Digit
    BY <1>0, <1>9
  <2>2. now + ForProvider[a].lease >= observedAt + (ForProvider[a].lease \div 2)
    BY <1>0, HalfLease
  <2>3. \/ \E i \in DOMAIN todo : todo[i] = RenewLease(Key(a), d, ForProvider[a].lease)
        \/ LeaseLeft(a, d, observedAt)
    BY <1>0, <1>1 DEF RenewedSoFar
  <2>4. CASE LeaseLeft(a, d, observedAt)
    <3>1. d \in Claims(a)' /\ d \in Claims(a)
      BY <1>0, <1>1, <1>9 DEF Claims
    <3>2. Entry(ledger', Key(a), d).lease \in {0, Entry(ledger, Key(a), d).lease, now + ForProvider[a].lease}
      BY <1>10, <2>1, <3>1
    <3> QED
      BY <1>9, <2>2, <2>4, <3>2 DEF LeaseLeft, Key
  <2>5. ASSUME NEW i \in DOMAIN todo, todo[i] = RenewLease(Key(a), d, ForProvider[a].lease), i # 1
        PROVE  \E j \in DOMAIN todo' : todo'[j] = RenewLease(Key(a), d, ForProvider[a].lease)
    <3>1. i - 1 \in DOMAIN Tail(todo) /\ Tail(todo)[i - 1] = todo[i]
      BY <1>0, <1>2, <2>5
    <3> QED
      BY <2>1, <2>5, <3>1
  <2>6. CASE r = RenewLease(Key(a), d, ForProvider[a].lease)
    <3>1. r.kind = "renew" /\ r.ip.host = d
      BY <2>6 DEF RenewLease
    <3>2. Entry(ledger', Key(a), d).lease = now + ForProvider[a].lease
      BY <1>0, <1>5, <1>8, <2>1, <3>1, OwnLease
    <3> QED
      BY <1>9, <2>2, <3>2 DEF LeaseLeft, Key
  <2> QED
    BY <1>3, <2>3, <2>4, <2>5, <2>6
<1>13. InThePast'
  BY <1>0, <1>8, <1>9 DEF InThePast
<1> QED
  BY <1>11, <1>12, <1>13 DEF LeaseInv

(* When all its calls are made, every lease is renewed.                    *)
LEMMA SentLeases ==
  ASSUME InductiveInv, LeaseInv, Sent
  PROVE  LeaseInv'
<1>0. /\ TypeOK /\ LeasesLast /\ InThePast /\ RenewedSoFar /\ AssignmentTypeOK
      /\ step = "send" /\ todo = <<>> /\ cr \in Assignment /\ now \in Nat
      /\ observedAt \in 0..MaxNow /\ observedAt <= now
  BY BoundsAssumption DEF InductiveInv, TypeOK, LeaseInv, InThePast, Sent, AssignmentTypeOK
<1>1. /\ ledger' = ledger /\ now' = now /\ step' = "store" /\ cr' = cr /\ observedAt' = observedAt
      /\ synced' = IF doomed THEN synced ELSE Synced(cr, ips, observedAt)
  BY DEF Sent, ToStore, apiVars
<1>2. CASE doomed
  BY <1>0, <1>1, <1>2, QuietLeases
<1>3. CASE ~doomed
  <2>1. \A b \in Assignment, d \in Digit :
          synced'[b][d] = IF b = cr /\ d \in ips THEN observedAt ELSE synced[b][d]
    BY <1>0, <1>1, <1>3, SyncedType
  <2>2. LeasesLast'
    <3> SUFFICES ASSUME NEW b \in Assignment, NEW d \in Digit, Leased(b), synced'[b][d] >= 0, d \in Claims(b)'
                 PROVE  LeaseLeft(b, d, synced[b][d])'
      BY DEF LeasesLast, Leased
    <3>1. d \in Claims(b)
      BY <1>1 DEF Claims, Held, Key, Owner
    <3>2. LeaseLeft(b, d, synced'[b][d])
      <4>1. CASE b = cr /\ d \in ips
        BY <1>0, <1>3, <2>1, <4>1 DEF RenewedSoFar
      <4>2. CASE ~(b = cr /\ d \in ips)
        BY <1>0, <2>1, <3>1, <4>2 DEF LeasesLast
      <4> QED
        BY <4>1, <4>2
    <3> QED
      BY <1>1, <3>2 DEF LeaseLeft, Key
  <2>3. RenewedSoFar' /\ InThePast'
    BY <1>0, <1>1, <2>1 DEF RenewedSoFar, InThePast
  <2> QED
    BY <2>2, <2>3 DEF LeaseInv
<1> QED
  BY <1>2, <1>3

(* Nobody else shortens a lease.                                           *)
LEMMA WorldLeases ==
  ASSUME OnlyProviderClaims, OnlyProviderLeases, InductiveInv, ClaimsInv, LeaseInv, Notice,
         NetWork \/ OtherClient \/ Reclaim \/ Pass
  PROVE  LeaseInv'
<1>0. TypeOK /\ OwnedIn(ledger) /\ ledger \in Ledgers(Nat) /\ now \in Nat /\ ips \in SUBSET Digit
      /\ LeasesLast /\ InThePast /\ RenewedSoFar /\ (step = "send" => cr \in Assignment)
  BY BoundsAssumption DEF InductiveInv, ClaimsInv, TypeOK, LeaseInv, AssignmentTypeOK
<1>1. UNCHANGED workerVars /\ observedAt' = observedAt /\ synced' = synced
  BY DEF Notice
<1>2. CASE ledger' = ledger
  <2>1. now' \in Nat /\ now <= now'
    <3>1. CASE Pass
      BY <1>0, <3>1 DEF Pass
    <3>2. CASE OtherClient \/ Reclaim
      BY <1>0, <3>2 DEF OtherClient, Reclaim
    <3>3. CASE NetWork
      <4>1. \/ UNCHANGED <<ledger, records, now, others>>
            \/ \E r, answer : ValidRequest(r, Nat) /\ Call(r, answer)
        BY <1>0, <3>3, NetWorkCalls
      <4>2. now' = now
        BY <4>1 DEF Call
      <4> QED
        BY <1>0, <4>2
    <3> QED
      BY <3>1, <3>2, <3>3
  <2> QED
    BY <1>0, <1>1, <1>2, <2>1, QuietLeases
<1>3. ASSUME NEW r, \A a \in Assignment : r.kind \in WithInfo => r.cluster # Owner(a),
             r \in Others \/ r.kind \notin {"assign", "reserve", "renew"},
             Allowed(r, now, ledger, ledger'), ledger' \in Ledgers(Nat), now' = now
      PROVE  LeaseInv'
  <2>1. \A a \in Assignment : Held(ledger', a) \subseteq Held(ledger, a)
    BY <1>0, <1>3, ForeignEffect
  <2>2. \A a \in Assignment, d \in Digit : Leased(a) =>
          Entry(ledger', Key(a), d).lease \in {0, Entry(ledger, Key(a), d).lease}
    BY <1>0, <1>3, ForeignLease
  <2>3. \A a \in Assignment : Claims(a)' \subseteq Claims(a)
    BY <1>1, <2>1 DEF Claims, workerVars
  <2>4. LeasesLast'
    BY <1>0, <1>1, <2>2, <2>3, LeasesKept
  <2>5. RenewedSoFar'
    <3> SUFFICES ASSUME step = "send", ~doomed, Leased(cr), NEW d \in ips
                 PROVE  \/ \E i \in DOMAIN todo : todo[i] = RenewLease(Key(cr), d, ForProvider[cr].lease)
                        \/ LeaseLeft(cr, d, observedAt)'
      BY <1>1 DEF RenewedSoFar, workerVars, Leased, Key, RenewLease
    <3>1. CASE LeaseLeft(cr, d, observedAt)
      <4>1. Entry(ledger', Key(cr), d).lease \in {0, Entry(ledger, Key(cr), d).lease}
        BY <1>0, <2>2
      <4> QED
        BY <1>1, <3>1, <4>1 DEF LeaseLeft, Key, workerVars
    <3> QED
      BY <1>0, <3>1 DEF RenewedSoFar
  <2>6. InThePast'
    BY <1>0, <1>1, <1>3 DEF InThePast
  <2> QED
    BY <2>4, <2>5, <2>6 DEF LeaseInv
<1>4. CASE OtherClient \/ Reclaim
  <2>1. PICK r : /\ r \in Others \/ r.kind = "reclaim"
                 /\ Allowed(r, now, ledger, ledger')
    BY <1>0, <1>4, WorldEffect
  <2>2. "reclaim" \notin WithInfo
    BY DEF WithInfo, WithDNS
  <2>3. \A a \in Assignment : r.kind \in WithInfo => r.cluster # Owner(a)
    BY <2>1, <2>2 DEF OnlyProviderClaims
  <2>4. ledger' \in Ledgers(Nat) /\ now' = now
    BY <1>0, <1>4, WorldEffect DEF OtherClient, Reclaim
  <2> QED
    BY <1>3, <2>1, <2>3, <2>4
<1>5. CASE NetWork /\ ledger' # ledger
  <2>1. PICK r, answer : /\ ValidRequest(r, Nat) /\ Call(r, answer)
                         /\ r.kind \in {"create network", "add ip", "delete network"}
    BY <1>0, <1>5, NetWorkCalls
  <2>2. r.kind \notin WithInfo
    BY <2>1 DEF WithInfo, WithDNS
  <2>3. ledger' \in Ledgers(Nat) /\ Allowed(r, now, ledger, ledger') /\ now' = now
    BY <1>0, <1>5, <2>1, CallEffect
  <2> QED
    BY <1>3, <2>1, <2>2, <2>3
<1> QED
  BY <1>2, <1>4, <1>5 DEF Pass

(* Every step keeps the leases.                                            *)
LEMMA LeaseStep ==
  ASSUME OnlyProviderClaims, OnlyProviderLeases, InductiveInv, ClaimsInv, LeaseInv, [Next]_vars
  PROVE  LeaseInv'
<1>0. now \in Nat
  BY BoundsAssumption DEF InductiveInv, TypeOK
<1>1. ASSUME \/ CreateLists \/ CreateRefused \/ CreateListFails \/ CreateDone
             \/ Annotate \/ AnnotateFails \/ StoreStatus \/ StoreStatusFails \/ Crash
      PROVE  LeaseInv'
  <2>1. ledger' = ledger /\ now' = now /\ synced' = synced /\ observedAt' \in {observedAt, 0}
        /\ step' # "send"
    BY <1>1 DEF CreateLists, CreateRefused, CreateListFails, CreateDone, Annotate, AnnotateFails, Annotated,
                StoreStatus, StoreStatusFails, Crash, WorkerCrash, ToAnnotate, ToIdle, history, apiVars
  <2> QED
    BY <1>0, <2>1, QuietLeases
<1>2. CASE Work
  BY <1>1, <1>2, ReserveLeases, SendLeases, SentLeases DEF Work
<1>3. ASSUME ledger' = ledger, now' = now, UNCHANGED workerVars, UNCHANGED history
      PROVE  LeaseInv'
  BY <1>0, <1>3, QuietLeases DEF history
<1>4. ASSUME NEW a \in Assignment, DeleteAssignment(a) \/ Unblock(a) PROVE LeaseInv'
  BY <1>3, <1>4 DEF DeleteAssignment, Unblock, apiVars
<1>5. ASSUME NEW m \in NetworkCR, NetReconcile(m) \/ DeleteNetworkCR(m) \/ NetUnblock(m),
             UNCHANGED assignmentVars
      PROVE  LeaseInv'
  <2>1. ledger' = ledger /\ now' = now
    BY <1>5 DEF NetReconcile, NetObserveAbsent, NetObserveOutdated, NetObserveUpToDate,
                NetObserveForDeletion, NetObserveGone, NetGoOn, DeleteNetworkCR, NetUnblock, apiVars
  <2> QED
    BY <1>3, <1>5, <2>1 DEF assignmentVars
<1>6. CASE UNCHANGED vars
  BY <1>3, <1>6 DEF vars, apiVars, assignmentVars
<1> QED
  BY <1>1, <1>2, <1>4, <1>5, <1>6, ReconcileLeases, WorldLeases DEF Next, Done

(* An address in the status of a leased assignment is reclaimed from it    *)
(* only half a lease duration or more after the last reconcile that left   *)
(* its lease in order, whatever calls, answers, statuses and processes get *)
(* lost, provided that nobody else claims addresses for its cluster or     *)
(* sets leases in its network.                                             *)
THEOREM LeasesOutliveHalf ==
  ASSUME OnlyProviderClaims, OnlyProviderLeases
  PROVE  Spec => LeaseOutlivesHalf
<1>1. Init => LeaseInv
  <2> SUFFICES ASSUME Init PROVE LeaseInv
    OBVIOUS
  <2>1. step = "idle" /\ observedAt = 0 /\ now = 0 /\ synced = [a \in Assignment |-> [d \in Digit |-> -1]]
    BY DEF Init, APIInit, AssignmentInit
  <2>2. \A a \in Assignment, d \in Digit : synced[a][d] = -1
    BY <2>1
  <2> QED
    BY <2>1, <2>2 DEF LeaseInv, LeasesLast, RenewedSoFar, InThePast
<1>2. InductiveInv /\ ClaimsInv /\ LeaseInv /\ [Next]_vars => LeaseInv'
  BY LeaseStep
<1> DEFINE Outlives ==
      \A a \in Assignment, d \in Digit :
        /\ Leased(a) /\ d \in atProvider[a] /\ synced[a][d] >= 0
        /\ InPool(ledger', Key(a), d) /\ isFree(ledger'[Key(a)][d])
        /\ InPool(ledger, Key(a), d) /\ d \in heldBy(a)
        /\ ledger[Key(a)][d].lease \in 1..now
        => now - synced[a][d] >= ForProvider[a].lease \div 2
<1>3. ASSUME InductiveInv, LeaseInv PROVE Outlives
  <2> SUFFICES ASSUME NEW a \in Assignment, NEW d \in Digit, InPool(ledger, Key(a), d),
                      d \in heldBy(a), Leased(a), ledger[Key(a)][d].lease \in 1..now,
                      synced[a][d] >= 0
               PROVE  now - synced[a][d] >= ForProvider[a].lease \div 2
    OBVIOUS
  <2>1. ledger \in Ledgers(Nat) /\ now \in Nat /\ synced[a][d] \in Int
    BY <1>3, BoundsAssumption DEF InductiveInv, TypeOK, AssignmentTypeOK
  <2>2. d \in Claims(a)
    BY <2>1, HeldNow DEF Claims
  <2>3. LeaseLeft(a, d, synced[a][d])
    BY <1>3, <2>2 DEF LeaseInv, LeasesLast
  <2>4. Entry(ledger, Key(a), d) = ledger[Key(a)][d]
    BY DEF Entry
  <2>5. ledger[Key(a)][d].lease >= synced[a][d] + (ForProvider[a].lease \div 2)
    BY <2>1, <2>3, <2>4 DEF LeaseLeft
  <2> QED
    BY <2>1, <2>5, HalfLease
<1> HIDE DEF Outlives
<1>4. Spec => [](InductiveInv /\ ClaimsInv /\ LeaseInv)
  BY <1>1, <1>2, ClaimsInvariance, PTL DEF Spec
<1>5. Spec => [][Outlives]_vars
  BY <1>3, <1>4, PTL
<1> QED
  BY <1>5 DEF LeaseOutlivesHalf, Outlives
=============================================================================
