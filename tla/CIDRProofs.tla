----------------------------- MODULE CIDRProofs -----------------------------
(***************************************************************************)
(* Theorems about the CIDR expansion, for every width of an address, every *)
(* width of an octet, every prefix length and every reserved set: the      *)
(* pools that CIDRToNetworks returns hold the usable addresses of the      *)
(* block, each once and in ascending order.                                *)
(***************************************************************************)
EXTENDS CIDR, FiniteSetTheorems, WellFoundedInduction, TLAPS

-----------------------------------------------------------------------------
(* Powers of two.  The library knows 2^n as the number of subsets of a set *)
(* of n elements, and the laws of exponents follow from that.              *)

(* 2^n counts the subsets of 1..n.                                         *)
LEMMA PowerCounts ==
  ASSUME NEW n \in Nat
  PROVE  /\ IsFiniteSet(SUBSET (1..n))
         /\ Cardinality(SUBSET (1..n)) = 2^n
  <1>1. IsFiniteSet(1..n) /\ Cardinality(1..n) = n
    BY FS_Interval
  <1> QED BY <1>1, FS_SUBSET

(* A power of two is a positive number.                                    *)
LEMMA PowerPositive ==
  ASSUME NEW n \in Nat
  PROVE  2^n \in Nat /\ 2^n > 0
  <1>1. 2^n \in Nat
    BY PowerCounts, FS_CardinalityType
  <1>2. SUBSET (1..n) # {}
    OBVIOUS
  <1>3. 2^n # 0
    BY <1>2, PowerCounts, FS_EmptySet
  <1> QED BY <1>1, <1>3

(* 2^0 = 1.                                                                *)
LEMMA PowerZero == 2^0 = 1
  <1>1. SUBSET (1..0) = {{}}
    OBVIOUS
  <1>2. Cardinality(SUBSET (1..0)) = 1
    BY <1>1, FS_Singleton
  <1> QED BY <1>2, PowerCounts

(* 2^1 = 2.                                                                *)
LEMMA PowerOne == 2^1 = 2
  <1>1. SUBSET (1..1) = {{}} \cup {{1}}
    OBVIOUS
  <1>2. IsFiniteSet({{}}) /\ Cardinality({{}}) = 1
    BY FS_Singleton
  <1>3. {1} \notin {{}}
    OBVIOUS
  <1>4. Cardinality({{}} \cup {{1}}) =
           IF {1} \in {{}} THEN Cardinality({{}}) ELSE Cardinality({{}}) + 1
    BY <1>2, FS_AddElement
  <1>5. Cardinality({{}} \cup {{1}}) = 2
    BY <1>2, <1>3, <1>4
  <1> QED BY <1>1, <1>5, PowerCounts

(* 2^(m + n) = 2^m * 2^n: a subset of 1..(m + n) is a subset of 1..m and   *)
(* one of the rest.                                                        *)
LEMMA PowerSum ==
  ASSUME NEW m \in Nat, NEW n \in Nat
  PROVE  2^(m + n) = 2^m * 2^n
  <1> DEFINE A == 1..m
             B == (m + 1)..(m + n)
             C == 1..(m + n)
             f == [p \in (SUBSET A) \X (SUBSET B) |-> p[1] \cup p[2]]
  <1>1. C = A \cup B /\ A \cap B = {}
    OBVIOUS
  <1>2. IsFiniteSet(SUBSET A) /\ Cardinality(SUBSET A) = 2^m
    BY PowerCounts
  <1>3. IsFiniteSet(SUBSET B) /\ Cardinality(SUBSET B) = 2^n
    <2>1. IsFiniteSet(B) /\ Cardinality(B) = n
      BY FS_Interval
    <2> QED BY <2>1, FS_SUBSET
  <1>4. /\ IsFiniteSet((SUBSET A) \X (SUBSET B))
        /\ Cardinality((SUBSET A) \X (SUBSET B)) = 2^m * 2^n
    BY <1>2, <1>3, FS_Product
  <1>5. Cardinality(SUBSET C) = 2^(m + n)
    <2>1. m + n \in Nat
      OBVIOUS
    <2> QED BY <2>1, PowerCounts
  <1> HIDE DEF A, B, C
  <1>6. f \in Bijection((SUBSET A) \X (SUBSET B), SUBSET C)
    <2>1. f \in [(SUBSET A) \X (SUBSET B) -> SUBSET C]
      BY <1>1
    <2>2. ASSUME NEW p \in (SUBSET A) \X (SUBSET B), NEW q \in (SUBSET A) \X (SUBSET B),
                 f[p] = f[q]
          PROVE  p = q
      <3>1. p[1] \cup p[2] = q[1] \cup q[2]
        BY <2>2
      <3>2. p[1] \subseteq A /\ q[1] \subseteq A /\ p[2] \subseteq B /\ q[2] \subseteq B
        OBVIOUS
      <3>3. p[1] = q[1] /\ p[2] = q[2]
        BY <3>1, <3>2, <1>1
      <3> QED BY <3>3
    <2>3. ASSUME NEW s \in SUBSET C
          PROVE  \E p \in (SUBSET A) \X (SUBSET B) : f[p] = s
      <3>1. <<s \cap A, s \cap B>> \in (SUBSET A) \X (SUBSET B)
        OBVIOUS
      <3>2. f[<<s \cap A, s \cap B>>] = s
        BY <3>1, <1>1
      <3> QED BY <3>1, <3>2
    <2> QED BY <2>1, <2>2, <2>3 DEF Bijection, Injection, Surjection, IsInjective
  <1>7. Cardinality(SUBSET C) = Cardinality((SUBSET A) \X (SUBSET B))
    BY <1>4, <1>6, FS_Bijection DEF ExistsBijection
  <1> QED BY <1>4, <1>5, <1>7

-----------------------------------------------------------------------------
(* Quotients and remainders.                                               *)

(* A number is quotient times divisor plus remainder.                      *)
LEMMA DivMod ==
  ASSUME NEW a \in Nat, NEW k \in Nat, k > 0
  PROVE  /\ a \div k \in Nat
         /\ a % k \in Nat
         /\ a % k < k
         /\ a = k * (a \div k) + (a % k)
  OBVIOUS

(* Two multiples of k that differ by less than k are the same.             *)
LEMMA MultiplesApart ==
  ASSUME NEW k \in Nat, NEW p \in Nat, NEW q \in Nat, p < q
  PROVE  k * p + k <= k * q
  <1> DEFINE d == q - p - 1
  <1>1. d \in Nat /\ q = p + 1 + d
    OBVIOUS
  <1> HIDE DEF d
  <1>2. k * q = k * p + k + k * d
    BY <1>1
  <1>3. k * d \in Nat /\ k * p \in Nat
    BY <1>1
  <1> QED BY <1>2, <1>3

(* Quotient and remainder are the only such pair.                          *)
LEMMA DivUnique ==
  ASSUME NEW k \in Nat, NEW q \in Nat, NEW r \in Nat, r < k
  PROVE  (k * q + r) \div k = q /\ (k * q + r) % k = r
  <1> DEFINE a == k * q + r
             p == a \div k
             s == a % k
  <1>0. a \in Nat /\ k > 0
    OBVIOUS
  <1>1. p \in Nat /\ s \in Nat /\ s < k /\ a = k * p + s
    BY <1>0, DivMod
  <1>2. k * p \in Nat /\ k * q \in Nat /\ k * p + s = k * q + r
    BY <1>1
  <1> HIDE DEF a, p, s
  <1>3. ~(p < q)
    BY <1>1, <1>2, MultiplesApart
  <1>4. ~(q < p)
    BY <1>1, <1>2, MultiplesApart
  <1>5. p = q
    BY <1>1, <1>3, <1>4
  <1>6. s = r
    BY <1>1, <1>2, <1>5
  <1> QED BY <1>5, <1>6 DEF a, p, s

(* Dividing twice is dividing by the product.                              *)
LEMMA DivDiv ==
  ASSUME NEW a \in Nat, NEW m \in Nat, m > 0, NEW n \in Nat, n > 0
  PROVE  (a \div m) \div n = a \div (m * n)
  <1> DEFINE q == a \div m
             r == a % m
             p == q \div n
             s == q % n
  <1>1. q \in Nat /\ r \in Nat /\ r < m /\ a = m * q + r
    BY DivMod
  <1>2. p \in Nat /\ s \in Nat /\ s < n /\ q = n * p + s
    BY <1>1, DivMod
  <1> HIDE DEF q, r, p, s
  <1>3. m * s + m <= m * n
    BY <1>2, MultiplesApart
  <1>4. m * s \in Nat /\ m * n \in Nat
    BY <1>2
  <1>5. m * s + r < m * n /\ m * s + r \in Nat
    BY <1>1, <1>3, <1>4
  <1>6. a = (m * n) * p + (m * s + r)
    BY <1>1, <1>2
  <1>7. a \div (m * n) = p
    BY <1>2, <1>4, <1>5, <1>6, DivUnique
  <1> QED BY <1>7 DEF p, q

(* A set of naturals that is not empty has a least element.                *)
LEMMA LeastElement ==
  ASSUME NEW S \in SUBSET Nat, S # {}
  PROVE  \E x \in S : \A y \in S : x <= y
  <1>1. PICK x \in S : \A y \in S : ~(<<y, x>> \in OpToRel(<, Nat))
    BY NatLessThanWellFounded, WFMin
  <1>2. ASSUME NEW y \in S
        PROVE  x <= y
    <2>1. ~(<<y, x>> \in OpToRel(<, Nat))
      BY <1>1
    <2>2. x \in Nat /\ y \in Nat
      OBVIOUS
    <2>3. ~(y < x)
      BY <2>1, <2>2 DEF OpToRel
    <2> QED BY <2>2, <2>3
  <1> QED BY <1>2

(* A smaller quotient belongs to a smaller number.                         *)
LEMMA DivOrder ==
  ASSUME NEW a \in Nat, NEW b \in Nat, NEW k \in Nat, k > 0, a \div k < b \div k
  PROVE  a < b
  <1> DEFINE p == a \div k
             q == b \div k
  <1>1. p \in Nat /\ (a % k) \in Nat /\ a % k < k /\ a = k * p + (a % k)
    BY DivMod
  <1>2. q \in Nat /\ (b % k) \in Nat /\ b = k * q + (b % k)
    BY DivMod
  <1>3. p < q
    OBVIOUS
  <1> HIDE DEF p, q
  <1>4. k * p + k <= k * q /\ k * p \in Nat /\ k * q \in Nat
    BY <1>1, <1>2, <1>3, MultiplesApart
  <1> QED BY <1>1, <1>2, <1>4

-----------------------------------------------------------------------------
(* The octets of an address.                                               *)

Octets == Width \div OctetBits

(* The number that the first k octets of an address write.                 *)
Leading(a, k) == a \div 2^(Width - k * OctetBits)

(* An address is a whole number of octets.                                 *)
LEMMA WholeOctets ==
  /\ Octets \in Nat
  /\ Width = OctetBits * Octets
  /\ \A k \in 0..Octets : Width - k * OctetBits \in Nat
  <1>1. OctetBits \in Nat /\ OctetBits > 0 /\ Width \in Nat /\ Width % OctetBits = 0
    BY WidthAssumption
  <1>2. Octets \in Nat /\ Width = OctetBits * Octets + 0
    BY <1>1, DivMod DEF Octets
  <1>3. OctetBits * Octets \in Nat /\ Width = OctetBits * Octets
    BY <1>1, <1>2
  <1>4. ASSUME NEW k \in 0..Octets
        PROVE  Width - k * OctetBits \in Nat
    <2>1. Octets - k \in Nat
      BY <1>2
    <2>2. OctetBits * (Octets - k) \in Nat
      BY <1>1, <2>1
    <2>3. OctetBits * (Octets - k) = OctetBits * Octets - k * OctetBits
      BY <1>1, <1>2
    <2> QED BY <1>3, <2>2, <2>3
  <1> QED BY <1>2, <1>3, <1>4

(* One octet more: what the first k octets write is what the first k - 1   *)
(* write, shifted by an octet, plus the k-th.                              *)
LEMMA NextOctet ==
  ASSUME NEW a \in Nat, NEW k \in 1..Octets
  PROVE  /\ Leading(a, k) \in Nat
         /\ Leading(a, k - 1) \in Nat
         /\ Octet(a, k) \in Nat
         /\ Octet(a, k) < 2^OctetBits
         /\ Leading(a, k) = 2^OctetBits * Leading(a, k - 1) + Octet(a, k)
  <1> DEFINE e == Width - k * OctetBits
             m == 2^e
             n == 2^OctetBits
  <1>1. OctetBits \in Nat /\ OctetBits > 0 /\ Width \in Nat /\ Octets \in Nat
    BY WidthAssumption, WholeOctets
  <1>2. k \in 0..Octets /\ k - 1 \in 0..Octets /\ k \in Nat
    BY <1>1
  <1>3. e \in Nat
    BY <1>2, WholeOctets
  <1>4. Width - (k - 1) * OctetBits = e + OctetBits
    BY <1>1, <1>2
  <1>5. m \in Nat /\ m > 0 /\ n \in Nat /\ n > 0
    BY <1>1, <1>3, PowerPositive
  <1>6. 2^(e + OctetBits) = m * n
    BY <1>1, <1>3, PowerSum
  <1> HIDE DEF e, m, n
  <1>7. (a \div m) \div n = a \div (m * n)
    BY <1>5, DivDiv
  <1>8. Leading(a, k) = a \div m
    BY DEF Leading, e, m
  <1>9. Leading(a, k - 1) = a \div (m * n)
    BY <1>4, <1>6 DEF Leading
  <1>10. Octet(a, k) = (a \div m) % n
    BY DEF Octet, e, m, n
  <1>11. a \div m \in Nat
    BY <1>5, DivMod
  <1>12. /\ (a \div m) \div n \in Nat
         /\ (a \div m) % n \in Nat
         /\ (a \div m) % n < n
         /\ a \div m = n * ((a \div m) \div n) + ((a \div m) % n)
    BY <1>5, <1>11, DivMod
  <1>13. Octet(a, k) \in Nat /\ Octet(a, k) < n
    BY <1>10, <1>12
  <1>14. Leading(a, k) \in Nat /\ Leading(a, k - 1) \in Nat
    BY <1>7, <1>8, <1>9, <1>11, <1>12
  <1>15. Leading(a, k) = n * Leading(a, k - 1) + Octet(a, k)
    BY <1>7, <1>8, <1>9, <1>10, <1>12
  <1> QED BY <1>13, <1>14, <1>15 DEF n

(* No octets write zero: an address has Width bits.                        *)
LEMMA LeadingNone ==
  ASSUME NEW a \in Addresses
  PROVE  a \in Nat /\ Leading(a, 0) = 0
  <1>1. Width \in Nat /\ OctetBits \in Nat
    BY WidthAssumption
  <1>2. 2^Width \in Nat /\ 2^Width > 0
    BY <1>1, PowerPositive
  <1>3. a \in Nat /\ a < 2^Width
    BY <1>2 DEF Addresses
  <1>4. Width - 0 * OctetBits = Width
    BY <1>1
  <1>5. a = 2^Width * 0 + a
    BY <1>2, <1>3
  <1>6. a \div 2^Width = 0
    BY <1>2, <1>3, <1>5, DivUnique
  <1> QED BY <1>3, <1>4, <1>6 DEF Leading

(* Addresses that agree in their first k octets agree in the number these  *)
(* write: the least k for which they do not would follow one where they do. *)
LEMMA SameOctets ==
  ASSUME NEW a \in Addresses, NEW b \in Addresses, NEW k \in 0..Octets,
         \A m \in 1..k : Octet(a, m) = Octet(b, m)
  PROVE  Leading(a, k) = Leading(b, k)
  <1> DEFINE S == {m \in 0..k : Leading(a, m) # Leading(b, m)}
  <1>0. Octets \in Nat /\ a \in Nat /\ b \in Nat
    BY WholeOctets, LeadingNone
  <1>1. S \in SUBSET Nat
    BY <1>0
  <1>2. SUFFICES ASSUME S # {} PROVE FALSE
    BY <1>0
  <1>3. PICK m \in S : \A y \in S : m <= y
    BY <1>1, <1>2, LeastElement
  <1>4. m \in 0..k /\ Leading(a, m) # Leading(b, m)
    BY <1>3
  <1>5. m # 0
    BY <1>4, LeadingNone
  <1>6. m \in 1..Octets /\ m \in 1..k /\ m - 1 \in 0..k
    BY <1>0, <1>4, <1>5
  <1>7. m - 1 \notin S
    BY <1>0, <1>3, <1>6
  <1>8. Leading(a, m - 1) = Leading(b, m - 1)
    BY <1>6, <1>7
  <1>9. Octet(a, m) = Octet(b, m)
    BY <1>6
  <1>10. Leading(a, m) = 2^OctetBits * Leading(a, m - 1) + Octet(a, m)
    BY <1>0, <1>6, NextOctet
  <1>11. Leading(b, m) = 2^OctetBits * Leading(b, m - 1) + Octet(b, m)
    BY <1>0, <1>6, NextOctet
  <1> QED BY <1>4, <1>8, <1>9, <1>10, <1>11

(* The number that the octets of a network key write.                      *)
LEMMA LeadingKey ==
  ASSUME NEW a \in Addresses, Octets > 0
  PROVE  /\ KeyOctets \in 0..Octets
         /\ KeyOctets = Octets - 1
         /\ Leading(a, KeyOctets) = a \div 2^OctetBits
  <1>1. OctetBits \in Nat /\ Octets \in Nat /\ Width = OctetBits * Octets
    BY WidthAssumption, WholeOctets
  <1>2. KeyOctets = Octets - 1
    BY DEF KeyOctets, Octets
  <1>3. Width - (Octets - 1) * OctetBits = OctetBits
    BY <1>1
  <1> QED BY <1>1, <1>2, <1>3 DEF Leading

(* An address of no octets is 0.                                           *)
LEMMA NoOctets ==
  ASSUME NEW a \in Addresses, ~(Octets > 0)
  PROVE  a = 0
  <1>1. Octets = 0 /\ OctetBits \in Nat
    BY WholeOctets, WidthAssumption
  <1>2. Width = 0
    BY <1>1, WholeOctets
  <1> QED BY <1>2, PowerZero DEF Addresses

(* Addresses of the same network differ in the last octet only.            *)
LEMMA SameNetwork ==
  ASSUME NEW a \in Addresses, NEW b \in Addresses, NetworkKey(a) = NetworkKey(b)
  PROVE  a \div 2^OctetBits = b \div 2^OctetBits
  <1>1. CASE Octets > 0
    <2>1. KeyOctets \in 0..Octets
      BY <1>1, LeadingKey
    <2>2. ASSUME NEW m \in 1..KeyOctets
          PROVE  Octet(a, m) = Octet(b, m)
      <3>1. NetworkKey(a)[m] = Octet(a, m) /\ NetworkKey(b)[m] = Octet(b, m)
        BY DEF NetworkKey
      <3> QED BY <3>1
    <2>3. Leading(a, KeyOctets) = Leading(b, KeyOctets)
      BY <2>1, <2>2, SameOctets
    <2> QED BY <1>1, <2>3, LeadingKey
  <1>2. CASE ~(Octets > 0)
    BY <1>2, NoOctets
  <1> QED BY <1>1, <1>2

(* The last octet of an address is an octet.                               *)
LEMMA LastOctetType ==
  ASSUME NEW a \in Addresses
  PROVE  /\ a \in Nat
         /\ LastOctet(a) \in Nat
         /\ LastOctet(a) < 2^OctetBits
         /\ a \div 2^OctetBits \in Nat
         /\ a = 2^OctetBits * (a \div 2^OctetBits) + LastOctet(a)
  <1>1. a \in Nat /\ 2^OctetBits \in Nat /\ 2^OctetBits > 0
    BY LeadingNone, WidthAssumption, PowerPositive
  <1> QED BY <1>1, DivMod DEF LastOctet

(* In one network the last octets are ordered as the addresses are.        *)
LEMMA LastOctetOrder ==
  ASSUME NEW a \in Addresses, NEW b \in Addresses, NetworkKey(a) = NetworkKey(b)
  PROVE  /\ a < b => LastOctet(a) < LastOctet(b)
         /\ LastOctet(a) = LastOctet(b) => a = b
  <1> DEFINE q == a \div 2^OctetBits
             n == 2^OctetBits * q
  <1>1. b \div 2^OctetBits = q
    BY SameNetwork
  <1>2. 2^OctetBits \in Nat /\ q \in Nat
    BY LastOctetType, WidthAssumption, PowerPositive
  <1>3. n \in Nat
    BY <1>2
  <1>4. LastOctet(a) \in Nat /\ a = n + LastOctet(a)
    BY LastOctetType
  <1>5. LastOctet(b) \in Nat /\ b = n + LastOctet(b)
    BY <1>1, LastOctetType
  <1> HIDE DEF n, q
  <1> QED BY <1>3, <1>4, <1>5

-----------------------------------------------------------------------------
(* The block.                                                              *)

BlockOK == ip \in Addresses /\ maskLen \in MaskLens /\ reserved \in Reserved

HostCount == 2^HostBits

(* The block starts at a multiple of its size and lies in the address      *)
(* space; unless it is the whole space it is smaller than that.            *)
LEMMA BlockBounds ==
  ASSUME BlockOK
  PROVE  /\ HostCount \in Nat /\ HostCount > 0
         /\ 2^Width \in Nat /\ 2^Width > 0
         /\ networkInt \in Nat
         /\ networkInt + HostCount <= 2^Width
         /\ networkInt = HostCount * (ip \div HostCount)
         /\ maskLen # 0 => HostCount < 2^Width
  <1>1. Width \in Nat /\ maskLen \in Nat /\ maskLen <= Width
    BY WidthAssumption DEF BlockOK
  <1>2. HostBits \in Nat /\ Width = HostBits + maskLen
    BY <1>1 DEF HostBits
  <1> DEFINE H == HostCount
             M == 2^maskLen
             q == ip \div H
  <1>3. H \in Nat /\ H > 0 /\ M \in Nat /\ M > 0 /\ 2^Width \in Nat /\ 2^Width > 0
    BY <1>1, <1>2, PowerPositive DEF HostCount
  <1>4. 2^Width = H * M
    BY <1>1, <1>2, PowerSum DEF HostCount
  <1>5. ip \in Nat /\ ip < H * M
    BY <1>3, <1>4 DEF BlockOK, Addresses
  <1>6. q \in Nat /\ (ip % H) \in Nat /\ ip = H * q + (ip % H)
    BY <1>3, <1>5, DivMod
  <1>7. networkInt = ip - (ip % H)
    BY DEF networkInt, HostCount
  <1> HIDE DEF H, M, q
  <1>8. H * q \in Nat /\ networkInt = H * q
    BY <1>3, <1>5, <1>6, <1>7
  <1>9. q < M
    <2>1. SUFFICES ASSUME M <= q PROVE FALSE
      BY <1>3, <1>6
    <2>2. CASE M = q
      BY <2>2, <1>3, <1>5, <1>6, <1>8
    <2>3. CASE M < q
      <3>1. H * M + H <= H * q
        BY <2>3, <1>3, <1>6, MultiplesApart
      <3> QED BY <3>1, <1>3, <1>4, <1>5, <1>6, <1>8
    <2> QED BY <2>1, <2>2, <2>3, <1>3, <1>6
  <1>10. H * q + H <= H * M
    BY <1>3, <1>6, <1>9, MultiplesApart
  <1>11. maskLen # 0 => H < 2^Width
    <2>1. SUFFICES ASSUME maskLen # 0 PROVE H < 2^Width
      OBVIOUS
    <2>2. maskLen - 1 \in Nat /\ maskLen = 1 + (maskLen - 1)
      BY <1>1, <2>1
    <2>3. M = 2^1 * 2^(maskLen - 1)
      BY <2>2, PowerSum DEF M
    <2>4. 2^(maskLen - 1) \in Nat /\ 2^(maskLen - 1) > 0
      BY <2>2, PowerPositive
    <2>5. 1 < M
      BY <2>3, <2>4, PowerOne
    <2>6. H * 1 + H <= H * M
      BY <2>5, <1>3, MultiplesApart
    <2> QED BY <2>6, <1>3, <1>4
  <1>12. networkInt + H <= 2^Width
    BY <1>4, <1>8, <1>10
  <1> QED BY <1>3, <1>8, <1>11, <1>12 DEF H, q

(* A number lies in the block when it lies between its ends.               *)
LEMMA BlockMembers ==
  ASSUME BlockOK, NEW a \in Nat
  PROVE  InBlock(a) <=> networkInt <= a /\ a < networkInt + HostCount
  <1> DEFINE H == HostCount
             q == ip \div H
             p == a \div H
  <1>1. H \in Nat /\ H > 0 /\ networkInt \in Nat /\ networkInt = H * q
    BY BlockBounds
  <1>2. ip \in Nat
    BY LeadingNone DEF BlockOK
  <1>3. q \in Nat
    BY <1>1, <1>2, DivMod
  <1>4. networkInt \div H = q
    <2>1. networkInt = H * q + 0
      BY <1>1
    <2> QED BY <2>1, <1>1, <1>3, DivUnique
  <1>5. p \in Nat /\ (a % H) \in Nat /\ a % H < H /\ a = H * p + (a % H)
    BY <1>1, DivMod
  <1>6. InBlock(a) <=> p = q
    BY <1>4 DEF InBlock, HostCount
  <1> HIDE DEF H, q, p
  <1>7. H * p \in Nat /\ H * q \in Nat
    BY <1>1, <1>3, <1>5
  <1>8. p = q => networkInt <= a /\ a < networkInt + H
    BY <1>1, <1>5, <1>7
  <1>9. p < q => a < networkInt
    <2>1. SUFFICES ASSUME p < q PROVE a < networkInt
      OBVIOUS
    <2>2. H * p + H <= H * q
      BY <2>1, <1>1, <1>3, <1>5, MultiplesApart
    <2> QED BY <2>2, <1>1, <1>5, <1>7
  <1>10. q < p => a >= networkInt + H
    <2>1. SUFFICES ASSUME q < p PROVE a >= networkInt + H
      OBVIOUS
    <2>2. H * q + H <= H * p
      BY <2>1, <1>1, <1>3, <1>5, MultiplesApart
    <2> QED BY <2>2, <1>1, <1>5, <1>7
  <1>11. p = q \/ p < q \/ q < p
    BY <1>3, <1>5
  <1>12. networkInt <= a /\ a < networkInt + H => p = q
    BY <1>1, <1>9, <1>10, <1>11
  <1> QED BY <1>6, <1>8, <1>12 DEF H

-----------------------------------------------------------------------------
(* The loop.                                                               *)

UsableBelow(n) == {a \in Usable : a < n}

(* A pool of strictly ascending octets; the k-th is at least k - 1, so a   *)
(* pool is never longer than there are octets.                             *)
IsPool(s) ==
  /\ s \in Seq(Nat)
  /\ \A k, m \in 1..Len(s) : k < m => s[k] < s[m]
  /\ \A k \in 1..Len(s) : k <= s[k] + 1

(* The pools r hold the addresses of U, and no other.                      *)
PoolsOf(r, U) ==
  /\ DOMAIN r = {NetworkKey(a) : a \in U}
  /\ \A key \in DOMAIN r :
       /\ IsPool(r[key])
       /\ Range(r[key]) = {LastOctet(a) : a \in {x \in U : NetworkKey(x) = key}}

(* v addresses of the block have been visited; the counter has wrapped     *)
(* around when the block is the last one of the address space.             *)
Visited(v) ==
  /\ current = IF networkInt + v = 2^Width THEN 0 ELSE networkInt + v
  /\ PoolsOf(result, UsableBelow(networkInt + v))

LoopInv ==
  /\ BlockOK
  /\ state \in {"loop", "done", "error", "sort", "sorted"}
  /\ maskLen = 0 => state = "loop" /\ current \in Addresses
  /\ maskLen # 0 /\ state = "loop" => \E v \in 0..HostCount : Visited(v)
  /\ state # "loop" => PoolsOf(result, Usable)
  /\ state = "error" => DOMAIN result = {}

(* A pool that a larger octet is appended to is a pool.                    *)
LEMMA AppendToPool ==
  ASSUME NEW s, IsPool(s), NEW o \in Nat, \A k \in 1..Len(s) : s[k] < o
  PROVE  /\ IsPool(Append(s, o))
         /\ Range(Append(s, o)) = Range(s) \cup {o}
         /\ Len(s) \in Nat
         /\ Len(s) <= o
  <1> DEFINE n == Len(s)
             t == Append(s, o)
  <1>1. s \in Seq(Nat) /\ n \in Nat
    BY DEF IsPool
  <1>2. t \in Seq(Nat) /\ Len(t) = n + 1 /\ t[n + 1] = o /\ \A k \in 1..n : t[k] = s[k]
    BY <1>1
  <1>3. \A k \in 1..n : s[k] \in Nat
    BY <1>1
  <1>4. n <= o
    <2>1. CASE n = 0
      BY <2>1
    <2>2. CASE n # 0
      <3>1. n \in 1..n
        BY <1>1, <2>2
      <3>2. s[n] \in Nat /\ n <= s[n] + 1 /\ s[n] < o
        BY <1>3, <3>1 DEF IsPool
      <3> QED BY <1>1, <3>2
    <2> QED BY <2>1, <2>2
  <1>5. Range(t) = Range(s) \cup {o}
    <2>1. DOMAIN t = 1..(n + 1) /\ DOMAIN s = 1..n
      BY <1>1, <1>2
    <2>2. \A k \in 1..(n + 1) : k \in 1..n \/ k = n + 1
      BY <1>1
    <2>3. n + 1 \in 1..(n + 1) /\ \A k \in 1..n : k \in 1..(n + 1)
      BY <1>1
    <2> HIDE DEF t, n
    <2> QED BY <1>2, <2>1, <2>2, <2>3 DEF Range
  <1>6. ASSUME NEW k \in 1..Len(t), NEW m \in 1..Len(t), k < m
        PROVE  t[k] < t[m]
    <2>1. k \in 1..n
      BY <1>1, <1>2, <1>6
    <2>2. CASE m \in 1..n
      <3>1. s[k] < s[m]
        BY <1>6, <2>1, <2>2 DEF IsPool
      <3> QED BY <1>2, <2>1, <2>2, <3>1
    <2>3. CASE m = n + 1
      BY <1>2, <2>1, <2>3
    <2> QED BY <1>1, <1>2, <2>2, <2>3
  <1>7. ASSUME NEW k \in 1..Len(t)
        PROVE  k <= t[k] + 1
    <2>1. CASE k \in 1..n
      BY <1>2, <2>1 DEF IsPool
    <2>2. CASE k = n + 1
      BY <1>1, <1>2, <1>4, <2>2
    <2> QED BY <1>1, <1>2, <2>1, <2>2
  <1> QED BY <1>1, <1>2, <1>4, <1>5, <1>6, <1>7 DEF IsPool

(* The empty pool.                                                         *)
LEMMA EmptyPool == IsPool(<<>>) /\ Range(<<>>) = {} /\ Len(<<>>) = 0
  BY DEF IsPool, Range

(* The loop skips exactly the addresses of the block that are not usable.  *)
LEMMA SkippedNotUsable ==
  ASSUME BlockOK, NEW a \in Nat, networkInt <= a, a < networkInt + HostCount
  PROVE  /\ a \in Addresses
         /\ Skipped(a) <=> a \notin Usable
  <1>1. /\ HostCount \in Nat /\ HostCount > 0 /\ 2^Width \in Nat
        /\ networkInt \in Nat /\ networkInt + HostCount <= 2^Width
    BY BlockBounds
  <1>2. a \in Addresses
    BY <1>1 DEF Addresses
  <1>3. broadcastInt = networkInt + HostCount - 1
    BY DEF broadcastInt, HostCount
  <1>4. a <= broadcastInt
    BY <1>1, <1>3
  <1> QED BY <1>2, <1>4 DEF Skipped, Usable, excludeNetBroadcast

(* The usable addresses below the next one.                                *)
LEMMA UsableNext ==
  ASSUME NEW a \in Nat
  PROVE  UsableBelow(a + 1) = IF a \in Usable THEN UsableBelow(a) \cup {a} ELSE UsableBelow(a)
  <1>1. ASSUME NEW x \in Usable
        PROVE  x < a + 1 <=> x < a \/ x = a
    <2>1. x \in Nat
      BY LeadingNone DEF Usable
    <2> QED BY <2>1
  <1> QED BY <1>1 DEF UsableBelow

(* Appending the last octet of an address above those of U adds it to the  *)
(* pools; MaxPool cuts nothing off.                                        *)
LEMMA AddAddress ==
  ASSUME NEW r, NEW U \in SUBSET Addresses, PoolsOf(r, U),
         NEW a \in Addresses, \A x \in U : x < a
  PROVE  PoolsOf(AppendOctet(r, NetworkKey(a), LastOctet(a)), U \cup {a})
  <1> DEFINE key == NetworkKey(a)
             o == LastOctet(a)
             p == Pool(r, key)
             t == AppendOctet(r, key, o)
             W == U \cup {a}
             In(V, k) == {LastOctet(x) : x \in {y \in V : NetworkKey(y) = k}}
  <1>1. DOMAIN r = {NetworkKey(x) : x \in U}
    BY DEF PoolsOf
  <1>2. \A k \in DOMAIN r : IsPool(r[k]) /\ Range(r[k]) = In(U, k)
    BY DEF PoolsOf
  <1>3. o \in Nat /\ o < 2^OctetBits
    BY LastOctetType
  <1>4. IsPool(p) /\ Range(p) = In(U, key)
    <2>1. CASE key \in DOMAIN r
      <3>1. p = r[key]
        BY <2>1 DEF Pool
      <3> QED BY <1>2, <2>1, <3>1
    <2>2. CASE key \notin DOMAIN r
      <3>1. p = <<>>
        BY <2>2 DEF Pool
      <3>2. In(U, key) = {}
        BY <1>1, <2>2
      <3> QED BY <3>1, <3>2, EmptyPool
    <2> QED BY <2>1, <2>2
  <1>5. ASSUME NEW k \in 1..Len(p)
        PROVE  p[k] < o
    <2>1. DOMAIN p = 1..Len(p)
      BY <1>4 DEF IsPool
    <2>2. p[k] \in Range(p)
      BY <2>1 DEF Range
    <2>3. PICK x \in U : NetworkKey(x) = key /\ p[k] = LastOctet(x)
      BY <1>4, <2>2
    <2>4. x \in Addresses /\ x < a
      BY <2>3
    <2> QED BY <2>3, <2>4, LastOctetOrder
  <1> DEFINE s == Append(p, o)
  <1>6. IsPool(s) /\ Range(s) = Range(p) \cup {o} /\ Len(p) \in Nat /\ Len(p) <= o
    BY <1>3, <1>4, <1>5, AppendToPool
  <1>7. Len(p) < MaxPool
    <2>1. MaxPool \in Nat /\ MaxPool > 2^OctetBits /\ 2^OctetBits \in Nat
      BY WidthAssumption, PowerPositive
    <2> QED BY <2>1, <1>3, <1>6
  <1>8. In(W, key) = In(U, key) \cup {o}
    OBVIOUS
  <1>9. \A k : k # key => In(W, k) = In(U, k)
    OBVIOUS
  <1>10. {NetworkKey(x) : x \in W} = DOMAIN r \cup {key}
    BY <1>1
  <1>11. DOMAIN t = DOMAIN r \cup {key}
    BY DEF AppendOctet
  <1>12. t[key] = s
    BY <1>7 DEF AppendOctet
  <1>13. ASSUME NEW k \in DOMAIN r, k # key
         PROVE  t[k] = r[k]
    BY <1>13 DEF AppendOctet, Pool
  <1> HIDE DEF key, o, p, t, s, In
  <1>14. ASSUME NEW k \in DOMAIN t
         PROVE  IsPool(t[k]) /\ Range(t[k]) = In(W, k)
    <2>1. CASE k = key
      BY <2>1, <1>4, <1>6, <1>8, <1>12
    <2>2. CASE k # key
      <3>1. k \in DOMAIN r
        BY <2>2, <1>11
      <3> QED BY <2>2, <3>1, <1>2, <1>9, <1>13
    <2> QED BY <2>1, <2>2
  <1>15. PoolsOf(t, W)
    <2>1. \A k \in DOMAIN t : IsPool(t[k]) /\ Range(t[k]) = {LastOctet(x) : x \in {y \in W : NetworkKey(y) = k}}
      BY <1>14 DEF In
    <2> HIDE DEF W
    <2>2. DOMAIN t = {NetworkKey(x) : x \in W}
      BY <1>10, <1>11 DEF W
    <2> QED BY <2>1, <2>2 DEF PoolsOf
  <1> QED BY <1>15 DEF t, key, o, W

(* No pools for no addresses.                                              *)
LEMMA NoPools == PoolsOf(<<>>, {})
  BY DEF PoolsOf

(* What an iteration does to the pools and the counter.                    *)
LEMMA IterateVisits ==
  ASSUME BlockOK, maskLen # 0, NEW v \in 0..HostCount, Visited(v), Iterate
  PROVE  /\ v + 1 \in 0..HostCount
         /\ current' = IF networkInt + (v + 1) = 2^Width THEN 0 ELSE networkInt + (v + 1)
         /\ PoolsOf(result', UsableBelow(networkInt + (v + 1)))
  <1> DEFINE a == networkInt + v
  <1>1. /\ HostCount \in Nat /\ 2^Width \in Nat /\ 2^Width > 0
        /\ networkInt \in Nat /\ networkInt + HostCount <= 2^Width
        /\ HostCount < 2^Width
    BY BlockBounds
  <1>2. v \in Nat /\ v <= HostCount /\ a \in Nat
    BY <1>1
  <1>3. current = IF a = 2^Width THEN 0 ELSE a
    BY DEF Visited
  <1>4. InBlock(current)
    BY DEF Iterate
  <1>5. current \in Nat /\ networkInt <= current /\ current < networkInt + HostCount
    BY <1>1, <1>2, <1>3, <1>4, BlockMembers
  <1>6. current = a /\ v < HostCount
    BY <1>1, <1>2, <1>3, <1>5
  <1>7. current' = (a + 1) % 2^Width
    BY <1>6 DEF Iterate, Increment
  <1>8. (a + 1) % 2^Width = IF a + 1 = 2^Width THEN 0 ELSE a + 1
    BY <1>1, <1>2, <1>6
  <1>9. PoolsOf(result, UsableBelow(a))
    BY DEF Visited
  <1>10. a \in Addresses /\ (Skipped(a) <=> a \notin Usable)
    BY <1>2, <1>5, <1>6, SkippedNotUsable
  <1>11. UsableBelow(a + 1) = IF a \in Usable THEN UsableBelow(a) \cup {a} ELSE UsableBelow(a)
    BY <1>2, UsableNext
  <1>12. result' = IF Skipped(a) THEN result ELSE AppendOctet(result, NetworkKey(a), LastOctet(a))
    BY <1>6 DEF Iterate
  <1>13. UsableBelow(a) \in SUBSET Addresses /\ \A x \in UsableBelow(a) : x < a
    BY DEF UsableBelow, Usable
  <1> HIDE DEF a
  <1>14. PoolsOf(AppendOctet(result, NetworkKey(a), LastOctet(a)), UsableBelow(a) \cup {a})
    BY <1>9, <1>10, <1>13, AddAddress
  <1>15. PoolsOf(result', UsableBelow(a + 1))
    BY <1>9, <1>10, <1>11, <1>12, <1>14
  <1>16. networkInt + (v + 1) = a + 1
    BY <1>1, <1>2 DEF a
  <1> QED BY <1>1, <1>2, <1>6, <1>7, <1>8, <1>15, <1>16

(* Every usable address lies below the end of the block, none before it.   *)
LEMMA UsableInBlock ==
  ASSUME BlockOK
  PROVE  /\ UsableBelow(networkInt + HostCount) = Usable
         /\ UsableBelow(networkInt) = {}
  <1>1. HostCount \in Nat /\ networkInt \in Nat
    BY BlockBounds
  <1>2. broadcastInt = networkInt + HostCount - 1
    BY DEF broadcastInt, HostCount
  <1>3. ASSUME NEW x \in Usable
        PROVE  x < networkInt + HostCount /\ ~(x < networkInt)
    <2>1. x \in Nat
      BY LeadingNone DEF Usable
    <2>2. x >= networkInt /\ x <= broadcastInt
      BY DEF Usable
    <2> QED BY <1>1, <1>2, <2>1, <2>2
  <1> QED BY <1>3 DEF UsableBelow

(* The loop is left when the whole block has been visited.                 *)
LEMMA LeaveAtEnd ==
  ASSUME BlockOK, maskLen # 0, NEW v \in 0..HostCount, Visited(v), Leave
  PROVE  PoolsOf(result, Usable)
  <1> DEFINE a == networkInt + v
  <1>1. /\ HostCount \in Nat /\ 2^Width \in Nat /\ 2^Width > 0
        /\ networkInt \in Nat /\ networkInt + HostCount <= 2^Width
    BY BlockBounds
  <1>2. v \in Nat /\ v <= HostCount /\ a \in Nat
    BY <1>1
  <1>3. current = IF a = 2^Width THEN 0 ELSE a
    BY DEF Visited
  <1>4. ~InBlock(current)
    BY DEF Leave
  <1>5. current \in Nat /\ ~(networkInt <= current /\ current < networkInt + HostCount)
    BY <1>1, <1>2, <1>3, <1>4, BlockMembers
  <1>6. v = HostCount
    BY <1>1, <1>2, <1>3, <1>5
  <1> QED BY <1>6, UsableInBlock DEF Visited

(* The loop of the block of all addresses is never left: every counter     *)
(* value lies in it.                                                       *)
LEMMA AllAddressesInBlock ==
  ASSUME BlockOK, maskLen = 0, NEW a \in Addresses
  PROVE  InBlock(a) /\ Increment(a) \in Addresses
  <1>1. /\ HostCount \in Nat /\ 2^Width \in Nat /\ 2^Width > 0
        /\ networkInt \in Nat /\ networkInt + HostCount <= 2^Width
    BY BlockBounds
  <1>2. HostCount = 2^Width
    <2>1. Width - 0 = Width
      BY WidthAssumption
    <2> QED BY <2>1 DEF HostCount, HostBits
  <1>3. a \in Nat /\ a < 2^Width
    BY <1>1 DEF Addresses
  <1>4. InBlock(a)
    BY <1>1, <1>2, <1>3, BlockMembers
  <1>5. (a + 1) % 2^Width \in 0..(2^Width - 1)
    BY <1>1, <1>3
  <1> QED BY <1>4, <1>5 DEF Increment, Addresses

(* A step that leaves the block alone leaves what is derived from it alone. *)
LEMMA SameBlock ==
  ASSUME UNCHANGED blockVars
  PROVE  /\ BlockOK' <=> BlockOK
         /\ networkInt' = networkInt
         /\ HostCount' = HostCount
         /\ Usable' = Usable
         /\ \A n : UsableBelow(n)' = UsableBelow(n)
  <1>1. HostBits' = HostBits
    BY DEF blockVars, HostBits
  <1>2. networkInt' = networkInt /\ HostCount' = HostCount
    BY <1>1 DEF blockVars, networkInt, HostCount
  <1>3. broadcastInt' = broadcastInt
    BY <1>1, <1>2 DEF broadcastInt
  <1>4. Usable' = Usable
    BY <1>1, <1>2, <1>3 DEF Usable, blockVars
  <1> QED BY <1>2, <1>4 DEF BlockOK, blockVars, UsableBelow

(* The loop starts with nothing visited.                                   *)
LEMMA LoopInvInit == Init => LoopInv
  <1> SUFFICES ASSUME Init PROVE LoopInv
    OBVIOUS
  <1>1. BlockOK
    BY DEF Init, BlockOK
  <1>2. state = "loop" /\ current = networkInt /\ result = <<>>
    BY DEF Init
  <1>3. /\ HostCount \in Nat /\ HostCount > 0 /\ 2^Width \in Nat
        /\ networkInt \in Nat /\ networkInt + HostCount <= 2^Width
    BY <1>1, BlockBounds
  <1>4. networkInt + 0 = networkInt /\ networkInt # 2^Width
    BY <1>3
  <1>5. Visited(0)
    <2>1. UsableBelow(networkInt + 0) = {}
      BY <1>1, <1>4, UsableInBlock
    <2>2. PoolsOf(result, UsableBelow(networkInt + 0))
      BY <1>2, <2>1, NoPools
    <2>3. current = IF networkInt + 0 = 2^Width THEN 0 ELSE networkInt + 0
      BY <1>2, <1>4
    <2> QED BY <2>2, <2>3 DEF Visited
  <1>6. 0 \in 0..HostCount
    BY <1>3
  <1>7. current \in Addresses
    BY <1>2, <1>3 DEF Addresses
  <1> QED BY <1>1, <1>2, <1>5, <1>6, <1>7 DEF LoopInv

(* Every step of the expansion and of the sort keeps the invariant.        *)
LEMMA LoopInvStep == LoopInv /\ [Next]_vars => LoopInv'
  <1> SUFFICES ASSUME LoopInv, [Next]_vars PROVE LoopInv'
    OBVIOUS
  <1>1. UNCHANGED blockVars
    BY DEF Next, vars, Iterate, Leave, StartSort, Exchange, NextRow, Returned
  <1>2. /\ BlockOK /\ BlockOK'
        /\ networkInt' = networkInt /\ HostCount' = HostCount /\ Usable' = Usable
        /\ \A n : UsableBelow(n)' = UsableBelow(n)
    BY <1>1, SameBlock DEF LoopInv
  <1>3. maskLen' = maskLen
    BY <1>1 DEF blockVars
  <1>4. CASE Iterate
    <2>1. state = "loop" /\ state' = "loop"
      BY <1>4 DEF Iterate
    <2>2. maskLen = 0 => current' \in Addresses
      <3>1. SUFFICES ASSUME maskLen = 0 PROVE current' \in Addresses
        OBVIOUS
      <3>2. current \in Addresses
        BY <3>1 DEF LoopInv
      <3>3. current' = Increment(current)
        BY <1>4 DEF Iterate
      <3> QED BY <1>2, <3>1, <3>2, <3>3, AllAddressesInBlock
    <2>3. maskLen # 0 => (\E v \in 0..HostCount : Visited(v))'
      <3>1. SUFFICES ASSUME maskLen # 0 PROVE (\E v \in 0..HostCount : Visited(v))'
        OBVIOUS
      <3>2. PICK v \in 0..HostCount : Visited(v)
        BY <2>1, <3>1 DEF LoopInv
      <3>3. /\ v + 1 \in 0..HostCount
            /\ current' = IF networkInt + (v + 1) = 2^Width THEN 0 ELSE networkInt + (v + 1)
            /\ PoolsOf(result', UsableBelow(networkInt + (v + 1)))
        BY <1>2, <1>4, <3>1, <3>2, IterateVisits
      <3>4. Visited(v + 1)'
        BY <1>2, <3>3 DEF Visited, UsableBelow
      <3> QED BY <1>2, <3>3, <3>4
    <2> QED BY <1>2, <1>3, <2>1, <2>2, <2>3 DEF LoopInv
  <1>5. CASE Leave
    <2>1. state = "loop" /\ state' = (IF DOMAIN result = {} THEN "error" ELSE "done") /\ result' = result
      BY <1>5 DEF Leave
    <2>2. maskLen # 0
      <3>1. SUFFICES ASSUME maskLen = 0 PROVE FALSE
        OBVIOUS
      <3>2. current \in Addresses
        BY <3>1 DEF LoopInv
      <3> QED BY <1>2, <1>5, <3>1, <3>2, AllAddressesInBlock DEF Leave
    <2>3. PICK v \in 0..HostCount : Visited(v)
      BY <2>1, <2>2 DEF LoopInv
    <2>4. PoolsOf(result, Usable)
      BY <1>2, <1>5, <2>2, <2>3, LeaveAtEnd
    <2>5. PoolsOf(result', Usable')
      BY <1>2, <2>1, <2>4
    <2> QED BY <1>2, <1>3, <2>1, <2>2, <2>5 DEF LoopInv
  <1>6. CASE StartSort \/ Exchange \/ NextRow
    <2>1. state \in {"done", "sort"} /\ state' \in {"sort", "sorted"} /\ result' = result
      BY <1>6 DEF StartSort, Exchange, NextRow
    <2>2. maskLen # 0 /\ PoolsOf(result, Usable)
      BY <2>1 DEF LoopInv
    <2>3. PoolsOf(result', Usable')
      BY <1>2, <2>1, <2>2
    <2> QED BY <1>2, <1>3, <2>1, <2>2, <2>3 DEF LoopInv
  <1>7. CASE Returned \/ UNCHANGED vars
    <2>1. state' = state /\ result' = result /\ current' = current
      BY <1>7 DEF Returned, vars
    <2>2. \A v : Visited(v)' <=> Visited(v)
      BY <1>2, <2>1 DEF Visited, UsableBelow
    <2>3. (\E v \in 0..HostCount : Visited(v))' <=> (\E v \in 0..HostCount : Visited(v))
      BY <1>2, <2>2
    <2>4. state # "loop" => PoolsOf(result', Usable')
      BY <1>2, <2>1 DEF LoopInv
    <2> QED BY <1>2, <1>3, <2>1, <2>3, <2>4 DEF LoopInv
  <1> QED BY <1>4, <1>5, <1>6, <1>7 DEF Next

(* The invariant says what CIDRToNetworks promises.                        *)
LEMMA LoopInvPools == LoopInv => PoolsAreUsable
  <1> SUFFICES ASSUME LoopInv PROVE PoolsAreUsable
    OBVIOUS
  <1>1. ASSUME state = "done"
        PROVE  /\ DOMAIN result = {NetworkKey(a) : a \in Usable}
               /\ \A key \in DOMAIN result :
                    /\ Ascending(result[key])
                    /\ Range(result[key]) =
                         {LastOctet(a) : a \in {x \in Usable : NetworkKey(x) = key}}
    <2>1. PoolsOf(result, Usable)
      BY <1>1 DEF LoopInv
    <2>2. ASSUME NEW s, IsPool(s)
          PROVE  Ascending(s)
      <3>1. Len(s) \in Nat /\ \A k, m \in 1..Len(s) : k < m => s[k] < s[m]
        BY <2>2 DEF IsPool
      <3>2. \A k \in 1..(Len(s) - 1) : k \in 1..Len(s) /\ k + 1 \in 1..Len(s) /\ k < k + 1
        BY <3>1
      <3> QED BY <3>1, <3>2 DEF Ascending
    <2> QED BY <2>1, <2>2 DEF PoolsOf
  <1>2. ASSUME state = "error"
        PROVE  Usable = {}
    <2>1. PoolsOf(result, Usable) /\ DOMAIN result = {}
      BY <1>2 DEF LoopInv
    <2> QED BY <2>1 DEF PoolsOf
  <1> QED BY <1>1, <1>2 DEF PoolsAreUsable

(* CIDRToNetworks (internal/cidr.go) returns every usable address of the   *)
(* block exactly once, in ascending pools, for every width, block and      *)
(* reserved set, also where the uint32 counter wraps around.               *)
THEOREM PoolsAlwaysUsable == Spec => []PoolsAreUsable
  <1>1. Spec => []LoopInv
    BY LoopInvInit, LoopInvStep, PTL DEF Spec
  <1> QED BY <1>1, LoopInvPools, PTL

(* The block of all addresses: the counter wraps into the block again and  *)
(* CIDRToNetworks never returns (the safety half of TerminatesButForAll).  *)
THEOREM AllAddressesNeverReturns == Spec /\ maskLen = 0 => [](state = "loop")
  <1>1. Init /\ maskLen = 0 => LoopInv /\ maskLen = 0
    BY LoopInvInit
  <1>2. LoopInv /\ maskLen = 0 /\ [Next]_vars => (LoopInv /\ maskLen = 0)'
    <2> SUFFICES ASSUME LoopInv, maskLen = 0, [Next]_vars PROVE (LoopInv /\ maskLen = 0)'
      OBVIOUS
    <2>1. maskLen' = maskLen
      BY DEF Next, vars, blockVars, Iterate, Leave, StartSort, Exchange, NextRow, Returned
    <2> QED BY <2>1, LoopInvStep
  <1>3. LoopInv /\ maskLen = 0 => state = "loop"
    BY DEF LoopInv
  <1> QED BY <1>1, <1>2, <1>3, PTL DEF Spec

-----------------------------------------------------------------------------
(* CIDRToIPList.  The order of the keys is the order of the numbers their  *)
(* octets write.                                                           *)

(* The octets of a key are digits of the address without its last octet.   *)
LEMMA LeadingOfPrefix ==
  ASSUME NEW a \in Addresses, Octets > 0, NEW k \in 0..KeyOctets
  PROVE  /\ Width - k * OctetBits - OctetBits \in Nat
         /\ Leading(a, k) = (a \div 2^OctetBits) \div 2^(Width - k * OctetBits - OctetBits)
  <1> DEFINE e == Width - k * OctetBits - OctetBits
  <1>1. OctetBits \in Nat /\ OctetBits > 0 /\ Width \in Nat /\ Octets \in Nat
    BY WidthAssumption, WholeOctets
  <1>2. KeyOctets = Octets - 1
    BY LeadingKey
  <1>3. k + 1 \in 0..Octets /\ k \in Nat
    BY <1>1, <1>2
  <1>4. Width - (k + 1) * OctetBits \in Nat
    BY <1>3, WholeOctets
  <1>5. e = Width - (k + 1) * OctetBits /\ Width - k * OctetBits = OctetBits + e
    BY <1>1, <1>3
  <1>6. e \in Nat
    BY <1>4, <1>5
  <1>7. 2^(OctetBits + e) = 2^OctetBits * 2^e
    BY <1>1, <1>6, PowerSum
  <1>8. 2^OctetBits \in Nat /\ 2^OctetBits > 0 /\ 2^e \in Nat /\ 2^e > 0 /\ a \in Nat
    BY <1>1, <1>6, PowerPositive, LeadingNone
  <1> HIDE DEF e
  <1>9. (a \div 2^OctetBits) \div 2^e = a \div (2^OctetBits * 2^e)
    BY <1>8, DivDiv
  <1>10. Leading(a, k) = (a \div 2^OctetBits) \div 2^e
    BY <1>5, <1>7, <1>9 DEF Leading
  <1> QED BY <1>6, <1>10 DEF e

(* Addresses that agree but for the last octet have the same key.          *)
LEMMA SamePrefix ==
  ASSUME NEW a \in Addresses, NEW b \in Addresses, a \div 2^OctetBits = b \div 2^OctetBits
  PROVE  NetworkKey(a) = NetworkKey(b)
  <1>1. CASE Octets > 0
    <2>1. ASSUME NEW k \in 1..KeyOctets
          PROVE  Octet(a, k) = Octet(b, k)
      <3>1. k \in 0..KeyOctets
        BY <1>1, LeadingKey
      <3>2. Leading(a, k) = Leading(b, k)
        BY <1>1, <3>1, LeadingOfPrefix
      <3> QED BY <3>2 DEF Octet, Leading
    <2> QED BY <2>1 DEF NetworkKey
  <1>2. CASE ~(Octets > 0)
    BY <1>2, NoOctets
  <1> QED BY <1>1, <1>2

(* A key whose first different octet is larger writes a larger number.     *)
LEMMA KeyGreaterIsLarger ==
  ASSUME NEW a \in Addresses, NEW b \in Addresses,
         KeyGreater(NetworkKey(a), NetworkKey(b))
  PROVE  a \div 2^OctetBits > b \div 2^OctetBits
  <1>1. PICK k \in 1..KeyOctets : /\ NetworkKey(a)[k] > NetworkKey(b)[k]
                                  /\ \A m \in 1..(k - 1) : NetworkKey(a)[m] = NetworkKey(b)[m]
    BY DEF KeyGreater
  <1>2. Octets \in Nat /\ KeyOctets = Octets - 1
    BY WholeOctets DEF KeyOctets, Octets
  <1>3. k \in Nat /\ k >= 1 /\ k <= KeyOctets
    BY <1>1, <1>2
  <1>4. Octets > 0
    BY <1>2, <1>3
  <1>5. \A m \in 1..KeyOctets : NetworkKey(a)[m] = Octet(a, m) /\ NetworkKey(b)[m] = Octet(b, m)
    BY DEF NetworkKey
  <1>6. \A m \in 1..(k - 1) : m \in 1..KeyOctets
    BY <1>2, <1>3
  <1>7. Octet(a, k) > Octet(b, k) /\ \A m \in 1..(k - 1) : Octet(a, m) = Octet(b, m)
    BY <1>1, <1>5, <1>6
  <1>8. k - 1 \in 0..Octets /\ k \in 1..Octets /\ k \in 0..KeyOctets
    BY <1>2, <1>3
  <1>9. Leading(a, k - 1) = Leading(b, k - 1)
    BY <1>7, <1>8, SameOctets
  <1>10. a \in Nat /\ b \in Nat /\ 2^OctetBits \in Nat
    BY LeadingNone, WidthAssumption, PowerPositive
  <1>11. /\ Leading(a, k) \in Nat /\ Leading(a, k - 1) \in Nat /\ Octet(a, k) \in Nat
         /\ Leading(a, k) = 2^OctetBits * Leading(a, k - 1) + Octet(a, k)
    BY <1>8, <1>10, NextOctet
  <1>12. /\ Leading(b, k) \in Nat /\ Octet(b, k) \in Nat
         /\ Leading(b, k) = 2^OctetBits * Leading(b, k - 1) + Octet(b, k)
    BY <1>8, <1>10, NextOctet
  <1>13. 2^OctetBits * Leading(a, k - 1) \in Nat
    BY <1>10, <1>11
  <1>14. Leading(b, k) < Leading(a, k)
    BY <1>7, <1>9, <1>11, <1>12, <1>13
  <1> DEFINE e == Width - k * OctetBits - OctetBits
  <1>15. e \in Nat /\ Leading(a, k) = (a \div 2^OctetBits) \div 2^e
    BY <1>4, <1>8, LeadingOfPrefix
  <1>16. Leading(b, k) = (b \div 2^OctetBits) \div 2^e
    BY <1>4, <1>8, LeadingOfPrefix
  <1>17. 2^e \in Nat /\ 2^e > 0
    BY <1>15, PowerPositive
  <1>18. a \div 2^OctetBits \in Nat /\ b \div 2^OctetBits \in Nat
    BY LastOctetType
  <1> HIDE DEF e
  <1>19. b \div 2^OctetBits < a \div 2^OctetBits
    BY <1>14, <1>15, <1>16, <1>17, <1>18, DivOrder
  <1> QED BY <1>18, <1>19

(* compareNetworkKeys orders the keys as the numbers they write.           *)
LEMMA KeyOrder ==
  ASSUME NEW a \in Addresses, NEW b \in Addresses
  PROVE  KeyGreater(NetworkKey(a), NetworkKey(b)) <=> a \div 2^OctetBits > b \div 2^OctetBits
  <1> DEFINE ka == NetworkKey(a)
             kb == NetworkKey(b)
             S == {k \in 1..KeyOctets : ka[k] # kb[k]}
  <1>1. SUFFICES ASSUME a \div 2^OctetBits > b \div 2^OctetBits PROVE KeyGreater(ka, kb)
    BY KeyGreaterIsLarger
  <1>2. a \div 2^OctetBits \in Nat /\ b \div 2^OctetBits \in Nat
    BY LastOctetType
  <1>3. ka # kb
    BY <1>1, <1>2, SameNetwork
  <1>4. S # {}
    <2>1. SUFFICES ASSUME S = {} PROVE FALSE
      OBVIOUS
    <2>2. \A k \in 1..KeyOctets : ka[k] = kb[k]
      BY <2>1
    <2>3. ka = [k \in 1..KeyOctets |-> ka[k]] /\ kb = [k \in 1..KeyOctets |-> kb[k]]
      BY DEF NetworkKey
    <2> HIDE DEF ka, kb
    <2> QED BY <1>3, <2>2, <2>3
  <1>5. KeyOctets \in Int /\ Octets \in Nat /\ KeyOctets = Octets - 1
    BY WholeOctets DEF KeyOctets, Octets
  <1>6. S \in SUBSET Nat
    BY <1>5
  <1>7. PICK k \in S : \A y \in S : k <= y
    BY <1>4, <1>6, LeastElement
  <1>8. k \in 1..KeyOctets /\ ka[k] # kb[k] /\ k \in Nat
    BY <1>6, <1>7
  <1>9. \A m \in 1..(k - 1) : ka[m] = kb[m]
    <2>1. ASSUME NEW m \in 1..(k - 1) PROVE ka[m] = kb[m]
      <3>1. m \in 1..KeyOctets /\ ~(k <= m)
        BY <1>5, <1>8
      <3> QED BY <1>7, <3>1
    <2> QED BY <2>1
  <1>10. ka[k] \in Nat /\ kb[k] \in Nat
    <2>1. k \in 1..Octets /\ a \in Nat /\ b \in Nat
      BY <1>5, <1>8, LeadingNone
    <2>2. Octet(a, k) \in Nat /\ Octet(b, k) \in Nat
      BY <2>1, NextOctet
    <2> QED BY <1>8, <2>2 DEF NetworkKey
  <1>11. CASE ka[k] > kb[k]
    BY <1>8, <1>9, <1>11 DEF KeyGreater
  <1>12. CASE kb[k] > ka[k]
    <2>1. KeyGreater(kb, ka)
      BY <1>8, <1>9, <1>12 DEF KeyGreater
    <2>2. b \div 2^OctetBits > a \div 2^OctetBits
      BY <2>1, KeyGreaterIsLarger
    <2> QED BY <1>1, <1>2, <2>2
  <1> QED BY <1>8, <1>10, <1>11, <1>12

AllKeys == {NetworkKey(a) : a \in Addresses}

(* The number that the octets of a key write.                              *)
KeyNumber(key) == (CHOOSE a \in Addresses : NetworkKey(a) = key) \div 2^OctetBits

(* The number of a key is that of each of its addresses.                   *)
LEMMA KeyNumberOf ==
  ASSUME NEW a \in Addresses
  PROVE  KeyNumber(NetworkKey(a)) = a \div 2^OctetBits
  <1> DEFINE c == CHOOSE x \in Addresses : NetworkKey(x) = NetworkKey(a)
  <1>1. c \in Addresses /\ NetworkKey(c) = NetworkKey(a)
    OBVIOUS
  <1>2. KeyNumber(NetworkKey(a)) = c \div 2^OctetBits
    BY DEF KeyNumber
  <1> HIDE DEF c
  <1> QED BY <1>1, <1>2, SameNetwork

(* The keys are linearly ordered by compareNetworkKeys.                    *)
LEMMA KeysOrdered ==
  ASSUME NEW x \in AllKeys, NEW y \in AllKeys
  PROVE  /\ KeyNumber(x) \in Nat /\ KeyNumber(y) \in Nat
         /\ KeyGreater(x, y) <=> KeyNumber(x) > KeyNumber(y)
         /\ KeyNumber(x) = KeyNumber(y) => x = y
  <1>1. PICK a \in Addresses : x = NetworkKey(a)
    BY DEF AllKeys
  <1>2. PICK b \in Addresses : y = NetworkKey(b)
    BY DEF AllKeys
  <1>3. KeyNumber(x) = a \div 2^OctetBits /\ KeyNumber(y) = b \div 2^OctetBits
    BY <1>1, <1>2, KeyNumberOf
  <1>4. a \div 2^OctetBits \in Nat /\ b \div 2^OctetBits \in Nat
    BY LastOctetType
  <1>5. KeyGreater(x, y) <=> a \div 2^OctetBits > b \div 2^OctetBits
    BY <1>1, <1>2, KeyOrder
  <1>6. a \div 2^OctetBits = b \div 2^OctetBits => x = y
    BY <1>1, <1>2, SamePrefix
  <1> QED BY <1>3, <1>4, <1>5, <1>6

(* s lists the keys of the set K, each once.                               *)
ListsKeys(s, K) ==
  /\ s \in [1..Len(s) -> AllKeys]
  /\ Len(s) \in Nat
  /\ Range(s) = K
  /\ \A p, q \in 1..Len(s) : p # q => s[p] # s[q]

(* Positions p and q of s are in order.                                    *)
InOrder(s, p, q) == KeyNumber(s[p]) < KeyNumber(s[q])

(* The rows before i are final, and in row i the columns before j are done. *)
SortedUpTo(s, m, n) ==
  /\ m \in 1..Len(s)
  /\ n \in (m + 1)..(Len(s) + 1)
  /\ \A p, q \in 1..Len(s) : p < m /\ p < q => InOrder(s, p, q)
  /\ \A q \in 1..Len(s) : m < q /\ q < n => InOrder(s, m, q)

SortInv ==
  /\ LoopInv
  /\ state = "done" => DOMAIN result # {}
  /\ state \in {"sort", "sorted"} => ListsKeys(keys, DOMAIN result)
  /\ state = "sort" => SortedUpTo(keys, i, j)
  /\ state = "sorted" => \A p, q \in 1..Len(keys) : p < q => InOrder(keys, p, q)

(* Exchanging two keys keeps the list of the keys.                         *)
LEMMA ExchangeLists ==
  ASSUME NEW s, NEW K, ListsKeys(s, K), NEW m \in 1..Len(s), NEW n \in 1..Len(s), m # n,
         NEW t \in [1..Len(s) -> AllKeys], t[m] = s[n], t[n] = s[m],
         \A q \in 1..Len(s) : q # m /\ q # n => t[q] = s[q]
  PROVE  ListsKeys(t, K) /\ Len(t) = Len(s)
  <1> DEFINE D == 1..Len(s)
  <1>1. s \in [D -> AllKeys] /\ Len(s) \in Nat
    BY DEF ListsKeys
  <1>2. /\ t \in [D -> AllKeys] /\ t[m] = s[n] /\ t[n] = s[m]
        /\ \A q \in D : q # m /\ q # n => t[q] = s[q]
    OBVIOUS
  <1>3. Len(t) = Len(s)
    BY <1>1, <1>2
  <1> HIDE DEF D
  <1>4. Range(t) = Range(s)
    <2>1. DOMAIN t = D /\ DOMAIN s = D /\ m \in D /\ n \in D
      BY <1>1, <1>2 DEF D
    <2>2. ASSUME NEW x \in Range(t) PROVE x \in Range(s)
      BY <1>2, <2>1 DEF Range
    <2>3. ASSUME NEW x \in Range(s) PROVE x \in Range(t)
      <3>1. PICK q \in D : x = s[q]
        BY <2>1 DEF Range
      <3>2. t[m] \in Range(t) /\ t[n] \in Range(t) /\ t[q] \in Range(t)
        BY <2>1 DEF Range
      <3> QED BY <1>2, <3>1, <3>2
    <2> QED BY <2>2, <2>3
  <1>5. ASSUME NEW p \in D, NEW q \in D, p # q
        PROVE  t[p] # t[q]
    <2>1. \A x, y \in D : x # y => s[x] # s[y]
      BY DEF ListsKeys, D
    <2>2. m \in D /\ n \in D
      BY DEF D
    <2> QED BY <1>2, <1>5, <2>1, <2>2
  <1> QED BY <1>1, <1>2, <1>3, <1>4, <1>5 DEF ListsKeys, D

(* One comparison: position j is put in order with row i.                  *)
LEMMA ExchangeSorts ==
  ASSUME NEW s, NEW K, ListsKeys(s, K), NEW m, NEW n, SortedUpTo(s, m, n), n <= Len(s),
         NEW t, t = IF KeyGreater(s[m], s[n]) THEN [s EXCEPT ![m] = s[n], ![n] = s[m]] ELSE s
  PROVE  ListsKeys(t, K) /\ SortedUpTo(t, m, n + 1)
  <1>1. /\ Len(s) \in Nat /\ m \in 1..Len(s) /\ n \in 1..Len(s)
        /\ m < n /\ m # n /\ m \in Nat /\ n \in Nat
        /\ s \in [1..Len(s) -> AllKeys]
    BY DEF ListsKeys, SortedUpTo
  <1>2. /\ \A p, q \in 1..Len(s) : p < m /\ p < q => InOrder(s, p, q)
        /\ \A q \in 1..Len(s) : m < q /\ q < n => InOrder(s, m, q)
    BY DEF SortedUpTo
  <1>3. \A p \in 1..Len(s) : s[p] \in AllKeys /\ KeyNumber(s[p]) \in Nat
    BY <1>1, KeysOrdered
  <1>4. KeyGreater(s[m], s[n]) <=> KeyNumber(s[m]) > KeyNumber(s[n])
    BY <1>1, <1>3, KeysOrdered
  <1>5. KeyNumber(s[m]) # KeyNumber(s[n])
    <2>1. s[m] # s[n]
      BY <1>1 DEF ListsKeys
    <2> QED BY <2>1, <1>1, <1>3, KeysOrdered
  <1>6. CASE KeyGreater(s[m], s[n])
    <2>1. t = [s EXCEPT ![m] = s[n], ![n] = s[m]]
      BY <1>6
    <2>2. /\ ListsKeys(t, K) /\ Len(t) = Len(s)
          /\ t[m] = s[n] /\ t[n] = s[m]
          /\ \A q \in 1..Len(s) : q # m /\ q # n => t[q] = s[q]
      <3>1. /\ t \in [1..Len(s) -> AllKeys] /\ t[m] = s[n] /\ t[n] = s[m]
            /\ \A q \in 1..Len(s) : q # m /\ q # n => t[q] = s[q]
        BY <1>1, <2>1
      <3>2. m \in 1..Len(s) /\ n \in 1..Len(s) /\ m # n /\ ListsKeys(s, K)
        BY <1>1
      <3>3. ASSUME NEW u \in [1..Len(s) -> AllKeys], u[m] = s[n], u[n] = s[m],
                   \A q \in 1..Len(s) : q # m /\ q # n => u[q] = s[q]
            PROVE  ListsKeys(u, K) /\ Len(u) = Len(s)
        BY <3>2, <3>3, ExchangeLists
      <3>4. ListsKeys(t, K) /\ Len(t) = Len(s)
        BY <3>1, <3>3
      <3> QED BY <3>1, <3>4
    <2>3. KeyNumber(s[n]) < KeyNumber(s[m])
      BY <1>1, <1>3, <1>4, <1>6
    <2>4. ASSUME NEW p \in 1..Len(t), NEW q \in 1..Len(t), p < m, p < q
          PROVE  InOrder(t, p, q)
      <3>1. t[p] = s[p]
        BY <1>1, <2>2, <2>4
      <3>2. CASE q = m
        BY <1>1, <1>2, <2>2, <2>4, <3>1, <3>2 DEF InOrder
      <3>3. CASE q = n
        BY <1>1, <1>2, <2>2, <2>4, <3>1, <3>3 DEF InOrder
      <3>4. CASE q # m /\ q # n
        BY <1>1, <1>2, <2>2, <2>4, <3>1, <3>4 DEF InOrder
      <3> QED BY <3>2, <3>3, <3>4
    <2>5. ASSUME NEW q \in 1..Len(t), m < q, q < n + 1
          PROVE  InOrder(t, m, q)
      <3>1. CASE q = n
        BY <2>2, <2>3, <3>1 DEF InOrder
      <3>2. CASE q # n
        <4>1. q < n /\ q # m /\ q \in 1..Len(s)
          BY <1>1, <2>2, <2>5, <3>2
        <4>2. t[q] = s[q] /\ KeyNumber(s[m]) < KeyNumber(s[q])
          BY <1>2, <2>2, <2>5, <4>1 DEF InOrder
        <4>3. KeyNumber(s[n]) < KeyNumber(s[q])
          BY <1>1, <1>3, <2>3, <4>1, <4>2
        <4> QED BY <2>2, <4>2, <4>3 DEF InOrder
      <3> QED BY <3>1, <3>2
    <2>6. m \in 1..Len(t) /\ n + 1 \in (m + 1)..(Len(t) + 1)
      BY <1>1, <2>2
    <2> QED BY <2>2, <2>4, <2>5, <2>6 DEF SortedUpTo
  <1>7. CASE ~KeyGreater(s[m], s[n])
    <2>1. t = s
      BY <1>7
    <2>2. KeyNumber(s[m]) < KeyNumber(s[n])
      BY <1>1, <1>3, <1>4, <1>5, <1>7
    <2>3. ASSUME NEW q \in 1..Len(s), m < q, q < n + 1
          PROVE  InOrder(s, m, q)
      <3>1. q < n \/ q = n
        BY <1>1, <2>3
      <3> QED BY <1>2, <2>2, <2>3, <3>1 DEF InOrder
    <2>4. n + 1 \in (m + 1)..(Len(s) + 1)
      BY <1>1
    <2> QED BY <1>1, <1>2, <2>1, <2>3, <2>4 DEF SortedUpTo
  <1> QED BY <1>6, <1>7

(* A finished row is final.                                                *)
LEMMA RowFinal ==
  ASSUME NEW s, NEW K, ListsKeys(s, K), NEW m, NEW n, SortedUpTo(s, m, n), n > Len(s)
  PROVE  /\ m < Len(s) => SortedUpTo(s, m + 1, m + 2)
         /\ ~(m < Len(s)) => \A p, q \in 1..Len(s) : p < q => InOrder(s, p, q)
  <1>1. Len(s) \in Nat /\ m \in 1..Len(s) /\ m \in Nat /\ n = Len(s) + 1
    BY DEF ListsKeys, SortedUpTo
  <1>2. /\ \A p, q \in 1..Len(s) : p < m /\ p < q => InOrder(s, p, q)
        /\ \A q \in 1..Len(s) : m < q /\ q < n => InOrder(s, m, q)
    BY DEF SortedUpTo
  <1>3. ASSUME NEW p \in 1..Len(s), NEW q \in 1..Len(s), p < m + 1, p < q
        PROVE  InOrder(s, p, q)
    <2>1. p < m \/ p = m
      BY <1>1, <1>3
    <2>2. q < n
      BY <1>1
    <2> QED BY <1>2, <1>3, <2>1, <2>2
  <1>4. ASSUME m < Len(s)
        PROVE  SortedUpTo(s, m + 1, m + 2)
    <2>1. m + 1 \in 1..Len(s) /\ m + 2 \in ((m + 1) + 1)..(Len(s) + 1)
      BY <1>1, <1>4
    <2>2. \A q \in 1..Len(s) : m + 1 < q /\ q < m + 2 => InOrder(s, m + 1, q)
      BY <1>1
    <2> QED BY <1>3, <2>1, <2>2 DEF SortedUpTo
  <1>5. ASSUME ~(m < Len(s)), NEW p \in 1..Len(s), NEW q \in 1..Len(s), p < q
        PROVE  InOrder(s, p, q)
    <2>1. p < m + 1
      BY <1>1, <1>5
    <2> QED BY <1>3, <1>5, <2>1
  <1> QED BY <1>4, <1>5

(* The map iteration yields every key once.                                *)
LEMMA StartLists ==
  ASSUME NEW K, IsFiniteSet(K), K \subseteq AllKeys, K # {}, NEW s \in SetToSeqs(K)
  PROVE  ListsKeys(s, K) /\ SortedUpTo(s, 1, 2)
  <1> DEFINE D == 1..Cardinality(K)
  <1>1. Cardinality(K) \in Nat /\ Cardinality(K) # 0
    BY FS_CardinalityType, FS_EmptySet
  <1>2. s \in [D -> K] /\ \A p, q \in D : p # q => s[p] # s[q]
    BY DEF SetToSeqs
  <1>3. Len(s) = Cardinality(K)
    BY <1>1, <1>2
  <1>4. Range(s) = K
    <2>1. s \in Injection(D, K)
      <3>1. \A p, q \in D : s[p] = s[q] => p = q
        BY <1>2
      <3> QED BY <1>2, <3>1 DEF Injection, IsInjective
    <2>2. IsFiniteSet(D) /\ Cardinality(D) = Cardinality(K)
      BY <1>1, FS_Interval
    <2>3. s \in Surjection(D, K)
      BY <2>1, <2>2, FS_Injection
    <2> QED BY <2>3 DEF Surjection, Range
  <1>5. ListsKeys(s, K)
    BY <1>1, <1>2, <1>3, <1>4 DEF ListsKeys
  <1>6. 1 \in 1..Len(s) /\ 2 \in (1 + 1)..(Len(s) + 1)
    BY <1>1, <1>3
  <1>7. \A p \in 1..Len(s) : ~(p < 1)
    BY <1>1, <1>3
  <1>8. \A q \in 1..Len(s) : ~(1 < q /\ q < 2)
    BY <1>1, <1>3
  <1>9. SortedUpTo(s, 1, 2)
    BY <1>6, <1>7, <1>8 DEF SortedUpTo
  <1> QED BY <1>5, <1>9

(* The pools are finitely many and their keys are keys.                    *)
LEMMA PoolKeys ==
  ASSUME BlockOK, PoolsOf(result, Usable)
  PROVE  IsFiniteSet(DOMAIN result) /\ DOMAIN result \subseteq AllKeys
  <1>1. 2^Width \in Nat
    BY BlockBounds
  <1>2. IsFiniteSet(Addresses)
    BY <1>1, FS_Interval DEF Addresses
  <1>3. Usable \in SUBSET Addresses
    BY DEF Usable
  <1>4. IsFiniteSet(Usable)
    BY <1>2, <1>3, FS_Subset
  <1> DEFINE f == [a \in Usable |-> NetworkKey(a)]
  <1>5. DOMAIN result = {NetworkKey(a) : a \in Usable}
    BY DEF PoolsOf
  <1>6. f \in Surjection(Usable, DOMAIN result)
    BY <1>5 DEF Surjection
  <1>7. IsFiniteSet(DOMAIN result)
    BY <1>4, <1>6, FS_Surjection
  <1> QED BY <1>3, <1>5, <1>7 DEF AllKeys

(* Every step keeps the invariant of the sort.                             *)
LEMMA SortInvStep == SortInv /\ [Next]_vars => SortInv'
  <1> SUFFICES ASSUME SortInv, [Next]_vars PROVE SortInv'
    OBVIOUS
  <1>1. LoopInv /\ LoopInv'
    BY LoopInvStep DEF SortInv
  <1>2. CASE Iterate
    <2>1. state' = "loop"
      BY <1>2 DEF Iterate
    <2> QED BY <1>1, <2>1 DEF SortInv
  <1>3. CASE Leave
    <2>1. state' = (IF DOMAIN result = {} THEN "error" ELSE "done") /\ result' = result
      BY <1>3 DEF Leave
    <2> QED BY <1>1, <2>1 DEF SortInv
  <1>4. CASE StartSort
    <2>1. /\ state = "done" /\ state' = "sort" /\ result' = result
          /\ keys' \in SetToSeqs(DOMAIN result) /\ i' = 1 /\ j' = 2
      BY <1>4 DEF StartSort
    <2>2. BlockOK /\ PoolsOf(result, Usable) /\ DOMAIN result # {}
      BY <1>1, <2>1 DEF SortInv, LoopInv
    <2>3. IsFiniteSet(DOMAIN result) /\ DOMAIN result \subseteq AllKeys
      BY <2>2, PoolKeys
    <2>4. ListsKeys(keys', DOMAIN result) /\ SortedUpTo(keys', 1, 2)
      BY <2>1, <2>2, <2>3, StartLists
    <2>5. ListsKeys(keys', DOMAIN result') /\ SortedUpTo(keys', i', j')
      BY <2>1, <2>4
    <2> QED BY <1>1, <2>1, <2>5 DEF SortInv
  <1>5. CASE Exchange
    <2>1. /\ state = "sort" /\ state' = "sort" /\ result' = result /\ i' = i /\ j' = j + 1
          /\ j <= Len(keys)
          /\ keys' = IF KeyGreater(keys[i], keys[j])
                       THEN [keys EXCEPT ![i] = keys[j], ![j] = keys[i]] ELSE keys
      BY <1>5 DEF Exchange
    <2>2. ListsKeys(keys, DOMAIN result) /\ SortedUpTo(keys, i, j)
      BY <2>1 DEF SortInv
    <2>3. ListsKeys(keys', DOMAIN result) /\ SortedUpTo(keys', i, j + 1)
      BY <2>1, <2>2, ExchangeSorts
    <2>4. ListsKeys(keys', DOMAIN result') /\ SortedUpTo(keys', i', j')
      BY <2>1, <2>3
    <2> QED BY <1>1, <2>1, <2>4 DEF SortInv
  <1>6. CASE NextRow
    <2>1. /\ state = "sort" /\ result' = result /\ keys' = keys /\ j > Len(keys)
          /\ IF i < Len(keys) THEN i' = i + 1 /\ j' = i + 2 /\ state' = "sort"
                              ELSE state' = "sorted"
      BY <1>6 DEF NextRow
    <2>2. ListsKeys(keys, DOMAIN result) /\ SortedUpTo(keys, i, j)
      BY <2>1 DEF SortInv
    <2>3. /\ i < Len(keys) => SortedUpTo(keys, i + 1, i + 2)
          /\ ~(i < Len(keys)) => \A p, q \in 1..Len(keys) : p < q => InOrder(keys, p, q)
      BY <2>1, <2>2, RowFinal
    <2>4. ListsKeys(keys', DOMAIN result')
      BY <2>1, <2>2
    <2>5. state' = "sort" => SortedUpTo(keys', i', j')
      BY <2>1, <2>3
    <2>6. state' = "sorted" => \A p, q \in 1..Len(keys') : p < q => InOrder(keys', p, q)
      BY <2>1, <2>3
    <2> QED BY <1>1, <2>1, <2>4, <2>5, <2>6 DEF SortInv
  <1>7. CASE Returned \/ UNCHANGED vars
    <2>1. state' = state /\ result' = result /\ keys' = keys /\ i' = i /\ j' = j
      BY <1>7 DEF Returned, vars, sortVars
    <2>2. state' \in {"sort", "sorted"} => ListsKeys(keys', DOMAIN result')
      BY <2>1 DEF SortInv
    <2>3. state' = "sort" => SortedUpTo(keys', i', j')
      BY <2>1 DEF SortInv
    <2>4. state' = "sorted" => \A p, q \in 1..Len(keys') : p < q => InOrder(keys', p, q)
      BY <2>1 DEF SortInv
    <2>5. state' = "done" => DOMAIN result' # {}
      BY <2>1 DEF SortInv
    <2> QED BY <1>1, <2>2, <2>3, <2>4, <2>5 DEF SortInv
  <1> QED BY <1>2, <1>3, <1>4, <1>5, <1>6, <1>7 DEF Next

-----------------------------------------------------------------------------
(* The list of addresses: the pools one after the other.                   *)

Entry(a) == <<NetworkKey(a), LastOctet(a)>>

(* s lists the addresses of U in ascending order.                          *)
ListsAddresses(s, U) ==
  /\ s \in Seq(AllKeys \X Nat)
  /\ \A x \in 1..Len(s) : \E a \in U : s[x] = Entry(a)
  /\ \A a \in U : \E x \in 1..Len(s) : s[x] = Entry(a)
  /\ \A x, y \in 1..Len(s) : x < y => Value(s[x]) < Value(s[y])

(* An address can be read off its entry.                                   *)
LEMMA ValueOf ==
  ASSUME NEW a \in Addresses
  PROVE  Value(Entry(a)) = a
  <1> DEFINE c == CHOOSE x \in Addresses : NetworkKey(x) = Entry(a)[1] /\ LastOctet(x) = Entry(a)[2]
  <1>1. NetworkKey(a) = Entry(a)[1] /\ LastOctet(a) = Entry(a)[2]
    BY DEF Entry
  <1>2. c \in Addresses /\ NetworkKey(c) = Entry(a)[1] /\ LastOctet(c) = Entry(a)[2]
    BY <1>1
  <1>3. Value(Entry(a)) = c
    BY DEF Value
  <1> HIDE DEF c
  <1> QED BY <1>1, <1>2, <1>3, LastOctetOrder

(* A list of addresses below those of another, followed by that one.       *)
LEMMA ListsConcat ==
  ASSUME NEW U \in SUBSET Addresses, NEW V \in SUBSET Addresses,
         NEW s, ListsAddresses(s, U), NEW t, ListsAddresses(t, V),
         \A u \in U, v \in V : u < v
  PROVE  ListsAddresses(s \o t, U \cup V)
  <1> DEFINE m == Len(s)
             n == Len(t)
             c == s \o t
             T == AllKeys \X Nat
  <1>1. s \in Seq(T) /\ t \in Seq(T)
    BY DEF ListsAddresses
  <1> HIDE DEF T
  <1>2. /\ m \in Nat /\ n \in Nat /\ c \in Seq(T) /\ Len(c) = m + n
        /\ \A x \in 1..m : c[x] = s[x]
        /\ \A x \in 1..n : c[m + x] = t[x]
    BY <1>1
  <1>3. ASSUME NEW x \in 1..Len(c)
        PROVE  x \in 1..m \/ (x - m \in 1..n /\ x = m + (x - m))
    BY <1>2
  <1>4. /\ \A x \in 1..m : x \in 1..Len(c)
        /\ \A x \in 1..n : m + x \in 1..Len(c)
    BY <1>2
  <1>5. /\ \A x \in 1..m : \E a \in U : s[x] = Entry(a)
        /\ \A a \in U : \E x \in 1..m : s[x] = Entry(a)
        /\ \A x, y \in 1..m : x < y => Value(s[x]) < Value(s[y])
    BY DEF ListsAddresses
  <1>6. /\ \A x \in 1..n : \E a \in V : t[x] = Entry(a)
        /\ \A a \in V : \E x \in 1..n : t[x] = Entry(a)
        /\ \A x, y \in 1..n : x < y => Value(t[x]) < Value(t[y])
    BY DEF ListsAddresses
  <1> HIDE DEF m, n, c
  <1>7. ASSUME NEW x \in 1..Len(c)
        PROVE  \E a \in U \cup V : c[x] = Entry(a)
    <2>1. CASE x \in 1..m
      BY <1>2, <1>5, <2>1
    <2>2. CASE x - m \in 1..n /\ x = m + (x - m)
      <3>1. PICK a \in V : t[x - m] = Entry(a)
        BY <1>6, <2>2
      <3>2. c[x] = t[x - m]
        BY <1>2, <2>2
      <3> QED BY <3>1, <3>2
    <2> QED BY <1>3, <2>1, <2>2
  <1>8. ASSUME NEW a \in U \cup V
        PROVE  \E x \in 1..Len(c) : c[x] = Entry(a)
    <2>1. CASE a \in U
      BY <1>2, <1>4, <1>5, <2>1
    <2>2. CASE a \in V
      <3>1. PICK x \in 1..n : t[x] = Entry(a)
        BY <1>6, <2>2
      <3>2. m + x \in 1..Len(c) /\ c[m + x] = Entry(a)
        BY <1>2, <1>4, <3>1
      <3> QED BY <3>2
    <2> QED BY <2>1, <2>2
  <1>9. ASSUME NEW x \in 1..Len(c), NEW y \in 1..Len(c), x < y
        PROVE  Value(c[x]) < Value(c[y])
    <2>1. CASE x \in 1..m /\ y \in 1..m
      BY <1>2, <1>5, <1>9, <2>1
    <2>2. CASE x \in 1..m /\ y - m \in 1..n /\ y = m + (y - m)
      <3>1. PICK a \in U : c[x] = Entry(a)
        BY <1>2, <1>5, <2>2
      <3>2. c[y] = t[y - m]
        BY <1>2, <2>2
      <3>3. PICK b \in V : c[y] = Entry(b)
        BY <1>6, <2>2, <3>2
      <3>4. Value(c[x]) = a /\ Value(c[y]) = b /\ a < b
        BY <3>1, <3>3, ValueOf
      <3> QED BY <3>4
    <2>3. CASE x - m \in 1..n /\ x = m + (x - m) /\ y - m \in 1..n /\ y = m + (y - m)
      <3>1. c[x] = t[x - m] /\ c[y] = t[y - m]
        BY <1>2, <2>3
      <3>2. x - m < y - m
        BY <1>2, <1>9
      <3> QED BY <1>6, <2>3, <3>1, <3>2
    <2>4. CASE x - m \in 1..n /\ y \in 1..m
      BY <1>2, <1>9, <2>4
    <2> QED BY <1>3, <2>1, <2>2, <2>3, <2>4
  <1> QED BY <1>2, <1>7, <1>8, <1>9 DEF ListsAddresses, T, c

(* The entries of one pool list the usable addresses of its network.       *)
LEMMA ListsPool ==
  ASSUME NEW r, NEW U \in SUBSET Addresses, PoolsOf(r, U), NEW key \in DOMAIN r
  PROVE  ListsAddresses([m \in DOMAIN r[key] |-> <<key, r[key][m]>>],
                        {a \in U : NetworkKey(a) = key})
  <1> DEFINE p == r[key]
             n == Len(p)
             s == [m \in DOMAIN p |-> <<key, p[m]>>]
             V == {a \in U : NetworkKey(a) = key}
  <1>1. IsPool(p) /\ Range(p) = {LastOctet(a) : a \in V}
    BY DEF PoolsOf
  <1>2. p \in Seq(Nat) /\ n \in Nat /\ DOMAIN p = 1..n /\ \A k \in 1..n : p[k] \in Nat
    BY <1>1 DEF IsPool
  <1>3. \A x, y \in 1..n : x < y => p[x] < p[y]
    BY <1>1 DEF IsPool
  <1>4. key \in AllKeys
    BY DEF PoolsOf, AllKeys
  <1>5. s \in Seq(AllKeys \X Nat) /\ Len(s) = n /\ \A x \in 1..n : s[x] = <<key, p[x]>>
    BY <1>2, <1>4
  <1>6. Range(p) = {p[x] : x \in 1..n}
    BY <1>2 DEF Range
  <1> HIDE DEF p, n, s
  <1>7. ASSUME NEW x \in 1..n
        PROVE  \E a \in V : s[x] = Entry(a) /\ p[x] = LastOctet(a)
    <2>1. PICK a \in V : p[x] = LastOctet(a)
      BY <1>1, <1>6
    <2> QED BY <1>5, <2>1 DEF Entry
  <1>8. ASSUME NEW a \in V
        PROVE  \E x \in 1..n : s[x] = Entry(a)
    <2>1. PICK x \in 1..n : p[x] = LastOctet(a)
      BY <1>1, <1>6
    <2>2. s[x] = Entry(a)
      BY <1>5, <2>1 DEF Entry
    <2> QED BY <2>2
  <1>9. ASSUME NEW x \in 1..n, NEW y \in 1..n, x < y
        PROVE  Value(s[x]) < Value(s[y])
    <2>1. PICK a \in V : s[x] = Entry(a) /\ p[x] = LastOctet(a)
      BY <1>7
    <2>2. PICK b \in V : s[y] = Entry(b) /\ p[y] = LastOctet(b)
      BY <1>7
    <2>3. LastOctet(a) < LastOctet(b) /\ LastOctet(a) \in Nat /\ LastOctet(b) \in Nat
      BY <1>2, <1>3, <1>9, <2>1, <2>2
    <2>4. a \in Addresses /\ b \in Addresses /\ NetworkKey(a) = NetworkKey(b)
      BY <2>1, <2>2
    <2>5. a \in Nat /\ b \in Nat
      BY <2>4, LeadingNone
    <2>6. ~(b < a) /\ a # b
      BY <2>3, <2>4, LastOctetOrder
    <2>7. a < b
      BY <2>5, <2>6
    <2> QED BY <2>1, <2>2, <2>4, <2>7, ValueOf
  <1>10. ListsAddresses(s, V)
    BY <1>5, <1>7, <1>8, <1>9 DEF ListsAddresses
  <1> QED BY <1>10 DEF s, p

-----------------------------------------------------------------------------
(* FlattenSeq of the library is a recursive function.                      *)

Concats(seqs) ==
  CHOOSE flatten : flatten = [k \in 1..Len(seqs) |->
                                IF k = 1 THEN seqs[k] ELSE flatten[k - 1] \o seqs[k]]

(* The recursive function is defined: the shortest prefix of seqs for      *)
(* which there were none would extend one for which there is one.          *)
LEMMA ConcatsExists ==
  ASSUME NEW seqs, NEW n \in Nat
  PROVE  \E g : g = [k \in 1..n |-> IF k = 1 THEN seqs[k] ELSE g[k - 1] \o seqs[k]]
  <1> DEFINE Is(g, l) == g = [k \in 1..l |-> IF k = 1 THEN seqs[k] ELSE g[k - 1] \o seqs[k]]
             S == {l \in Nat : ~(\E g : Is(g, l))}
  <1>1. SUFFICES ASSUME S # {} PROVE FALSE
    OBVIOUS
  <1>2. PICK l \in S : \A y \in S : l <= y
    BY <1>1, LeastElement
  <1>3. l \in Nat /\ ~(\E g : Is(g, l))
    BY <1>2
  <1>4. l # 0
    <2>1. Is(<<>>, 0)
      OBVIOUS
    <2> QED BY <1>3, <2>1
  <1>5. l - 1 \in Nat /\ l - 1 \notin S
    <2> HIDE DEF S
    <2> QED BY <1>2, <1>3, <1>4
  <1>6. PICK g : Is(g, l - 1)
    BY <1>5
  <1> DEFINE h == [k \in 1..l |-> IF k < l THEN g[k] ELSE IF k = 1 THEN seqs[k] ELSE g[k - 1] \o seqs[k]]
  <1>7. ASSUME NEW k \in 1..l
        PROVE  h[k] = IF k = 1 THEN seqs[k] ELSE h[k - 1] \o seqs[k]
    <2>1. k = 1 \/ (k - 1 \in 1..l /\ k - 1 < l /\ h[k - 1] = g[k - 1])
      BY <1>3
    <2>2. CASE k < l
      <3>1. k \in 1..(l - 1)
        BY <1>3, <2>2
      <3>2. g[k] = IF k = 1 THEN seqs[k] ELSE g[k - 1] \o seqs[k]
        BY <1>6, <3>1
      <3> QED BY <2>1, <2>2, <3>2
    <2>3. CASE ~(k < l)
      BY <2>1, <2>3
    <2> QED BY <2>2, <2>3
  <1>8. Is(h, l)
    <2>1. h = [k \in 1..l |-> h[k]]
      OBVIOUS
    <2> HIDE DEF h
    <2> QED BY <1>7, <2>1
  <1> QED BY <1>3, <1>8

(* What FlattenSeq computes.                                               *)
LEMMA FlattenIs ==
  ASSUME NEW seqs, Len(seqs) \in Nat, Len(seqs) # 0
  PROVE  /\ FlattenSeq(seqs) = Concats(seqs)[Len(seqs)]
         /\ Concats(seqs)[1] = seqs[1]
         /\ \A k \in 2..Len(seqs) : Concats(seqs)[k] = Concats(seqs)[k - 1] \o seqs[k]
  <1>1. FlattenSeq(seqs) = Concats(seqs)[Len(seqs)]
    BY Zenon DEF FlattenSeq, Concats
  <1>2. PICK g : g = [k \in 1..Len(seqs) |-> IF k = 1 THEN seqs[k] ELSE g[k - 1] \o seqs[k]]
    BY ConcatsExists
  <1> DEFINE f == Concats(seqs)
  <1>3. f = [k \in 1..Len(seqs) |-> IF k = 1 THEN seqs[k] ELSE f[k - 1] \o seqs[k]]
    BY <1>2, Zenon DEF Concats
  <1> HIDE DEF f
  <1>4. f[1] = seqs[1]
    <2>1. 1 \in 1..Len(seqs)
      OBVIOUS
    <2> QED BY <1>3, <2>1
  <1>5. ASSUME NEW k \in 2..Len(seqs)
        PROVE  f[k] = f[k - 1] \o seqs[k]
    <2>1. k \in 1..Len(seqs) /\ k # 1
      OBVIOUS
    <2> QED BY <1>3, <2>1
  <1> QED BY <1>1, <1>4, <1>5 DEF f

(* The pools in the order of their keys, one after the other, list the     *)
(* addresses of U in ascending order.                                      *)
LEMMA FlattenLists ==
  ASSUME NEW r, NEW U \in SUBSET Addresses, PoolsOf(r, U),
         NEW s, ListsKeys(s, DOMAIN r), Len(s) # 0,
         \A p, q \in 1..Len(s) : p < q => InOrder(s, p, q),
         NEW seqs, seqs = [k \in DOMAIN s |-> [m \in DOMAIN r[s[k]] |-> <<s[k], r[s[k]][m]>>]]
  PROVE  ListsAddresses(FlattenSeq(seqs), U)
  <1> DEFINE n == Len(s)
             At(k) == {a \in U : NetworkKey(a) = s[k]}
             Upto(k) == {a \in U : \E p \in 1..k : NetworkKey(a) = s[p]}
             g == Concats(seqs)
  <1>1. n \in Nat /\ n # 0 /\ s \in [1..n -> AllKeys] /\ DOMAIN s = 1..n /\ Range(s) = DOMAIN r
    BY DEF ListsKeys
  <1>2. seqs = [k \in 1..n |-> [m \in DOMAIN r[s[k]] |-> <<s[k], r[s[k]][m]>>]]
    BY <1>1
  <1>3. Len(seqs) = n
    BY <1>1, <1>2
  <1>4. ASSUME NEW k \in 1..n
        PROVE  ListsAddresses(seqs[k], At(k))
    <2>1. s[k] \in DOMAIN r
      BY <1>1 DEF Range
    <2>2. seqs[k] = [m \in DOMAIN r[s[k]] |-> <<s[k], r[s[k]][m]>>]
      BY <1>2
    <2>3. \A key \in DOMAIN r : ListsAddresses([m \in DOMAIN r[key] |-> <<key, r[key][m]>>],
                                               {a \in U : NetworkKey(a) = key})
      BY ListsPool
    <2>4. ListsAddresses([m \in DOMAIN r[s[k]] |-> <<s[k], r[s[k]][m]>>],
                         {a \in U : NetworkKey(a) = s[k]})
      BY <2>1, <2>3
    <2> QED BY <2>2, <2>4
  <1>5. /\ FlattenSeq(seqs) = g[n]
        /\ g[1] = seqs[1]
        /\ \A k \in 2..n : g[k] = g[k - 1] \o seqs[k]
    BY <1>1, <1>3, FlattenIs
  <1> HIDE DEF g
  <1>6. ASSUME NEW k \in 2..n, NEW a \in Upto(k - 1), NEW b \in At(k)
        PROVE  a < b
    <2>1. PICK p \in 1..(k - 1) : NetworkKey(a) = s[p]
      OBVIOUS
    <2>2. p \in 1..n /\ k \in 1..n /\ p < k
      BY <1>1
    <2>3. InOrder(s, p, k)
      BY <2>2
    <2>4. a \in Addresses /\ b \in Addresses /\ NetworkKey(b) = s[k]
      OBVIOUS
    <2>5. KeyNumber(NetworkKey(a)) < KeyNumber(NetworkKey(b))
      BY <2>1, <2>3, <2>4 DEF InOrder
    <2>6. a \div 2^OctetBits < b \div 2^OctetBits
      BY <2>4, <2>5, KeyNumberOf
    <2>7. a \in Nat /\ b \in Nat /\ 2^OctetBits \in Nat /\ 2^OctetBits > 0
      BY <2>4, LeadingNone, WidthAssumption, PowerPositive
    <2> QED BY <2>6, <2>7, DivOrder
  <1>7. \A k \in 2..n : Upto(k) = Upto(k - 1) \cup At(k)
    <2>1. ASSUME NEW k \in 2..n
          PROVE  \A p : p \in 1..k <=> p \in 1..(k - 1) \/ p = k
      BY <1>1
    <2> QED BY <2>1
  <1>8. Upto(1) = At(1)
    OBVIOUS
  <1>9. Upto(n) = U
    <2>1. ASSUME NEW a \in U PROVE \E p \in 1..n : NetworkKey(a) = s[p]
      <3>1. NetworkKey(a) \in Range(s)
        BY <1>1 DEF PoolsOf
      <3> QED BY <1>1, <3>1 DEF Range
    <2> QED BY <2>1
  <1>10. \A k : Upto(k) \in SUBSET Addresses /\ At(k) \in SUBSET Addresses
    OBVIOUS
  <1> HIDE DEF At, Upto
  <1> DEFINE S == {k \in 1..n : ~ListsAddresses(g[k], Upto(k))}
  <1>11. S = {}
    <2>1. SUFFICES ASSUME S # {} PROVE FALSE
      OBVIOUS
    <2>2. S \in SUBSET Nat
      BY <1>1
    <2>3. PICK k \in S : \A y \in S : k <= y
      BY <2>1, <2>2, LeastElement
    <2>4. k \in 1..n /\ ~ListsAddresses(g[k], Upto(k))
      BY <2>3
    <2>5. k # 1
      BY <1>4, <1>5, <1>8, <2>4
    <2>6. k \in 2..n /\ k - 1 \in 1..n /\ ~(k <= k - 1)
      BY <1>1, <2>4, <2>5
    <2>7. ListsAddresses(g[k - 1], Upto(k - 1))
      BY <2>3, <2>6
    <2>8. ListsAddresses(seqs[k], At(k))
      BY <1>4, <2>4
    <2>9. ListsAddresses(g[k - 1] \o seqs[k], Upto(k - 1) \cup At(k))
      BY <1>6, <1>10, <2>6, <2>7, <2>8, ListsConcat
    <2> QED BY <1>5, <1>7, <2>4, <2>6, <2>9
  <1>12. n \in 1..n
    BY <1>1
  <1> QED BY <1>5, <1>9, <1>11, <1>12

(* The sorted keys give the sorted list of addresses.                      *)
LEMMA SortInvList == SortInv => IPListIsSorted
  <1> SUFFICES ASSUME SortInv, state = "sorted"
               PROVE  LET values == [k \in DOMAIN ipList |-> Value(ipList[k])]
                      IN  Ascending(values) /\ Range(values) = Usable
    BY DEF IPListIsSorted
  <1> DEFINE seqs == [k \in DOMAIN keys |->
                        [m \in DOMAIN result[keys[k]] |-> <<keys[k], result[keys[k]][m]>>]]
             values == [k \in DOMAIN ipList |-> Value(ipList[k])]
             n == Len(ipList)
  <1>1. /\ BlockOK /\ PoolsOf(result, Usable) /\ ListsKeys(keys, DOMAIN result)
        /\ \A p, q \in 1..Len(keys) : p < q => InOrder(keys, p, q)
    BY DEF SortInv, LoopInv
  <1>2. Usable \in SUBSET Addresses
    BY DEF Usable
  <1>3. ListsAddresses(ipList, Usable)
    <2>1. CASE Len(keys) # 0
      <3>1. ipList = FlattenSeq(seqs)
        BY DEF ipList
      <3>2. ListsAddresses(FlattenSeq(seqs), Usable)
        BY <1>1, <1>2, <2>1, FlattenLists
      <3> QED BY <3>1, <3>2
    <2>2. CASE Len(keys) = 0
      <3>1. keys \in [1..0 -> AllKeys] /\ DOMAIN keys = {}
        BY <1>1, <2>2 DEF ListsKeys
      <3>2. seqs = <<>>
        BY <3>1
      <3>3. ipList = FlattenSeq(<<>>)
        BY <3>2, Zenon DEF ipList
      <3>4. ipList = <<>>
        BY <3>3 DEF FlattenSeq
      <3>5. DOMAIN result = {}
        BY <1>1, <3>1 DEF ListsKeys, Range
      <3>6. Usable = {}
        BY <1>1, <3>5 DEF PoolsOf
      <3> QED BY <3>4, <3>6 DEF ListsAddresses
    <2> QED BY <2>1, <2>2
  <1>4. n \in Nat /\ DOMAIN ipList = 1..n
    BY <1>3 DEF ListsAddresses
  <1>5. /\ \A x \in 1..n : \E a \in Usable : ipList[x] = Entry(a)
        /\ \A a \in Usable : \E x \in 1..n : ipList[x] = Entry(a)
        /\ \A x, y \in 1..n : x < y => Value(ipList[x]) < Value(ipList[y])
    BY <1>3 DEF ListsAddresses
  <1>6. DOMAIN values = 1..n /\ \A x \in 1..n : values[x] = Value(ipList[x])
    BY <1>4
  <1>7. Len(values) = n
    BY <1>4
  <1> HIDE DEF values, n
  <1>8. Ascending(values)
    <2>1. \A k \in 1..(n - 1) : k \in 1..n /\ k + 1 \in 1..n /\ k < k + 1
      BY <1>4
    <2> QED BY <1>5, <1>6, <1>7, <2>1 DEF Ascending
  <1>9. Range(values) = Usable
    <2>1. \A x \in 1..n : values[x] \in Usable
      BY <1>2, <1>5, <1>6, ValueOf
    <2>2. ASSUME NEW a \in Usable PROVE \E x \in 1..n : values[x] = a
      <3>1. PICK x \in 1..n : ipList[x] = Entry(a)
        BY <1>5
      <3>2. values[x] = a
        BY <1>2, <1>6, <3>1, ValueOf
      <3> QED BY <3>2
    <2> QED BY <1>6, <2>1, <2>2 DEF Range
  <1> QED BY <1>8, <1>9 DEF values

(* CIDRToIPList (internal/cidr.go) lists the usable addresses of the block *)
(* in ascending order whatever order the map iteration yields the keys in, *)
(* for every width, block and reserved set and any number of networks.     *)
THEOREM IPListAlwaysSorted == Spec => []IPListIsSorted
  <1>1. Init => SortInv
    <2> SUFFICES ASSUME Init PROVE SortInv
      OBVIOUS
    <2>1. state = "loop"
      BY DEF Init
    <2> QED BY <2>1, LoopInvInit DEF SortInv
  <1>2. Spec => []SortInv
    BY <1>1, SortInvStep, PTL DEF Spec
  <1> QED BY <1>2, SortInvList, PTL
=============================================================================
