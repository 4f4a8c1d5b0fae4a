----------------------------- MODULE DDWRTProofs -----------------------------
(***************************************************************************)
(* Proofs about the DD-WRT client: for every router, every number of       *)
(* replicas and any failures and reboots, foreign lines and the records of *)
(* other clusters are kept, no cluster has two lines, and a call that      *)
(* returns without an error has taken hold.                                *)
(***************************************************************************)
EXTENDS DDWRT, FiniteSetTheorems, TLAPS

-----------------------------------------------------------------------------
(* Places of lines.                                                        *)

Rank(I, i) == Cardinality({j \in I : j <= i})
At(I, k) == CHOOSE i \in I : Rank(I, i) = k

(* A place comes after those before it, ...                                *)
LEMMA RankType ==
  ASSUME NEW I \in SUBSET Nat, IsFiniteSet(I), NEW i \in I
  PROVE  Rank(I, i) \in 1..Cardinality(I) /\ Cardinality(I) \in Nat
<1> DEFINE B == {j \in I : j <= i}
<1>1. B \in SUBSET I /\ i \in B
  OBVIOUS
<1>2. IsFiniteSet(B) /\ Cardinality(B) <= Cardinality(I) /\ Cardinality(B) \in Nat /\ Cardinality(I) \in Nat
  BY <1>1, FS_Subset, FS_CardinalityType
<1>3. Cardinality(B) # 0
  BY <1>1, <1>2, FS_EmptySet
<1>4. Rank(I, i) = Cardinality(B)
  BY DEF Rank
<1> HIDE DEF B
<1> QED
  BY <1>2, <1>3, <1>4

(* ... so later places have higher ranks, ...                              *)
LEMMA RankGrows ==
  ASSUME NEW I \in SUBSET Nat, IsFiniteSet(I), NEW i \in I, NEW h \in I, h < i
  PROVE  Rank(I, h) < Rank(I, i)
<1> DEFINE B(x) == {j \in I : j <= x}
<1>0. \A j \in I : j \in Nat
  OBVIOUS
<1>1. /\ \A j \in B(h) : j \in B(i)
      /\ \A j \in B(i) : j \in I
      /\ i \in B(i) /\ i \notin B(h)
  <2>1. \A j \in I : j <= h => j <= i
    BY <1>0
  <2>2. i <= i /\ ~(i <= h)
    BY <1>0
  <2> QED
    BY <2>1, <2>2
<1>2. IsFiniteSet(B(i))
  BY <1>1, FS_Subset
<1>3. /\ IsFiniteSet(B(h)) /\ Cardinality(B(h)) <= Cardinality(B(i))
      /\ Cardinality(B(i)) = Cardinality(B(h)) => B(i) = B(h)
  BY <1>1, <1>2, FS_Subset
<1>4. Cardinality(B(h)) \in Nat /\ Cardinality(B(i)) \in Nat
  BY <1>2, <1>3, FS_CardinalityType
<1>5. Cardinality(B(h)) # Cardinality(B(i))
  BY <1>1, <1>3
<1>6. Rank(I, h) = Cardinality(B(h)) /\ Rank(I, i) = Cardinality(B(i))
  BY DEF Rank
<1> HIDE DEF B
<1> QED
  BY <1>3, <1>4, <1>5, <1>6

(* ... no two the same, and every rank is taken.                           *)
LEMMA AtFacts ==
  ASSUME NEW I \in SUBSET Nat, IsFiniteSet(I)
  PROVE  /\ Cardinality(I) \in Nat
         /\ \A k \in 1..Cardinality(I) : At(I, k) \in I /\ Rank(I, At(I, k)) = k
         /\ \A i \in I : Rank(I, i) \in 1..Cardinality(I) /\ At(I, Rank(I, i)) = i
         /\ \A k, m \in 1..Cardinality(I) : k < m => At(I, k) < At(I, m)
<1>1. Cardinality(I) \in Nat
  BY FS_CardinalityType
<1>2. \A i \in I : Rank(I, i) \in 1..Cardinality(I)
  BY RankType
<1>3. \A i, h \in I : Rank(I, h) = Rank(I, i) => h = i
  <2> SUFFICES ASSUME NEW i \in I, NEW h \in I, Rank(I, h) = Rank(I, i), h # i PROVE FALSE
    OBVIOUS
  <2>1. Rank(I, h) \in Nat /\ Rank(I, i) \in Nat
    BY <1>1, <1>2
  <2>2. CASE h < i
    BY <2>1, <2>2, RankGrows
  <2>3. CASE i < h
    BY <2>1, <2>3, RankGrows
  <2> QED
    BY <2>2, <2>3
<1>4. \A k \in 1..Cardinality(I) : \E i \in I : Rank(I, i) = k
  <2> DEFINE f == [i \in I |-> Rank(I, i)]
             N == 1..Cardinality(I)
  <2>1. f \in [I -> N] /\ \A i, h \in I : f[i] = f[h] => i = h
    BY <1>2, <1>3
  <2>2. IsFiniteSet(N) /\ Cardinality(N) = Cardinality(I)
    BY <1>1, FS_Interval
  <2> HIDE DEF f, N
  <2>3. f \in Injection(I, N)
    BY <2>1 DEF Injection, IsInjective
  <2>4. f \in Surjection(I, N)
    BY <2>2, <2>3, FS_Injection
  <2>5. \A k \in N : \E i \in I : f[i] = k
    BY <2>4 DEF Surjection
  <2> QED
    BY <2>5 DEF f, N
<1>5. \A k \in 1..Cardinality(I) : At(I, k) \in I /\ Rank(I, At(I, k)) = k
  BY <1>4 DEF At
<1>6. \A i \in I : At(I, Rank(I, i)) = i
  BY <1>2, <1>3, <1>5
<1>7. ASSUME NEW k \in 1..Cardinality(I), NEW m \in 1..Cardinality(I), k < m
      PROVE  At(I, k) < At(I, m)
  <2>1. PICK x \in I, y \in I : x = At(I, k) /\ y = At(I, m) /\ Rank(I, x) = k /\ Rank(I, y) = m
    BY <1>5
  <2>2. CASE y < x
    <3>1. Rank(I, y) < Rank(I, x)
      BY <2>2, RankGrows
    <3> QED
      BY <1>1, <1>7, <2>1, <3>1
  <2>3. CASE y = x
    BY <1>1, <1>7, <2>1, <2>3
  <2>4. x \in Nat /\ y \in Nat
    OBVIOUS
  <2> QED
    BY <2>1, <2>2, <2>3, <2>4
<1> QED
  BY <1>1, <1>2, <1>5, <1>6, <1>7

(* The places of a list are naturals.                                      *)
LEMMA Places ==
  ASSUME NEW T, NEW s \in Seq(T), NEW I \in SUBSET DOMAIN s
  PROVE  I \in SUBSET Nat /\ IsFiniteSet(I) /\ Cardinality(I) \in Nat
<1>1. DOMAIN s = 1..Len(s) /\ Len(s) \in Nat
  OBVIOUS
<1>2. IsFiniteSet(1..Len(s))
  BY <1>1, FS_Interval
<1>3. I \in SUBSET Nat /\ IsFiniteSet(I)
  BY <1>1, <1>2, FS_Subset
<1> QED
  BY <1>3, FS_CardinalityType

(* LinesAt keeps the lines at the places it is given.                      *)
LEMMA LinesAtFacts ==
  ASSUME NEW T, NEW s \in Seq(T), NEW I \in SUBSET DOMAIN s
  PROVE  /\ LinesAt(s, I) \in Seq(T)
         /\ DOMAIN LinesAt(s, I) = 1..Cardinality(I)
         /\ \A k \in 1..Cardinality(I) : LinesAt(s, I)[k] = s[At(I, k)] /\ At(I, k) \in I
<1>1. I \in SUBSET Nat /\ IsFiniteSet(I) /\ Cardinality(I) \in Nat
  BY Places
<1>2. \A k \in 1..Cardinality(I) : At(I, k) \in I
  BY <1>1, AtFacts
<1>3. LinesAt(s, I) = [k \in 1..Cardinality(I) |-> s[At(I, k)]]
  BY DEF LinesAt, At, Rank
<1>4. \A k \in 1..Cardinality(I) : s[At(I, k)] \in T
  BY <1>2
<1> QED
  BY <1>1, <1>2, <1>3, <1>4

(* Taking lines out of lines that were taken out before is taking them out *)
(* of the first list.                                                      *)
LEMMA LinesOfLines ==
  ASSUME NEW T, NEW s \in Seq(T), NEW I \in SUBSET DOMAIN s, NEW P \in SUBSET I
  PROVE  LinesAt(LinesAt(s, I), {k \in 1..Cardinality(I) : At(I, k) \in P}) = LinesAt(s, P)
<1> DEFINE t == LinesAt(s, I)
           Q == {k \in 1..Cardinality(I) : At(I, k) \in P}
<1>1. I \in SUBSET Nat /\ IsFiniteSet(I) /\ Cardinality(I) \in Nat
  BY Places
<1>2. P \in SUBSET Nat /\ IsFiniteSet(P) /\ P \in SUBSET DOMAIN s
  BY <1>1, FS_Subset
<1>3. /\ t \in Seq(T) /\ DOMAIN t = 1..Cardinality(I)
      /\ \A k \in 1..Cardinality(I) : t[k] = s[At(I, k)]
  BY LinesAtFacts
<1>4. Q \in SUBSET DOMAIN t /\ Q \in SUBSET Nat /\ IsFiniteSet(Q)
  BY <1>3, Places
<1>5. /\ \A k \in 1..Cardinality(I) : At(I, k) \in I /\ Rank(I, At(I, k)) = k
      /\ \A i \in I : Rank(I, i) \in 1..Cardinality(I) /\ At(I, Rank(I, i)) = i
      /\ \A k, m \in 1..Cardinality(I) : k < m => At(I, k) < At(I, m)
  BY <1>1, AtFacts
<1>6. \A k, m \in Q : (At(I, k) = At(I, m) => k = m) /\ (k <= m <=> At(I, k) <= At(I, m))
  <2> SUFFICES ASSUME NEW k \in Q, NEW m \in Q
               PROVE  (At(I, k) = At(I, m) => k = m) /\ (k <= m <=> At(I, k) <= At(I, m))
    OBVIOUS
  <2>1. /\ k \in Nat /\ m \in Nat /\ At(I, k) \in Nat /\ At(I, m) \in Nat
        /\ k < m => At(I, k) < At(I, m)
        /\ m < k => At(I, m) < At(I, k)
    BY <1>1, <1>5
  <2> QED
    BY <2>1
<1>7. \A i \in P : \E k \in Q : At(I, k) = i
  BY <1>5
<1>8. ASSUME NEW A \in SUBSET Q, NEW B \in SUBSET P,
             \A k \in A : At(I, k) \in B, \A i \in B : \E k \in A : At(I, k) = i
      PROVE  Cardinality(A) = Cardinality(B)
  <2> DEFINE f == [k \in A |-> At(I, k)]
  <2>1. f \in [A -> B] /\ (\A k, m \in A : f[k] = f[m] => k = m) /\ \A i \in B : \E k \in A : f[k] = i
    BY <1>6, <1>8
  <2> HIDE DEF f
  <2>2. f \in Injection(A, B) /\ f \in Surjection(A, B)
    BY <2>1 DEF Injection, IsInjective, Surjection
  <2>3. ExistsBijection(A, B)
    BY <2>2 DEF ExistsBijection, Bijection
  <2>4. IsFiniteSet(A)
    BY <1>4, FS_Subset
  <2> QED
    BY <2>3, <2>4, FS_Bijection
<1>9. \A k \in Q : Rank(Q, k) = Rank(P, At(I, k))
  <2> SUFFICES ASSUME NEW k \in Q PROVE Rank(Q, k) = Rank(P, At(I, k))
    OBVIOUS
  <2> DEFINE A == {j \in Q : j <= k}
             B == {j \in P : j <= At(I, k)}
  <2>1. A \in SUBSET Q /\ B \in SUBSET P
    OBVIOUS
  <2>2. \A j \in A : At(I, j) \in B
    BY <1>6
  <2>3. \A i \in B : \E j \in A : At(I, j) = i
    <3> SUFFICES ASSUME NEW i \in B PROVE \E j \in A : At(I, j) = i
      OBVIOUS
    <3>1. PICK j \in Q : At(I, j) = i
      BY <1>7
    <3> QED
      BY <1>6, <3>1
  <2>4. Rank(Q, k) = Cardinality(A) /\ Rank(P, At(I, k)) = Cardinality(B)
    BY DEF Rank
  <2> HIDE DEF A, B
  <2> QED
    BY <1>8, <2>1, <2>2, <2>3, <2>4
<1>10. Cardinality(Q) = Cardinality(P)
  BY <1>7, <1>8
<1> HIDE DEF t, Q
<1>11. /\ DOMAIN LinesAt(t, Q) = 1..Cardinality(P)
       /\ \A m \in 1..Cardinality(P) : LinesAt(t, Q)[m] = t[At(Q, m)] /\ At(Q, m) \in Q
  <2>1. /\ DOMAIN LinesAt(t, Q) = 1..Cardinality(Q)
        /\ \A m \in 1..Cardinality(Q) : LinesAt(t, Q)[m] = t[At(Q, m)] /\ At(Q, m) \in Q
    BY <1>3, <1>4, LinesAtFacts
  <2> QED
    BY <1>10, <2>1
<1>12. /\ DOMAIN LinesAt(s, P) = 1..Cardinality(P)
       /\ \A m \in 1..Cardinality(P) : LinesAt(s, P)[m] = s[At(P, m)]
  BY <1>2, LinesAtFacts
<1>13. ASSUME NEW m \in 1..Cardinality(P) PROVE LinesAt(t, Q)[m] = LinesAt(s, P)[m]
  <2>1. PICK k \in Q : k = At(Q, m) /\ Rank(Q, k) = m
    BY <1>4, <1>10, AtFacts
  <2>2. At(I, k) \in P /\ Rank(P, At(I, k)) = m /\ k \in 1..Cardinality(I)
    BY <1>9, <2>1 DEF Q
  <2>3. At(P, m) = At(I, k)
    BY <1>2, <2>2, AtFacts
  <2> QED
    BY <1>3, <1>11, <1>12, <2>1, <2>2, <2>3
<1>14. LinesAt(t, Q) = LinesAt(s, P)
  <2>1. /\ LinesAt(t, Q) = [m \in DOMAIN LinesAt(t, Q) |-> LinesAt(t, Q)[m]]
        /\ LinesAt(s, P) = [m \in DOMAIN LinesAt(s, P) |-> LinesAt(s, P)[m]]
    BY DEF LinesAt
  <2> QED
    BY <1>11, <1>12, <1>13, <2>1
<1> QED
  BY <1>14 DEF t, Q

-----------------------------------------------------------------------------
(* Lists of lines.                                                         *)

(* A line that clusterbook writes is not one that somebody else wrote.     *)
LEMMA OwnLines ==
  ASSUME NEW h \in Hostname, NEW ip
  PROVE  /\ [host |-> h, ip |-> ip] \notin Foreign
         /\ \A x \in Foreign : x.host = NoHost /\ x.host # h
<1>1. \A x \in Foreign : x.host = NoHost
  BY RouterAssumption DEF Foreign
<1> QED
  BY <1>1, RouterAssumption

(* removeDNSEntry keeps lines, in their order, and none of the host's.     *)
LEMMA RemoveFacts ==
  ASSUME NEW s \in Seq(Line), NEW h \in Hostname
  PROVE  LET I == DOMAIN s \ LinesOf(s, h)
             t == removeDNSEntry(s, h)
         IN  /\ t = LinesAt(s, I) /\ t \in Seq(Line)
             /\ DOMAIN t = 1..Cardinality(I) /\ Cardinality(I) \in Nat
             /\ \A k \in DOMAIN t : /\ At(I, k) \in DOMAIN s /\ t[k] = s[At(I, k)]
                                    /\ t[k].host # h
             /\ \A k, m \in DOMAIN t : At(I, k) = At(I, m) => k = m
             /\ \A i \in DOMAIN s : s[i].host # h => \E k \in DOMAIN t : At(I, k) = i
<1> DEFINE I == DOMAIN s \ LinesOf(s, h)
           t == removeDNSEntry(s, h)
<1>1. I \in SUBSET DOMAIN s /\ \A i \in DOMAIN s : i \in I <=> s[i].host # h
  BY DEF LinesOf
<1>2. t = LinesAt(s, I)
  BY DEF removeDNSEntry
<1> HIDE DEF I, t
<1>3. I \in SUBSET Nat /\ IsFiniteSet(I) /\ Cardinality(I) \in Nat
  BY <1>1, Places
<1>4. /\ t \in Seq(Line) /\ DOMAIN t = 1..Cardinality(I)
      /\ \A k \in 1..Cardinality(I) : t[k] = s[At(I, k)] /\ At(I, k) \in I
  BY <1>1, <1>2, LinesAtFacts
<1>5. /\ \A k \in 1..Cardinality(I) : At(I, k) \in I /\ Rank(I, At(I, k)) = k
      /\ \A i \in I : Rank(I, i) \in 1..Cardinality(I) /\ At(I, Rank(I, i)) = i
  BY <1>3, AtFacts
<1>6. \A k, m \in DOMAIN t : At(I, k) = At(I, m) => k = m
  BY <1>4, <1>5
<1>7. \A i \in DOMAIN s : s[i].host # h => \E k \in DOMAIN t : At(I, k) = i
  BY <1>1, <1>4, <1>5
<1>8. \A k \in DOMAIN t : At(I, k) \in DOMAIN s /\ t[k] = s[At(I, k)] /\ t[k].host # h
  BY <1>1, <1>4
<1>9. /\ t = LinesAt(s, I) /\ t \in Seq(Line)
      /\ DOMAIN t = 1..Cardinality(I) /\ Cardinality(I) \in Nat
  BY <1>2, <1>3, <1>4
<1> QED
  BY <1>6, <1>7, <1>8, <1>9 DEF I, t

(* What lookupDNSEntry finds where a host has one line at most.            *)
LEMMA LookupFacts ==
  ASSUME NEW s, DOMAIN s \in SUBSET Nat, Unambiguous(s), NEW h \in Hostname
  PROVE  /\ \A i \in DOMAIN s : s[i].host = h => lookupDNSEntry(s, h) = s[i].ip
         /\ (\A i \in DOMAIN s : s[i].host # h) => lookupDNSEntry(s, h) = NoRecord
<1>1. ASSUME NEW i \in DOMAIN s, s[i].host = h
      PROVE  lookupDNSEntry(s, h) = s[i].ip
  <2>1. LinesOf(s, h) = {i}
    BY <1>1 DEF LinesOf, Unambiguous
  <2>2. (CHOOSE k \in {i} : \A j \in {i} : k <= j) = i
    BY <1>1
  <2> QED
    BY <2>1, <2>2 DEF lookupDNSEntry
<1>2. ASSUME \A i \in DOMAIN s : s[i].host # h PROVE lookupDNSEntry(s, h) = NoRecord
  BY <1>2 DEF lookupDNSEntry, LinesOf
<1> QED
  BY <1>1, <1>2

(* removeDNSEntry leaves proper options, without a record of the host and  *)
(* with every other record.                                                *)
LEMMA RemoveKeeps ==
  ASSUME NEW s, Proper(s), NEW h \in Hostname
  PROVE  /\ Proper(removeDNSEntry(s, h))
         /\ lookupDNSEntry(removeDNSEntry(s, h), h) = NoRecord
         /\ \A g \in Hostname \ {h} : lookupDNSEntry(removeDNSEntry(s, h), g) = lookupDNSEntry(s, g)
<1> DEFINE I == DOMAIN s \ LinesOf(s, h)
           t == removeDNSEntry(s, h)
           P == {i \in DOMAIN s : s[i] \in Foreign}
<1>0. s \in Seq(Line) /\ KeepsForeign(s) /\ Unambiguous(s)
  BY DEF Proper
<1>1. /\ t = LinesAt(s, I) /\ t \in Seq(Line)
      /\ DOMAIN t = 1..Cardinality(I) /\ Cardinality(I) \in Nat
      /\ \A k \in DOMAIN t : At(I, k) \in DOMAIN s /\ t[k] = s[At(I, k)] /\ t[k].host # h
      /\ \A k, m \in DOMAIN t : At(I, k) = At(I, m) => k = m
      /\ \A i \in DOMAIN s : s[i].host # h => \E k \in DOMAIN t : At(I, k) = i
  BY <1>0, RemoveFacts
<1>2. P \in SUBSET I /\ I \in SUBSET DOMAIN s
  BY OwnLines DEF LinesOf
<1> HIDE DEF I, t
<1>3. LinesAt(s, P) = Options
  BY <1>0 DEF KeepsForeign
<1>4. KeepsForeign(t)
  <2>1. {k \in DOMAIN t : t[k] \in Foreign} = {k \in 1..Cardinality(I) : At(I, k) \in P}
    BY <1>1
  <2> HIDE DEF P
  <2>2. LinesAt(LinesAt(s, I), {k \in 1..Cardinality(I) : At(I, k) \in P}) = LinesAt(s, P)
    BY <1>0, <1>2, LinesOfLines
  <2> QED
    BY <1>1, <1>3, <2>1, <2>2 DEF KeepsForeign
<1>5. Unambiguous(t)
  BY <1>0, <1>1 DEF Unambiguous
<1>6. DOMAIN t \in SUBSET Nat /\ DOMAIN s \in SUBSET Nat
  BY <1>0, <1>1
<1>7. lookupDNSEntry(t, h) = NoRecord
  BY <1>1, <1>5, <1>6, LookupFacts
<1>8. ASSUME NEW g \in Hostname, g # h PROVE lookupDNSEntry(t, g) = lookupDNSEntry(s, g)
  <2>1. CASE \E k \in DOMAIN t : t[k].host = g
    <3>1. PICK k \in DOMAIN t : t[k].host = g
      BY <2>1
    <3>2. lookupDNSEntry(t, g) = t[k].ip
      BY <1>5, <1>6, <3>1, LookupFacts
    <3>3. At(I, k) \in DOMAIN s /\ s[At(I, k)].host = g /\ s[At(I, k)].ip = t[k].ip
      BY <1>1, <3>1
    <3>4. lookupDNSEntry(s, g) = s[At(I, k)].ip
      BY <1>0, <1>6, <3>3, LookupFacts
    <3> QED
      BY <3>2, <3>3, <3>4
  <2>2. CASE \A k \in DOMAIN t : t[k].host # g
    <3>1. \A i \in DOMAIN s : s[i].host # g
      BY <1>1, <1>8, <2>2
    <3> QED
      BY <1>0, <1>5, <1>6, <2>2, <3>1, LookupFacts
  <2> QED
    BY <2>1, <2>2
<1> QED
  BY <1>1, <1>4, <1>5, <1>7, <1>8 DEF Proper, t

(* A record's line at the end leaves the lines before it where they are.   *)
LEMMA AppendKeeps ==
  ASSUME NEW s, Proper(s), NEW h \in Hostname, NEW ip \in IP,
         \A i \in DOMAIN s : s[i].host # h
  PROVE  LET t == Append(s, [host |-> h, ip |-> ip])
         IN  /\ Proper(t)
             /\ lookupDNSEntry(t, h) = ip
             /\ \A g \in Hostname \ {h} : lookupDNSEntry(t, g) = lookupDNSEntry(s, g)
<1> DEFINE x == [host |-> h, ip |-> ip]
           t == Append(s, x)
           P == {i \in DOMAIN s : s[i] \in Foreign}
<1>0. s \in Seq(Line) /\ KeepsForeign(s) /\ Unambiguous(s)
  BY DEF Proper
<1>1. x \in Line /\ x.host = h /\ x.ip = ip /\ x \notin Foreign
  BY OwnLines DEF Line
<1> HIDE DEF x
<1>2. /\ Len(s) \in Nat /\ DOMAIN s = 1..Len(s) /\ t \in Seq(Line)
      /\ DOMAIN t = DOMAIN s \cup {Len(s) + 1} /\ t[Len(s) + 1] = x
      /\ \A i \in DOMAIN s : t[i] = s[i]
  BY <1>0, <1>1
<1> HIDE DEF t
<1>3. KeepsForeign(t)
  <2>1. {k \in DOMAIN t : t[k] \in Foreign} = P
    BY <1>1, <1>2
  <2>2. P \in SUBSET DOMAIN s /\ P \in SUBSET DOMAIN t
    BY <1>2
  <2>3. LinesAt(s, P) = Options
    BY <1>0 DEF KeepsForeign
  <2> HIDE DEF P
  <2>4. \A k \in 1..Cardinality(P) : At(P, k) \in DOMAIN s
    BY <1>0, <2>2, LinesAtFacts
  <2>5. /\ LinesAt(s, P) = [k \in 1..Cardinality(P) |-> s[At(P, k)]]
        /\ LinesAt(t, P) = [k \in 1..Cardinality(P) |-> t[At(P, k)]]
    BY DEF LinesAt, At, Rank
  <2>6. LinesAt(t, P) = LinesAt(s, P)
    BY <1>2, <2>4, <2>5
  <2> QED
    BY <2>1, <2>3, <2>6 DEF KeepsForeign
<1>4. Unambiguous(t)
  BY <1>0, <1>1, <1>2 DEF Unambiguous
<1>5. DOMAIN t \in SUBSET Nat /\ DOMAIN s \in SUBSET Nat
  BY <1>2
<1>6. lookupDNSEntry(t, h) = ip
  BY <1>1, <1>2, <1>4, <1>5, LookupFacts
<1>7. ASSUME NEW g \in Hostname, g # h PROVE lookupDNSEntry(t, g) = lookupDNSEntry(s, g)
  <2>1. CASE \E i \in DOMAIN s : s[i].host = g
    <3>1. PICK i \in DOMAIN s : s[i].host = g /\ i \in DOMAIN t /\ t[i].host = g /\ t[i].ip = s[i].ip
      BY <1>2, <2>1
    <3> QED
      BY <1>0, <1>4, <1>5, <3>1, LookupFacts
  <2>2. CASE \A i \in DOMAIN s : s[i].host # g
    <3>1. \A i \in DOMAIN t : t[i].host # g
      BY <1>1, <1>2, <1>7, <2>2
    <3> QED
      BY <1>0, <1>4, <1>5, <2>2, <3>1, LookupFacts
  <2> QED
    BY <2>1, <2>2
<1> QED
  BY <1>2, <1>3, <1>4, <1>6, <1>7 DEF Proper, t, x

(* What a call is going to write is proper, holds the record it was asked  *)
(* for and every other record as it was.                                   *)
LEMMA UpdatedFacts ==
  ASSUME NEW s, Proper(s), NEW t \in Task
  PROVE  /\ Proper(Updated(t, s)) /\ t.host \in Hostname
         /\ lookupDNSEntry(Updated(t, s), t.host) = Asked(t)
         /\ \A g \in Hostname \ {t.host} : lookupDNSEntry(Updated(t, s), g) = lookupDNSEntry(s, g)
<1> DEFINE h == t.host
           r == removeDNSEntry(s, h)
<1>1. h \in Hostname /\ (t.op = "create" => t.ip \in IP)
  BY DEF Task
<1>2. /\ Proper(r) /\ lookupDNSEntry(r, h) = NoRecord
      /\ \A g \in Hostname \ {h} : lookupDNSEntry(r, g) = lookupDNSEntry(s, g)
  BY <1>1, RemoveKeeps
<1>3. CASE t.op = "create"
  <2>1. \A i \in DOMAIN r : r[i].host # h
    BY <1>1, RemoveFacts DEF Proper
  <2> DEFINE m == Append(r, [host |-> h, ip |-> t.ip])
  <2>2. Updated(t, s) = m /\ Asked(t) = t.ip
    BY <1>3 DEF Updated, mergeDNSEntry, Asked
  <2> HIDE DEF h, r
  <2>3. /\ Proper(m) /\ lookupDNSEntry(m, h) = t.ip
        /\ \A g \in Hostname \ {h} : lookupDNSEntry(m, g) = lookupDNSEntry(r, g)
    BY <1>1, <1>2, <1>3, <2>1, AppendKeeps
  <2> HIDE DEF m
  <2> QED
    BY <1>1, <1>2, <2>2, <2>3 DEF h
<1>4. CASE t.op # "create"
  <2>1. Updated(t, s) = r /\ Asked(t) = NoRecord
    BY <1>4 DEF Updated, Asked
  <2> QED
    BY <1>1, <1>2, <2>1
<1> QED
  BY <1>3, <1>4

(* So is what the router has before the first call.                        *)
LEMMA OptionsProper == Proper(Options)
<1> DEFINE n == Len(Options)
<1>1. Options \in Seq(Foreign) /\ Options \in Seq(Line)
  BY RouterAssumption DEF Foreign, Line
<1>2. n \in Nat /\ DOMAIN Options = 1..n /\ \A i \in 1..n : Options[i] \in Foreign
  BY <1>1
<1>3. Options = [i \in 1..n |-> Options[i]]
  BY <1>1
<1> HIDE DEF n
<1>4. IsFiniteSet(1..n) /\ Cardinality(1..n) = n /\ 1..n \in SUBSET Nat
  BY <1>2, FS_Interval
<1>5. \A k \in 1..n : At(1..n, k) = k
  <2> SUFFICES ASSUME NEW k \in 1..n PROVE At(1..n, k) = k
    OBVIOUS
  <2>1. {j \in 1..n : j <= k} = 1..k /\ k \in Nat /\ 1 <= k
    BY <1>2
  <2>2. Cardinality(1..k) = k
    BY <2>1, FS_Interval
  <2>3. Rank(1..n, k) = k
    BY <2>1, <2>2 DEF Rank
  <2>4. \A i \in 1..n : At(1..n, Rank(1..n, i)) = i
    BY <1>4, AtFacts
  <2> QED
    BY <2>3, <2>4
<1>6. KeepsForeign(Options)
  <2>1. {i \in DOMAIN Options : Options[i] \in Foreign} = 1..n
    BY <1>2
  <2>2. LinesAt(Options, 1..n) = [k \in 1..n |-> Options[At(1..n, k)]]
    BY <1>4 DEF LinesAt, At, Rank
  <2>3. [k \in 1..n |-> Options[At(1..n, k)]] = [k \in 1..n |-> Options[k]]
    BY <1>5
  <2> QED
    BY <1>3, <2>1, <2>2, <2>3 DEF KeepsForeign
<1>7. Unambiguous(Options)
  BY RouterAssumption DEF Unambiguous
<1> QED
  BY <1>1, <1>6, <1>7 DEF Proper

-----------------------------------------------------------------------------
(* The inductive invariant.                                                *)

(* The first state satisfies it.                                           *)
LEMMA InitInv == Init => InductiveInv
<1> SUFFICES ASSUME Init PROVE InductiveInv
  OBVIOUS
<1>1. TypeOK
  BY DEF Init, TypeOK
<1>2. ProperOptions
  BY OptionsProper DEF Init, ProperOptions
<1>3. \A p \in Process : ~alone[p]
  BY DEF Init
<1> QED
  BY <1>1, <1>2, <1>3 DEF InductiveInv

(* A call starts a session; it races with none when nobody is at work.     *)
LEMMA CallInv ==
  ASSUME InductiveInv, NEW p \in Process, NEW t \in Task, Call(p, t)
  PROVE  InductiveInv'
<1>0. TypeOK /\ ProperOptions
  BY DEF InductiveInv
<1>1. TypeOK'
  BY <1>0 DEF Call, Send, TypeOK
<1>2. ProperOptions'
  <2>1. \A q \in Process : step'[q] = "set" => step[q] = "set"
    BY <1>0 DEF Call, Send, TypeOK
  <2> QED
    BY <1>0, <2>1 DEF Call, routerVars, ProperOptions
<1>3. ASSUME NEW q \in Process, alone'[q] PROVE Progress(q)'
  <2>1. q = p /\ \A u \in Process : step[u] = "none"
    BY <1>3 DEF Call
  <2>2. step'[p] = "get" /\ result'[p] = "none" /\ \A u \in Process \ {p} : step'[u] = "none"
    BY <1>0, <2>1 DEF Call, Send, TypeOK
  <2> QED
    BY <2>1, <2>2 DEF Progress, Reloads
<1> QED
  BY <1>1, <1>2, <1>3 DEF InductiveInv

(* A process at work has a task, and is the one that is alone, if one is.  *)
LEMMA AtWork ==
  ASSUME InductiveInv, NEW p \in Process, step[p] # "none"
  PROVE  /\ task[p] \in Task /\ result[p] = "none"
         /\ \A q \in Process : alone[q] => q = p /\ Progress(p)
<1> QED
  BY DEF InductiveInv, TypeOK, Progress

(* The options are read and changed.                                       *)
LEMMA GetInv ==
  ASSUME InductiveInv, NEW p \in Process, Get(p)
  PROVE  InductiveInv'
<1>0. TypeOK /\ ProperOptions
  BY DEF InductiveInv
<1>1. TypeOK'
  BY <1>0 DEF Get, Send, TypeOK
<1>2. /\ task[p] \in Task /\ result[p] = "none"
      /\ \A q \in Process : alone[q] => q = p /\ Progress(p)
  BY AtWork DEF Get
<1>3. /\ updated'[p] = Updated(task[p], nvram) /\ step'[p] = "set"
      /\ \A q \in Process \ {p} : updated'[q] = updated[q] /\ step'[q] = step[q]
      /\ nvram' = nvram /\ flash' = flash /\ running' = running
      /\ task' = task /\ result' = result /\ alone' = alone
  BY <1>0 DEF Get, Send, TypeOK, routerVars
<1>4. ProperOptions'
  <2>1. Proper(Updated(task[p], nvram))
    BY <1>0, <1>2, UpdatedFacts DEF ProperOptions
  <2> QED
    BY <1>0, <1>3, <2>1 DEF ProperOptions
<1>5. ASSUME alone[p] PROVE Progress(p)'
  BY <1>2, <1>3, <1>5 DEF Progress, Reloads
<1> QED
  BY <1>1, <1>2, <1>3, <1>4, <1>5 DEF InductiveInv

(* They are written; unless somebody raced, they are still what the task   *)
(* makes of the options in nvram.                                          *)
LEMMA SetInv ==
  ASSUME InductiveInv, NEW p \in Process, Set(p)
  PROVE  InductiveInv'
<1>0. TypeOK /\ ProperOptions
  BY DEF InductiveInv
<1>1. TypeOK'
  BY <1>0 DEF Set, Send, TypeOK
<1>2. /\ task[p] \in Task /\ result[p] = "none" /\ step[p] = "set"
      /\ \A q \in Process : alone[q] => q = p /\ Progress(p)
  BY AtWork DEF Set
<1>3. /\ nvram' = updated[p] /\ step'[p] = "commit"
      /\ \A q \in Process \ {p} : step'[q] = step[q]
      /\ flash' = flash /\ running' = running /\ updated' = updated
      /\ task' = task /\ result' = result /\ alone' = alone
  BY <1>0 DEF Set, Send, TypeOK
<1>4. ProperOptions'
  BY <1>0, <1>2, <1>3 DEF ProperOptions
<1>5. ASSUME alone[p] PROVE Progress(p)'
  <2>1. updated[p] = Updated(task[p], nvram) /\ \A q \in Process \ {p} : step[q] = "none"
    BY <1>2, <1>5 DEF Progress
  <2>2. lookupDNSEntry(Updated(task[p], nvram), task[p].host) = Asked(task[p])
    BY <1>0, <1>2, UpdatedFacts DEF ProperOptions
  <2>3. lookupDNSEntry(nvram', task'[p].host) = Asked(task'[p])
    BY <1>3, <2>1, <2>2
  <2> QED
    BY <1>2, <1>3, <2>1, <2>3 DEF Progress, Reloads
<1> QED
  BY <1>1, <1>2, <1>3, <1>4, <1>5 DEF InductiveInv

(* They are committed.                                                     *)
LEMMA CommitInv ==
  ASSUME InductiveInv, NEW p \in Process, Commit(p)
  PROVE  InductiveInv'
<1>0. TypeOK /\ ProperOptions
  BY DEF InductiveInv
<1>1. TypeOK'
  BY <1>0 DEF Commit, Send, TypeOK, Reloads
<1>2. /\ result[p] = "none" /\ step[p] = "commit"
      /\ \A q \in Process : alone[q] => q = p /\ Progress(p)
  BY AtWork DEF Commit
<1>3. /\ flash' = nvram /\ step'[p] = "restart"
      /\ \A q \in Process \ {p} : step'[q] = step[q]
      /\ nvram' = nvram /\ running' = running /\ updated' = updated
      /\ task' = task /\ result' = result /\ alone' = alone
  BY <1>0 DEF Commit, Send, TypeOK
<1>4. ProperOptions'
  BY <1>0, <1>3 DEF ProperOptions
<1>5. ASSUME alone[p] PROVE Progress(p)'
  BY <1>2, <1>3, <1>5 DEF Progress, Reloads
<1> QED
  BY <1>1, <1>2, <1>3, <1>4, <1>5 DEF InductiveInv

(* A command fails: the session is over, with an error.                    *)
LEMMA CommandFailsInv ==
  ASSUME InductiveInv, NEW p \in Process, CommandFails(p)
  PROVE  InductiveInv'
<1>0. TypeOK /\ ProperOptions
  BY DEF InductiveInv
<1>1. TypeOK'
  BY <1>0 DEF CommandFails, Return, Send, TypeOK
<1>2. \A q \in Process : alone[q] => q = p /\ Progress(p)
  BY AtWork DEF CommandFails
<1>3. /\ step'[p] = "none" /\ result'[p] # "ok"
      /\ \A q \in Process \ {p} : step'[q] = step[q]
      /\ nvram' = nvram \/ (step[p] = "set" /\ nvram' = updated[p])
      /\ flash' = flash \/ flash' = nvram
      /\ updated' = updated /\ alone' = alone
  BY <1>0 DEF CommandFails, Return, Send, TypeOK
<1>4. ProperOptions'
  BY <1>0, <1>3 DEF ProperOptions
<1>5. ASSUME alone[p] PROVE Progress(p)'
  BY <1>2, <1>3, <1>5 DEF Progress, Reloads
<1> QED
  BY <1>1, <1>2, <1>3, <1>4, <1>5 DEF InductiveInv

(* dnsmasq reads them, and the call returns without an error.              *)
LEMMA ReloadInv ==
  ASSUME InductiveInv, NEW p \in Process, reloadDnsmasq(p)
  PROVE  InductiveInv'
<1>0. TypeOK /\ ProperOptions
  BY DEF InductiveInv
<1>1. TypeOK'
  BY <1>0 DEF reloadDnsmasq, Return, Send, TypeOK
<1>2. step[p] \in Reloads /\ \A q \in Process : alone[q] => q = p /\ Progress(p)
  BY AtWork DEF reloadDnsmasq, Reloads
<1>3. /\ step'[p] = "none" /\ running' = nvram
      /\ \A q \in Process \ {p} : step'[q] = step[q]
      /\ nvram' = nvram /\ flash' = flash
      /\ updated' = updated /\ task' = task /\ alone' = alone
  BY <1>0 DEF reloadDnsmasq, Return, Send, TypeOK
<1>4. ProperOptions'
  BY <1>0, <1>3 DEF ProperOptions
<1>5. ASSUME alone[p] PROVE Progress(p)'
  BY <1>2, <1>3, <1>5 DEF Progress, Reloads
<1> QED
  BY <1>1, <1>2, <1>3, <1>4, <1>5 DEF InductiveInv

(* A reload fails: the next command is tried, or the call returns the      *)
(* error of the last one.                                                  *)
LEMMA ReloadFailsInv ==
  ASSUME InductiveInv, NEW p \in Process, ReloadFails(p)
  PROVE  InductiveInv'
<1>0. TypeOK /\ ProperOptions
  BY DEF InductiveInv
<1>1. /\ result[p] = "none" /\ step[p] \in Reloads
      /\ \A q \in Process : alone[q] => q = p /\ Progress(p)
  BY AtWork DEF ReloadFails, Reloads
<1>2. /\ step' \in [Process -> {"none"} \cup Reloads \cup {"get", "set", "commit"}]
      /\ (step'[p] \in Reloads /\ result' = result) \/ (step'[p] = "none" /\ result'[p] = "reload")
      /\ \A q \in Process \ {p} : step'[q] = step[q] /\ result'[q] = result[q]
      /\ result' \in [Process -> {"none", "ok", "get", "set", "commit", "reload"}]
      /\ nvram' = nvram /\ flash' = flash
      /\ updated' = updated /\ task' = task /\ alone' = alone
  <2>1. CASE step[p] = "restart"
    BY <1>0, <2>1 DEF ReloadFails, Send, TypeOK, Reloads
  <2>2. CASE step[p] = "stopstart"
    BY <1>0, <2>2 DEF ReloadFails, Send, TypeOK, Reloads
  <2>3. CASE step[p] = "hup"
    BY <1>0, <2>3 DEF ReloadFails, Return, Send, TypeOK, Reloads
  <2> QED
    BY <1>1, <2>1, <2>2, <2>3 DEF Reloads
<1>3. TypeOK'
  <2>1. calls' \in Nat /\ reboots' \in Nat
    BY <1>0 DEF ReloadFails, TypeOK
  <2> QED
    BY <1>0, <1>1, <1>2, <2>1 DEF TypeOK, Reloads
<1>4. ProperOptions'
  BY <1>0, <1>2 DEF ProperOptions, Reloads
<1>5. ASSUME alone[p] PROVE Progress(p)'
  BY <1>1, <1>2, <1>5 DEF Progress, Reloads
<1> QED
  BY <1>1, <1>2, <1>3, <1>4, <1>5 DEF InductiveInv

(* A reboot ends every session; where a call has returned without an error *)
(* it brings back what is there.                                           *)
LEMMA RebootInv ==
  ASSUME InductiveInv, Reboot
  PROVE  InductiveInv'
<1>0. TypeOK /\ ProperOptions /\ \A p \in Process : alone[p] => Progress(p)
  BY DEF InductiveInv
<1>1. TypeOK'
  BY <1>0 DEF Reboot, TypeOK, Reloads
<1>2. /\ nvram' = flash /\ flash' = flash /\ running' = flash
      /\ \A p \in Process : step'[p] = "none"
      /\ task' = task /\ updated' = updated /\ alone' = alone
  BY DEF Reboot
<1>3. \A p \in Process : result'[p] = "ok" => result[p] = "ok"
  BY <1>0 DEF Reboot, TypeOK, Reloads
<1>4. ProperOptions'
  BY <1>0, <1>2 DEF ProperOptions
<1>5. ASSUME NEW p \in Process, alone'[p] PROVE Progress(p)'
  BY <1>0, <1>2, <1>3, <1>5 DEF Progress, Reloads
<1> QED
  BY <1>1, <1>4, <1>5 DEF InductiveInv

(* Nothing happens.                                                        *)
LEMMA StutterInv ==
  ASSUME InductiveInv, UNCHANGED vars
  PROVE  InductiveInv'
<1>1. TypeOK' /\ ProperOptions' /\ alone' = alone
  BY DEF InductiveInv, TypeOK, ProperOptions, vars, routerVars
<1>2. \A p \in Process : Progress(p) => Progress(p)'
  BY DEF Progress, vars, routerVars
<1> QED
  BY <1>1, <1>2 DEF InductiveInv

(* Through every step of every process, whatever fails and however often   *)
(* the router reboots, the options on the router and on their way to it    *)
(* stay proper, and a call that nobody races with comes as far as its next *)
(* command says.                                                           *)
THEOREM Invariance == Spec => []InductiveInv
<1>1. Init => InductiveInv
  BY InitInv
<1>2. InductiveInv /\ [Next]_vars => InductiveInv'
  <2> SUFFICES ASSUME InductiveInv, [Next]_vars PROVE InductiveInv'
    OBVIOUS
  <2>1. CASE \E p \in Process, t \in Task : Call(p, t)
    BY <2>1, CallInv
  <2>2. CASE \E p \in Process : Get(p) \/ Set(p) \/ Commit(p)
    BY <2>2, GetInv, SetInv, CommitInv
  <2>3. CASE \E p \in Process : CommandFails(p) \/ reloadDnsmasq(p) \/ ReloadFails(p)
    BY <2>3, CommandFailsInv, ReloadInv, ReloadFailsInv
  <2>4. CASE Reboot
    BY <2>4, RebootInv
  <2>5. CASE UNCHANGED vars
    BY <2>5, StutterInv
  <2> QED
    BY <2>1, <2>2, <2>3, <2>4, <2>5 DEF Next, Rest
<1> QED
  BY <1>1, <1>2, PTL DEF Spec

-----------------------------------------------------------------------------
(* A CreateRecord or DeleteRecord that returned without an error while     *)
(* nobody raced with it has taken hold, on a router of any state and after *)
(* any number of failures and reboots (WriteTakesHold).                    *)
THEOREM SuccessTakesHold == Spec => []WriteTakesHold
<1>1. InductiveInv => WriteTakesHold
  <2> SUFFICES ASSUME InductiveInv, NEW p \in Process, result[p] = "ok", alone[p]
               PROVE  /\ running = nvram /\ flash = nvram
                      /\ lookupDNSEntry(running, task[p].host) = Asked(task[p])
    BY DEF WriteTakesHold
  <2>1. Progress(p)
    BY DEF InductiveInv
  <2>2. running = nvram /\ flash = nvram /\ lookupDNSEntry(nvram, task[p].host) = Asked(task[p])
    BY <2>1 DEF Progress
  <2> QED
    BY <2>2
<1> QED
  BY <1>1, Invariance, PTL

(* What others put into dnsmasq_options is there for good, in its order,   *)
(* even when replicas race (ForeignLinesKept).                             *)
THEOREM ForeignStays == Spec => []ForeignLinesKept
<1>1. InductiveInv => ForeignLinesKept
  BY DEF InductiveInv, ProperOptions, Proper, ForeignLinesKept
<1> QED
  BY <1>1, Invariance, PTL

(* No cluster has two lines, even when replicas race (OneLinePerHost).     *)
THEOREM NoSecondLine == Spec => []OneLinePerHost
<1>1. InductiveInv => OneLinePerHost
  BY DEF InductiveInv, ProperOptions, Proper, OneLinePerHost
<1> QED
  BY <1>1, Invariance, PTL

(* Without a reboot or a race, a call changes the record of its own        *)
(* cluster only (OthersKept).                                              *)
THEOREM OnlyOwnRecord == Spec => OthersKept
<1> DEFINE A == reboots' = reboots =>
                  \A h \in Hostname : lookupDNSEntry(nvram', h) # lookupDNSEntry(nvram, h) =>
                    \E p \in Process : step[p] = "set" /\ (alone[p] => task[p].host = h)
<1>1. InductiveInv /\ [Next]_vars => [A]_vars
  <2> SUFFICES ASSUME InductiveInv, Next, reboots' = reboots, NEW h \in Hostname,
                      lookupDNSEntry(nvram', h) # lookupDNSEntry(nvram, h)
               PROVE  \E p \in Process : step[p] = "set" /\ (alone[p] => task[p].host = h)
    OBVIOUS
  <2>1. nvram' # nvram
    OBVIOUS
  <2>2. PICK p \in Process : step[p] = "set" /\ nvram' = updated[p]
    <3>1. CASE Reboot
      <4>1. reboots' = reboots + 1 /\ reboots \in Nat
        BY <3>1 DEF Reboot, InductiveInv, TypeOK
      <4> QED
        BY <4>1
    <3>2. CASE \E p \in Process, t \in Task : Call(p, t)
      BY <2>1, <3>2 DEF Call, routerVars
    <3>3. CASE \E p \in Process :
                 Get(p) \/ Set(p) \/ Commit(p) \/ CommandFails(p) \/ reloadDnsmasq(p) \/ ReloadFails(p)
      BY <2>1, <3>3 DEF Get, Set, Commit, CommandFails, reloadDnsmasq, ReloadFails, routerVars
    <3>4. CASE Rest
      BY <2>1, <3>4 DEF Rest, vars, routerVars
    <3> QED
      BY <3>1, <3>2, <3>3, <3>4 DEF Next
  <2>3. ASSUME alone[p] PROVE task[p].host = h
    <3>1. task[p] \in Task /\ Progress(p)
      BY <2>2, <2>3, AtWork
    <3>2. nvram' = Updated(task[p], nvram)
      BY <2>2, <3>1 DEF Progress
    <3>3. Proper(nvram)
      BY DEF InductiveInv, ProperOptions
    <3>4. \A g \in Hostname \ {task[p].host} : lookupDNSEntry(nvram', g) = lookupDNSEntry(nvram, g)
      BY <3>1, <3>2, <3>3, UpdatedFacts
    <3> QED
      BY <3>4
  <2> QED
    BY <2>2, <2>3
<1> QED
  BY <1>1, Invariance, PTL DEF Spec, OthersKept

=============================================================================
