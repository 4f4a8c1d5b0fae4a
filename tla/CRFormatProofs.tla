--------------------------- MODULE CRFormatProofs ---------------------------
(***************************************************************************)
(* Proofs about the two conversions of internal/transform.go, for every    *)
(* set of networks, host parts, leases, statuses and cluster names, with   *)
(* any number of colons in them.                                           *)
(***************************************************************************)
EXTENDS CRFormat, IPLedgerProofs, TLAPS

(* The parts of a line before its lease.                                   *)
Named(d, info) ==
  <<Text(d)>> \o (IF info.status # <<>> /\ info.cluster # <<>> THEN info.status \o info.cluster ELSE <<>>)

(* The digit and the strings of an entry are parts without a lease, at     *)
(* their places.                                                           *)
LEMMA NamedFacts ==
  ASSUME NEW d, NEW info \in Spelled
  PROVE  /\ Named(d, info) \in Seq(TextPart \cup {Text(d)})
         /\ Named(d, info)[1] = Text(d)
         /\ Len(Named(d, info)) >= 1 /\ Len(Named(d, info)) \in Nat
         /\ info.status = <<>> \/ info.cluster = <<>> => Len(Named(d, info)) = 1
         /\ info.status # <<>> /\ info.cluster # <<>> =>
              /\ Len(info.status) \in Nat \ {0} /\ Len(info.cluster) \in Nat \ {0}
              /\ Len(Named(d, info)) = 1 + Len(info.status) + Len(info.cluster)
              /\ \A k \in 1..Len(info.status) : Named(d, info)[1 + k] = info.status[k]
              /\ \A k \in 1..Len(info.cluster) :
                   Named(d, info)[1 + Len(info.status) + k] = info.cluster[k]
              /\ \A k \in 2..Len(Named(d, info)) : Named(d, info)[k] \in TextPart
<1> DEFINE S == info.status
           C == info.cluster
           T == TextPart \cup {Text(d)}
<1>1. S \in Seq(TextPart) /\ C \in Seq(TextPart)
  BY DEF Spelled
<1>2. <<Text(d)>> \in Seq(T) /\ Len(<<Text(d)>>) = 1 /\ <<Text(d)>>[1] = Text(d)
  OBVIOUS
<1> HIDE DEF S, C
<1>3. CASE S = <<>> \/ C = <<>>
  <2>1. Named(d, info) = <<Text(d)>> \o <<>>
    BY <1>3, Zenon DEF Named, S, C
  <2> DEFINE N == <<Text(d)>> \o <<>>
  <2>2. N \in Seq(T) /\ Len(N) = 1 /\ N[1] = Text(d)
    BY <1>2
  <2> HIDE DEF N
  <2>3. Named(d, info) = N
    BY <2>1 DEF N
  <2>4. ~(info.status # <<>> /\ info.cluster # <<>>)
    BY <1>3, Zenon DEF S, C
  <2>5. Len(N) >= 1 /\ Len(N) \in Nat
    BY <2>2
  <2> QED
    BY <2>2, <2>3, <2>4, <2>5, Zenon
<1>4. CASE S # <<>> /\ C # <<>>
  <2>1. Named(d, info) = <<Text(d)>> \o (S \o C)
    BY <1>4 DEF Named, S, C
  <2>2. Len(S) \in Nat \ {0} /\ Len(C) \in Nat \ {0}
    BY <1>1, <1>4
  <2>3. /\ S \o C \in Seq(TextPart) /\ Len(S \o C) = Len(S) + Len(C)
        /\ \A k \in 1..Len(S) : (S \o C)[k] = S[k]
        /\ \A k \in 1..Len(C) : (S \o C)[Len(S) + k] = C[k]
    BY <1>1
  <2> DEFINE B == S \o C
             N == <<Text(d)>> \o B
  <2>4. B \in Seq(T) /\ Len(B) = Len(S) + Len(C) /\ \A k \in 1..Len(B) : B[k] \in TextPart
    BY <2>3
  <2> HIDE DEF B
  <2>5. N \in Seq(T) /\ Len(N) = 1 + Len(B) /\ N[1] = Text(d) /\ \A k \in 1..Len(B) : N[1 + k] = B[k]
    BY <1>2, <2>4
  <2> HIDE DEF N
  <2>6. \A k \in 1..Len(S) : N[1 + k] = S[k]
    BY <2>2, <2>3, <2>4, <2>5 DEF B
  <2>7. \A k \in 1..Len(C) : N[1 + Len(S) + k] = C[k]
    <3> SUFFICES ASSUME NEW k \in 1..Len(C) PROVE N[1 + Len(S) + k] = C[k]
      OBVIOUS
    <3>1. Len(S) + k \in 1..Len(B) /\ 1 + (Len(S) + k) = 1 + Len(S) + k
      BY <2>2, <2>4
    <3> QED
      BY <2>3, <2>5, <3>1 DEF B
  <2>8. \A k \in 2..Len(N) : N[k] \in TextPart
    <3> SUFFICES ASSUME NEW k \in 2..Len(N) PROVE N[k] \in TextPart
      OBVIOUS
    <3>1. k - 1 \in 1..Len(B) /\ 1 + (k - 1) = k
      BY <2>2, <2>4, <2>5
    <3> QED
      BY <2>4, <2>5, <3>1
  <2>9. Named(d, info) = N
    BY <2>1 DEF N, B
  <2>10. Len(N) >= 1 /\ Len(N) \in Nat /\ Len(N) = 1 + Len(S) + Len(C)
    BY <2>2, <2>4, <2>5
  <2> QED
    BY <1>4, <2>2, <2>5, <2>6, <2>7, <2>8, <2>9, <2>10, Zenon DEF S, C
<1> QED
  BY <1>3, <1>4

(* A line starts with its digit, and what is behind it are the strings and *)
(* the lease.                                                              *)
LEMMA LineFacts ==
  ASSUME NEW d, NEW info \in Spelled
  PROVE  /\ EntryLine(d, info)[1] = Text(d)
         /\ Parts(EntryLine(d, info)) = Named(d, info)
         /\ LeaseOf(EntryLine(d, info)) = info.lease
<1> DEFINE N == Named(d, info)
           e == Exp(info.lease)
           line == EntryLine(d, info)
           U == TextPart \cup {Text(d), e}
<1>1. line = N \o (IF info.lease # 0 THEN <<e>> ELSE <<>>)
  BY DEF EntryLine, Named
<1>2. /\ N \in Seq(TextPart \cup {Text(d)}) /\ N[1] = Text(d) /\ Len(N) >= 1 /\ Len(N) \in Nat
      /\ Len(N) = 1 \/ \A k \in 2..Len(N) : N[k] \in TextPart
  BY NamedFacts, Zenon
<1>3. N \in Seq(U)
  BY <1>2
<1>4. e[1] = "exp" /\ e[2] = info.lease /\ Text(d)[1] = "text"
  BY DEF Exp, Text
<1> HIDE DEF N, e, line
<1>5. CASE info.lease # 0
  <2>1. line = N \o <<e>>
    BY <1>1, <1>5
  <2>2. /\ line \in Seq(U) /\ Len(line) = Len(N) + 1 /\ line[Len(N) + 1] = e
        /\ \A k \in 1..Len(N) : line[k] = N[k]
    BY <1>2, <1>3, <2>1
  <2>3. Last(line) = e /\ Front(line) = SubSeq(line, 1, Len(N))
    BY <1>2, <2>2 DEF Last, Front
  <2>4. SubSeq(line, 1, Len(N)) = N
    BY <1>2, <1>3, <2>2
  <2>5. line[1] = Text(d)
    BY <1>2, <2>2
  <2> QED
    BY <1>4, <2>3, <2>4, <2>5 DEF Parts, LeaseOf, IsExp, N, line
<1>6. CASE info.lease = 0
  <2>1. line = N \o <<>>
    BY <1>1, <1>6
  <2>2. line = N
    BY <1>2, <1>3, <2>1
  <2>3. Last(line) = N[Len(N)]
    BY <2>2 DEF Last
  <2>4. N[Len(N)] \in TextPart \cup {Text(d)}
    BY <1>2
  <2>5. ~IsExp(Last(line))
    BY <1>4, <2>3, <2>4, FormatAssumption DEF IsExp
  <2> QED
    BY <1>2, <1>6, <2>2, <2>5 DEF Parts, LeaseOf, N, line
<1> QED
  BY <1>5, <1>6

(* What a saved entry comes back as.                                       *)
Stored(d, info) == ParsedEntry(EntryLine(d, info))

(* The lease comes back; an entry without a status or a cluster loses the  *)
(* other, and one that has come back once comes back as it is.             *)
LEMMA StoredFacts ==
  ASSUME NEW d, NEW info \in Spelled
  PROVE  /\ Stored(d, info) \in Spelled /\ Settled(Stored(d, info))
         /\ Stored(d, info).lease = info.lease
         /\ info.status = <<>> \/ info.cluster = <<>> =>
              Stored(d, info) = [status |-> <<>>, cluster |-> <<>>, lease |-> info.lease]
         /\ Settled(info) => Stored(d, info) = info
<1> DEFINE N == Named(d, info)
           S == info.status
           C == info.cluster
<1>0. S \in Seq(TextPart) /\ C \in Seq(TextPart) /\ info.lease \in Leases \cup {0}
      /\ info = [status |-> S, cluster |-> C, lease |-> info.lease]
  BY DEF Spelled
<1>1. Stored(d, info) = [status |-> ParsedStatus(N), cluster |-> ParsedCluster(N), lease |-> info.lease]
  BY LineFacts DEF Stored, ParsedEntry
<1>2. /\ Len(N) \in Nat
      /\ S = <<>> \/ C = <<>> => Len(N) = 1
      /\ S # <<>> /\ C # <<>> =>
           /\ Len(S) \in Nat \ {0} /\ Len(C) \in Nat \ {0}
           /\ Len(N) = 1 + Len(S) + Len(C)
           /\ \A k \in 1..Len(S) : N[1 + k] = S[k]
           /\ \A k \in 1..Len(C) : N[1 + Len(S) + k] = C[k]
           /\ \A k \in 2..Len(N) : N[k] \in TextPart
  BY NamedFacts, Zenon
<1> HIDE DEF N, S, C
<1>3. CASE S = <<>> \/ C = <<>>
  <2>1. Len(N) = 1
    BY <1>2, <1>3, Zenon
  <2>2. ParsedStatus(N) = <<>> /\ ParsedCluster(N) = <<>>
    BY <2>1 DEF ParsedStatus, ParsedCluster
  <2>3. Stored(d, info) = [status |-> <<>>, cluster |-> <<>>, lease |-> info.lease]
    BY <1>1, <2>2
  <2>4. Stored(d, info) \in Spelled /\ Settled(Stored(d, info)) /\ Stored(d, info).lease = info.lease
    BY <1>0, <2>3 DEF Spelled, Settled
  <2>5. Settled(info) => S = <<>> /\ C = <<>>
    <3>1. S = <<>> => Len(S) = 0
      OBVIOUS
    <3>2. C = <<>> => Len(C) = 0
      OBVIOUS
    <3> QED
      BY <1>3, <3>1, <3>2 DEF Settled, S, C
  <2>6. Settled(info) => Stored(d, info) = info
    BY <1>0, <2>3, <2>5
  <2> QED
    BY <2>3, <2>4, <2>6
<1>4. CASE S # <<>> /\ C # <<>>
  <2>1. /\ Len(S) \in Nat \ {0} /\ Len(C) \in Nat \ {0}
        /\ Len(N) = 1 + Len(S) + Len(C)
        /\ \A k \in 1..Len(S) : N[1 + k] = S[k]
        /\ \A k \in 1..Len(C) : N[1 + Len(S) + k] = C[k]
        /\ \A k \in 2..Len(N) : N[k] \in TextPart
    BY <1>2, <1>4, Zenon
  <2>2. Len(N) >= 3 /\ N[2] \in TextPart /\ N[3] \in TextPart /\ (Len(N) = 4 => N[4] \in TextPart)
    BY <2>1
  <2>3. /\ ParsedStatus(N) = IF Len(N) = 4 THEN <<N[2], N[3]>> ELSE <<N[2]>>
        /\ ParsedCluster(N) = IF Len(N) = 4 THEN <<N[4]>> ELSE <<N[3]>>
    BY <2>2 DEF ParsedStatus, ParsedCluster
  <2>4. /\ ParsedStatus(N) \in Seq(TextPart) /\ Len(ParsedStatus(N)) \in {1, 2}
        /\ ParsedCluster(N) \in Seq(TextPart) /\ Len(ParsedCluster(N)) = 1
    BY <2>2, <2>3
  <2>5. Stored(d, info) \in Spelled /\ Settled(Stored(d, info)) /\ Stored(d, info).lease = info.lease
    BY <1>0, <1>1, <2>4 DEF Spelled, Settled
  <2>6. ASSUME Settled(info) PROVE ParsedStatus(N) = S /\ ParsedCluster(N) = C
    <3>1. Len(S) \in {1, 2} /\ Len(C) = 1
      BY <1>4, <2>6 DEF Settled, S, C
    <3>2. CASE Len(S) = 1
      <4>1. Len(N) = 3 /\ N[2] = S[1] /\ N[3] = C[1]
        BY <2>1, <3>1, <3>2
      <4>2. S = <<N[2]>> /\ C = <<N[3]>>
        BY <1>0, <3>1, <3>2, <4>1
      <4> QED
        BY <2>3, <4>1, <4>2
    <3>3. CASE Len(S) = 2
      <4>1. Len(N) = 4 /\ N[2] = S[1] /\ N[3] = S[2] /\ N[4] = C[1]
        BY <2>1, <3>1, <3>3
      <4>2. S = <<N[2], N[3]>> /\ C = <<N[4]>>
        BY <1>0, <3>1, <3>3, <4>1
      <4> QED
        BY <2>3, <4>1, <4>2
    <3> QED
      BY <3>1, <3>2, <3>3
  <2>7. Settled(info) => Stored(d, info) = info
    BY <1>0, <1>1, <2>6
  <2> QED
    BY <1>4, <2>5, <2>7, Zenon DEF S, C
<1> QED
  BY <1>3, <1>4, Zenon

-----------------------------------------------------------------------------
(* Ledgers.                                                                *)

SpelledLedger == [Network -> [Digit -> Spelled \cup {NoEntry}] \cup {NoPool}]

StoredLedger(l) ==
  [n \in Network |->
     IF \E d \in Digit : InPool(l, n, d)
       THEN [d \in Digit |-> IF InPool(l, n, d) THEN Stored(d, l[n][d]) ELSE NoEntry]
       ELSE NoPool]

(* An entry of a ledger of spelled entries is one.                         *)
LEMMA EntryFacts ==
  ASSUME NEW l \in SpelledLedger, NEW n \in Network, NEW d \in Digit, InPool(l, n, d)
  PROVE  l[n][d] \in Spelled /\ l[n][d] # NoEntry /\ l[n] # NoPool
<1>1. l[n] # NoPool /\ l[n][d] # NoEntry
  BY DEF InPool, Configured
<1>2. l[n] \in [Digit -> Spelled \cup {NoEntry}] \cup {NoPool}
  BY DEF SpelledLedger
<1>3. l[n] \in [Digit -> Spelled \cup {NoEntry}]
  BY <1>1, <1>2
<1>4. l[n][d] \in Spelled \cup {NoEntry}
  BY <1>3
<1> QED
  BY <1>1, <1>4

(* Saving and loading stores every entry by itself: no line is taken for   *)
(* that of another host part.                                              *)
LEMMA ConvertFacts ==
  ASSUME NEW l \in SpelledLedger
  PROVE  ConvertFromCRFormat(ConvertToCRFormat(l)) = StoredLedger(l)
<1> DEFINE data == ConvertToCRFormat(l)
           P(n) == {x \in Digit : InPool(l, n, x)}
           Load(n) == [d \in Digit |->
                        IF \E line \in data[n] : line[1] = Text(d)
                          THEN ParsedEntry(CHOOSE line \in data[n] : line[1] = Text(d))
                          ELSE NoEntry]
<1>1. \A n \in Network : n \in DOMAIN data <=> \E d \in Digit : InPool(l, n, d)
  BY DEF ConvertToCRFormat
<1>2. \A n \in DOMAIN data : data[n] = {EntryLine(d, l[n][d]) : d \in P(n)}
  BY DEF ConvertToCRFormat
<1>3. ConvertFromCRFormat(data) = [n \in Network |-> IF n \notin DOMAIN data THEN NoPool ELSE Load(n)]
  BY DEF ConvertFromCRFormat
<1> HIDE DEF data
<1>4. ASSUME NEW n \in Network, n \in DOMAIN data, NEW d \in Digit
      PROVE  Load(n)[d] = IF InPool(l, n, d) THEN Stored(d, l[n][d]) ELSE NoEntry
  <2>1. \A x \in P(n) : EntryLine(x, l[n][x])[1] = Text(x)
    BY EntryFacts, LineFacts
  <2>2. \A x, y : Text(x) = Text(y) => x = y
    BY DEF Text
  <2>3. CASE InPool(l, n, d)
    <3>1. EntryLine(d, l[n][d]) \in data[n] /\ EntryLine(d, l[n][d])[1] = Text(d)
      BY <1>2, <1>4, <2>1, <2>3
    <3>2. \A line \in data[n] : line[1] = Text(d) => line = EntryLine(d, l[n][d])
      <4> SUFFICES ASSUME NEW line \in data[n], line[1] = Text(d)
                   PROVE  line = EntryLine(d, l[n][d])
        OBVIOUS
      <4>1. PICK x \in P(n) : line = EntryLine(x, l[n][x])
        BY <1>2, <1>4
      <4>2. Text(x) = Text(d)
        BY <2>1, <4>1
      <4>3. x = d
        BY <2>2, <4>2
      <4> QED
        BY <4>1, <4>3
    <3>3. (CHOOSE line \in data[n] : line[1] = Text(d)) = EntryLine(d, l[n][d])
      BY <3>1, <3>2
    <3> QED
      BY <2>3, <3>1, <3>3 DEF Stored
  <2>4. CASE ~InPool(l, n, d)
    <3>1. \A line \in data[n] : line[1] # Text(d)
      <4> SUFFICES ASSUME NEW line \in data[n], line[1] = Text(d) PROVE FALSE
        OBVIOUS
      <4>1. PICK x \in P(n) : line = EntryLine(x, l[n][x])
        BY <1>2, <1>4
      <4>2. Text(x) = Text(d)
        BY <2>1, <4>1
      <4>3. x = d
        BY <2>2, <4>2
      <4> QED
        BY <2>4, <4>3
    <3> QED
      BY <2>4, <3>1
  <2> QED
    BY <2>3, <2>4
<1>5. ASSUME NEW n \in Network
      PROVE  (IF n \notin DOMAIN data THEN NoPool ELSE Load(n)) = StoredLedger(l)[n]
  <2>1. CASE n \in DOMAIN data
    <3>1. StoredLedger(l)[n] = [d \in Digit |-> IF InPool(l, n, d) THEN Stored(d, l[n][d]) ELSE NoEntry]
      BY <1>1, <2>1 DEF StoredLedger
    <3>2. Load(n) = [d \in Digit |-> Load(n)[d]]
      OBVIOUS
    <3>3. \A d \in Digit : Load(n)[d] = IF InPool(l, n, d) THEN Stored(d, l[n][d]) ELSE NoEntry
      BY <1>4, <2>1
    <3> HIDE DEF Load
    <3>4. Load(n) = StoredLedger(l)[n]
      BY <3>1, <3>2, <3>3
    <3> QED
      BY <2>1, <3>4
  <2>2. CASE n \notin DOMAIN data
    BY <1>1, <2>2 DEF StoredLedger
  <2> QED
    BY <2>1, <2>2
<1> HIDE DEF Load
<1>6. StoredLedger(l) = [n \in Network |-> StoredLedger(l)[n]]
  BY DEF StoredLedger
<1>7. ConvertFromCRFormat(data) = StoredLedger(l)
  BY <1>3, <1>5, <1>6
<1> QED
  BY <1>7 DEF data

(* It keeps who is in the pool, and what it gives is settled.              *)
LEMMA StoredLedgerFacts ==
  ASSUME NEW l \in SpelledLedger
  PROVE  /\ StoredLedger(l) \in SpelledLedger
         /\ \A n \in Network, d \in Digit :
              /\ InPool(StoredLedger(l), n, d) <=> InPool(l, n, d)
              /\ InPool(l, n, d) => StoredLedger(l)[n][d] = Stored(d, l[n][d])
         /\ \A n \in Network :
              Configured(StoredLedger(l), n) <=> \E d \in Digit : InPool(l, n, d)
<1> DEFINE s == StoredLedger(l)
           Q(n) == [d \in Digit |-> IF InPool(l, n, d) THEN Stored(d, l[n][d]) ELSE NoEntry]
<1>1. \A n \in Network, d \in Digit : InPool(l, n, d) => Stored(d, l[n][d]) \in Spelled
  BY EntryFacts, StoredFacts
<1>2. NoEntry \notin Spelled /\ NoPool \notin [Digit -> Spelled \cup {NoEntry}]
  BY FormatAssumption
<1>3. \A n \in Network : Q(n) \in [Digit -> Spelled \cup {NoEntry}]
  BY <1>1
<1>4. \A n \in Network, d \in Digit : Q(n)[d] = IF InPool(l, n, d) THEN Stored(d, l[n][d]) ELSE NoEntry
  OBVIOUS
<1>5. s = [n \in Network |-> IF \E d \in Digit : InPool(l, n, d) THEN Q(n) ELSE NoPool]
  BY DEF StoredLedger
<1> HIDE DEF Q
<1>6. s \in SpelledLedger
  BY <1>3, <1>5 DEF SpelledLedger
<1>7. \A n \in Network : s[n] = IF \E d \in Digit : InPool(l, n, d) THEN Q(n) ELSE NoPool
  BY <1>5
<1> HIDE DEF s
<1>8. \A n \in Network : Configured(s, n) <=> \E d \in Digit : InPool(l, n, d)
  BY <1>2, <1>3, <1>7 DEF Configured
<1>9. ASSUME NEW n \in Network, NEW d \in Digit
      PROVE  (InPool(s, n, d) <=> InPool(l, n, d)) /\ (InPool(l, n, d) => s[n][d] = Stored(d, l[n][d]))
  <2>1. CASE InPool(l, n, d)
    <3>1. s[n] = Q(n) /\ s[n] # NoPool
      BY <1>2, <1>3, <1>7, <2>1
    <3>2. s[n][d] = Stored(d, l[n][d])
      BY <1>4, <2>1, <3>1
    <3>3. s[n][d] # NoEntry
      BY <1>1, <1>2, <2>1, <3>2
    <3> QED
      BY <2>1, <3>1, <3>2, <3>3 DEF InPool, Configured
  <2>2. CASE ~InPool(l, n, d)
    <3>1. s[n] = NoPool \/ s[n][d] = NoEntry
      BY <1>4, <1>7, <2>2
    <3> QED
      BY <2>2, <3>1 DEF InPool, Configured
  <2> QED
    BY <2>1, <2>2
<1> QED
  BY <1>6, <1>8, <1>9 DEF s

-----------------------------------------------------------------------------
(* What a ledger is like that has been loaded from a CR.                   *)
Loaded(l) ==
  \A n \in Network : Configured(l, n) =>
    /\ \E d \in Digit : InPool(l, n, d)
    /\ \A d \in Digit : InPool(l, n, d) => Settled(l[n][d])

(* A save and a load make a ledger such a one, ...                         *)
LEMMA StoredIsLoaded ==
  ASSUME NEW l \in SpelledLedger
  PROVE  Loaded(StoredLedger(l))
<1> DEFINE s == StoredLedger(l)
<1>1. /\ \A n \in Network, d \in Digit :
           /\ InPool(s, n, d) <=> InPool(l, n, d)
           /\ InPool(l, n, d) => s[n][d] = Stored(d, l[n][d])
      /\ \A n \in Network : Configured(s, n) <=> \E d \in Digit : InPool(l, n, d)
  BY StoredLedgerFacts
<1>2. \A n \in Network, d \in Digit : InPool(l, n, d) => Settled(Stored(d, l[n][d]))
  BY EntryFacts, StoredFacts
<1> HIDE DEF s
<1>3. \A n \in Network, d \in Digit : InPool(s, n, d) => Settled(s[n][d])
  BY <1>1, <1>2, Zenon
<1>4. Loaded(s)
  BY <1>1, <1>3, Zenon DEF Loaded
<1> QED
  BY <1>4 DEF s

(* ... which is not changed by another.                                    *)
LEMMA LoadedIsStable ==
  ASSUME NEW l \in SpelledLedger, Loaded(l)
  PROVE  StoredLedger(l) = l
<1>1. ASSUME NEW n \in Network PROVE StoredLedger(l)[n] = l[n]
  <2>1. CASE ~Configured(l, n)
    <3>1. \A d \in Digit : ~InPool(l, n, d)
      BY <2>1 DEF InPool
    <3> QED
      BY <2>1, <3>1 DEF StoredLedger, Configured
  <2>2. CASE Configured(l, n)
    <3>1. /\ \E d \in Digit : InPool(l, n, d)
          /\ \A d \in Digit : InPool(l, n, d) => Settled(l[n][d])
      BY <2>2, Zenon DEF Loaded
    <3>2. \A d \in Digit : InPool(l, n, d) => Stored(d, l[n][d]) = l[n][d]
      BY <3>1, EntryFacts, StoredFacts
    <3>3. \A d \in Digit : ~InPool(l, n, d) => l[n][d] = NoEntry
      BY <2>2 DEF InPool
    <3>4. l[n] \in [Digit -> Spelled \cup {NoEntry}]
      <4>1. l[n] \in [Digit -> Spelled \cup {NoEntry}] \cup {NoPool}
        BY DEF SpelledLedger
      <4> QED
        BY <2>2, <4>1 DEF Configured
    <3>5. StoredLedger(l)[n] = [d \in Digit |-> IF InPool(l, n, d) THEN Stored(d, l[n][d]) ELSE NoEntry]
      BY <3>1 DEF StoredLedger
    <3>6. l[n] = [d \in Digit |-> l[n][d]]
      BY <3>4
    <3>7. \A d \in Digit : l[n][d] = IF InPool(l, n, d) THEN Stored(d, l[n][d]) ELSE NoEntry
      BY <3>2, <3>3
    <3> QED
      BY <3>5, <3>6, <3>7
  <2> QED
    BY <2>1, <2>2
<1>2. l = [n \in Network |-> l[n]]
  BY DEF SpelledLedger
<1>3. StoredLedger(l) = [n \in Network |-> StoredLedger(l)[n]]
  BY DEF StoredLedger
<1> QED
  BY <1>1, <1>2, <1>3

(* The first ledger has entries of the instance's strings.                 *)
LEMMA InitInv == Init => InductiveInv
<1> SUFFICES ASSUME Init PROVE InductiveInv
  OBVIOUS
<1>1. \A s \in Statuses \cup Clusters : s \in Seq(TextPart)
  <2> SUFFICES ASSUME NEW s \in Statuses \cup Clusters PROVE s \in Seq(TextPart)
    OBVIOUS
  <2>1. s \in Seq({s[k] : k \in DOMAIN s})
    BY FormatAssumption
  <2>2. \A k \in DOMAIN s : s[k] \in TextPart
    BY DEF TextPart
  <2> QED
    BY <2>1, <2>2
<1>2. \A e \in Raw : e \in Spelled
  BY <1>1 DEF Raw, Spelled
<1>3. ledger \in [Network -> [Digit -> Spelled \cup {NoEntry}] \cup {NoPool}]
  <2>1. \A f \in [Digit -> Raw \cup {NoEntry}] : f \in [Digit -> Spelled \cup {NoEntry}]
    BY <1>2
  <2>2. ledger \in [Network -> [Digit -> Raw \cup {NoEntry}] \cup {NoPool}]
    BY DEF Init, RawLedger
  <2> QED
    BY <2>1, <2>2
<1>4. saves = 0
  BY DEF Init
<1> QED
  BY <1>3, <1>4 DEF InductiveInv

(* One save and load.                                                      *)
LEMMA SaveAndLoadFacts ==
  ASSUME InductiveInv, SaveAndLoad
  PROVE  ledger \in SpelledLedger /\ ledger' = StoredLedger(ledger) /\ InductiveInv'
<1>1. ledger \in SpelledLedger /\ saves \in 0..2
  BY DEF InductiveInv, SpelledLedger
<1>2. ledger' = StoredLedger(ledger)
  BY <1>1, ConvertFacts DEF SaveAndLoad
<1>3. saves' \in 0..2
  BY <1>1 DEF SaveAndLoad
<1>4. StoredLedger(ledger) \in SpelledLedger /\ Loaded(StoredLedger(ledger))
  BY <1>1, StoredLedgerFacts, StoredIsLoaded
<1>5. ledger' \in SpelledLedger /\ Loaded(ledger')
  BY <1>2, <1>4
<1> QED
  BY <1>1, <1>2, <1>3, <1>5 DEF InductiveInv, SpelledLedger, Loaded

(* However often a ledger is saved and loaded, its entries stay readable,  *)
(* and after the first time all of them are settled.                       *)
THEOREM Invariance == Spec => []InductiveInv
<1>1. InductiveInv /\ [Next]_vars => InductiveInv'
  <2> SUFFICES ASSUME InductiveInv, [Next]_vars PROVE InductiveInv'
    OBVIOUS
  <2>1. CASE SaveAndLoad
    BY <2>1, SaveAndLoadFacts
  <2>2. CASE UNCHANGED vars
    BY <2>2 DEF vars, InductiveInv, Configured, InPool
  <2> QED
    BY <2>1, <2>2 DEF Next, Done, vars
<1> QED
  BY <1>1, InitInv, PTL DEF Spec

(* No lease and no address of a pool is lost in the CR, whatever the shape *)
(* of status and cluster (LeaseSurvives).                                  *)
THEOREM LeasesSurvive == Spec => LeaseSurvives
<1> DEFINE A == \A n \in Network, d \in Digit :
                  /\ InPool(ledger, n, d) <=> InPool(ledger', n, d)
                  /\ InPool(ledger, n, d) => ledger'[n][d].lease = ledger[n][d].lease
<1>1. InductiveInv /\ [Next]_vars => [A]_ledger
  <2> SUFFICES ASSUME InductiveInv, [Next]_vars, ledger' # ledger PROVE A
    BY Zenon
  <2>1. SaveAndLoad
    BY DEF Next, Done, vars
  <2>2. ledger \in SpelledLedger /\ ledger' = StoredLedger(ledger)
    BY <2>1, SaveAndLoadFacts
  <2>3. \A n \in Network, d \in Digit :
          /\ InPool(StoredLedger(ledger), n, d) <=> InPool(ledger, n, d)
          /\ InPool(ledger, n, d) => StoredLedger(ledger)[n][d] = Stored(d, ledger[n][d])
    BY <2>2, StoredLedgerFacts
  <2>4. \A n \in Network, d \in Digit : InPool(ledger, n, d) => Stored(d, ledger[n][d]).lease = ledger[n][d].lease
    BY <2>2, EntryFacts, StoredFacts
  <2>5. ASSUME NEW n \in Network, NEW d \in Digit
        PROVE  /\ InPool(ledger, n, d) <=> InPool(ledger', n, d)
               /\ InPool(ledger, n, d) => ledger'[n][d].lease = ledger[n][d].lease
    <3>1. InPool(ledger', n, d) <=> InPool(ledger, n, d)
      BY <2>2, <2>3
    <3>2. ASSUME InPool(ledger, n, d) PROVE ledger'[n][d].lease = ledger[n][d].lease
      BY <2>2, <2>3, <2>4, <3>2
    <3> QED
      BY <3>1, <3>2, Zenon
  <2> QED
    BY <2>5
<1> QED
  BY <1>1, Invariance, PTL DEF Spec, LeaseSurvives

(* Saving what was loaded from a CR changes nothing (ConversionIsStable).  *)
THEOREM RewritesAreHarmless == Spec => ConversionIsStable
<1>1. InductiveInv /\ [Next]_vars => [saves >= 1 => ledger' = ledger]_vars
  <2> SUFFICES ASSUME InductiveInv, Next, saves >= 1 PROVE ledger' = ledger
    OBVIOUS
  <2>1. CASE SaveAndLoad
    <3>1. ledger \in SpelledLedger /\ ledger' = StoredLedger(ledger)
      BY <2>1, SaveAndLoadFacts
    <3>2. Loaded(ledger)
      BY DEF InductiveInv, Loaded
    <3> QED
      BY <3>1, <3>2, LoadedIsStable
  <2>2. CASE Done
    BY <2>2 DEF Done
  <2> QED
    BY <2>1, <2>2 DEF Next
<1> QED
  BY <1>1, Invariance, PTL DEF Spec, ConversionIsStable

-----------------------------------------------------------------------------
(* The conversions and RoundTrip of IPLedger.                              *)

(* The statuses of IPLedger have one or two parts, but for the empty one.  *)
LEMMA SpellFacts ==
  ASSUME NEW s \in Status
  PROVE  IF s = "" THEN Spell(s) = <<>> ELSE Len(Spell(s)) \in {1, 2} /\ Spell(s) # <<>>
<1>1. s \in {"", "ASSIGNED", "PENDING", "ASSIGNED:DNS", "PENDING:DNS"}
  BY StatusValues
<1>2. /\ Spell("") = <<>>
      /\ Spell("ASSIGNED") = <<Text("ASSIGNED")>> /\ Spell("PENDING") = <<Text("PENDING")>>
      /\ Spell("ASSIGNED:DNS") = <<Text("ASSIGNED"), Text("DNS")>>
      /\ Spell("PENDING:DNS") = <<Text("PENDING"), Text("DNS")>>
  BY DEF Spell
<1>3. /\ \A x : Len(<<x>>) = 1 /\ <<x>> # <<>>
      /\ \A x, y : Len(<<x, y>>) = 2 /\ <<x, y>> # <<>>
  OBVIOUS
<1> QED
  BY <1>1, <1>2, <1>3

(* What an entry that handlers write stands for.                           *)
LEMMA AbstractFacts ==
  ASSUME NEW info \in Spelled, Handled(info)
  PROVE  /\ Abstract(info) \in Abstracted
         /\ Abstract(info).lease = info.lease
         /\ isFree(Abstract(info)) <=> info.status = <<>>
         /\ Abstract(info).cluster = NoCluster <=> info.cluster = <<>>
         /\ info.status # <<>> /\ info.cluster # <<>> => Settled(info)
<1> DEFINE st == CHOOSE s \in Status : Spell(s) = info.status
           cl == IF info.cluster = <<>> THEN NoCluster ELSE info.cluster[1][2]
<1>1. (\E s \in Status : Spell(s) = info.status) /\ Len(info.cluster) <= 1
  BY DEF Handled
<1>2. st \in Status /\ Spell(st) = info.status
  BY <1>1
<1>3. info.cluster \in Seq(TextPart) /\ info.lease \in Leases \cup {0}
  BY DEF Spelled
<1>4. info.cluster # <<>> => Len(info.cluster) = 1 /\ info.cluster[1] \in TextPart
  <2>1. \A c \in Seq(TextPart) : c # <<>> /\ Len(c) <= 1 => Len(c) = 1 /\ c[1] \in TextPart
    <3> SUFFICES ASSUME NEW c \in Seq(TextPart), c # <<>>, Len(c) <= 1
                 PROVE  Len(c) = 1 /\ c[1] \in TextPart
      OBVIOUS
    <3>1. Len(c) \in Nat \ {0}
      OBVIOUS
    <3>2. Len(c) = 1
      BY <3>1
    <3> QED
      BY <3>2
  <2> QED
    BY <1>1, <1>3, <2>1
<1>5. info.cluster # <<>> => info.cluster[1][2] # NoCluster /\ info.cluster[1][2] \in {x[2] : x \in TextPart}
  BY <1>4, FormatAssumption
<1>6. Abstract(info) = [status |-> st, cluster |-> cl, lease |-> info.lease]
  BY DEF Abstract
<1>7. cl = NoCluster <=> info.cluster = <<>>
  BY <1>5
<1>8. cl \in {x[2] : x \in TextPart} \cup {NoCluster}
  BY <1>5
<1>9. st = "" <=> info.status = <<>>
  BY <1>2, SpellFacts
<1>10. info.status # <<>> => Len(info.status) \in {1, 2}
  BY <1>2, <1>9, SpellFacts
<1> HIDE DEF st, cl
<1>11. Abstract(info) \in Abstracted /\ Abstract(info).lease = info.lease
  BY <1>2, <1>3, <1>6, <1>8 DEF Abstracted
<1>12. isFree(Abstract(info)) <=> info.status = <<>>
  <2>1. Abstract(info).status = st
    BY <1>6
  <2>2. isFree(Abstract(info)) <=> st = ""
    BY <2>1, Zenon DEF isFree
  <2> QED
    BY <1>9, <2>2, Zenon
<1>13. Abstract(info).cluster = NoCluster <=> info.cluster = <<>>
  BY <1>6, <1>7
<1>14. info.status # <<>> /\ info.cluster # <<>> => Settled(info)
  BY <1>4, <1>10 DEF Settled
<1> QED
  BY <1>11, <1>12, <1>13, <1>14, Zenon

(* One entry comes back as RoundTrip says.                                 *)
LEMMA StoredIsRoundTrip ==
  ASSUME NEW d, NEW info \in Spelled, Handled(info)
  PROVE  Abstract(Stored(d, info)) =
           IF isFree(Abstract(info)) \/ Abstract(info).cluster = NoCluster
             THEN [Blank EXCEPT !.lease = Abstract(info).lease] ELSE Abstract(info)
<1>1. /\ Abstract(info).lease = info.lease
      /\ isFree(Abstract(info)) <=> info.status = <<>>
      /\ Abstract(info).cluster = NoCluster <=> info.cluster = <<>>
      /\ info.status # <<>> /\ info.cluster # <<>> => Settled(info)
  BY AbstractFacts
<1>2. CASE info.status = <<>> \/ info.cluster = <<>>
  <2> DEFINE e == [status |-> <<>>, cluster |-> <<>>, lease |-> info.lease]
  <2>1. Stored(d, info) = e
    BY <1>2, StoredFacts, Zenon
  <2>2. (CHOOSE s \in Status : Spell(s) = <<>>) = ""
    <3>1. "" \in Status /\ Spell("") = <<>>
      BY DEF Status, Spell
    <3>2. \A s \in Status : Spell(s) = <<>> => s = ""
      BY SpellFacts
    <3> QED
      BY <3>1, <3>2
  <2>3. e.status = <<>> /\ e.cluster = <<>> /\ e.lease = info.lease
    OBVIOUS
  <2> HIDE DEF e
  <2>4. Abstract(e) = [status |-> "", cluster |-> NoCluster, lease |-> info.lease]
    BY <2>2, <2>3 DEF Abstract
  <2>5. [Blank EXCEPT !.lease = info.lease] = [status |-> "", cluster |-> NoCluster, lease |-> info.lease]
    <3>1. PICK a, b, c : a = "" /\ b = NoCluster /\ c = 0
      OBVIOUS
    <3>2. Blank = [status |-> a, cluster |-> b, lease |-> c]
      BY <3>1 DEF Blank
    <3>3. [Blank EXCEPT !.lease = info.lease] = [status |-> a, cluster |-> b, lease |-> info.lease]
      BY <3>2
    <3> QED
      BY <3>1, <3>3
  <2>6. isFree(Abstract(info)) \/ Abstract(info).cluster = NoCluster
    BY <1>1, <1>2, Zenon
  <2> QED
    BY <1>1, <2>1, <2>4, <2>5, <2>6
<1>3. CASE info.status # <<>> /\ info.cluster # <<>>
  <2>1. Stored(d, info) = info
    BY <1>1, <1>3, StoredFacts
  <2>2. ~(isFree(Abstract(info)) \/ Abstract(info).cluster = NoCluster)
    BY <1>1, <1>3, Zenon
  <2> QED
    BY <2>1, <2>2
<1> QED
  BY <1>2, <1>3, Zenon

(* So does a ledger.                                                       *)
LEMMA LedgerRoundTrip ==
  ASSUME NEW l \in SpelledLedger,
         \A n \in Network, d \in Digit : InPool(l, n, d) => Handled(l[n][d])
  PROVE  AbstractLedger(StoredLedger(l)) = RoundTrip(AbstractLedger(l))
<1> DEFINE s == StoredLedger(l)
           A == AbstractLedger(l)
           B == AbstractLedger(s)
           Q(n) == [d \in Digit |-> IF InPool(l, n, d) THEN Abstract(l[n][d]) ELSE NoEntry]
<1>1. \A n \in Network, d \in Digit : InPool(l, n, d) => l[n][d] \in Spelled /\ Handled(l[n][d])
  BY EntryFacts
<1>2. \A n \in Network, d \in Digit : InPool(l, n, d) => Abstract(l[n][d]) \in Abstracted
  BY <1>1, AbstractFacts
<1>3. NoEntry \notin Abstracted /\ NoPool \notin [Digit -> Abstracted \cup {NoEntry}]
  BY FormatAssumption
<1>4. \A n \in Network : Q(n) \in [Digit -> Abstracted \cup {NoEntry}]
  BY <1>2
<1>5. \A n \in Network, d \in Digit : Q(n)[d] = IF InPool(l, n, d) THEN Abstract(l[n][d]) ELSE NoEntry
  OBVIOUS
<1>6. \A n \in Network : A[n] = IF Configured(l, n) THEN Q(n) ELSE NoPool
  BY DEF AbstractLedger
<1> HIDE DEF Q, A
<1>7. ASSUME NEW n \in Network, NEW d \in Digit
      PROVE  /\ InPool(A, n, d) <=> InPool(l, n, d)
             /\ InPool(l, n, d) => A[n][d] = Abstract(l[n][d])
  <2>1. CASE InPool(l, n, d)
    <3>1. Configured(l, n)
      BY <2>1 DEF InPool
    <3>2. A[n] = Q(n) /\ A[n] # NoPool
      BY <1>3, <1>4, <1>6, <3>1
    <3>3. A[n][d] = Abstract(l[n][d])
      BY <1>5, <2>1, <3>2
    <3>4. A[n][d] # NoEntry
      BY <1>2, <1>3, <2>1, <3>3
    <3> QED
      BY <2>1, <3>2, <3>3, <3>4 DEF InPool, Configured
  <2>2. CASE ~InPool(l, n, d)
    <3>1. A[n] = NoPool \/ A[n][d] = NoEntry
      BY <1>5, <1>6, <2>2
    <3> QED
      BY <2>2, <3>1 DEF InPool, Configured
  <2> QED
    BY <2>1, <2>2
<1>8. /\ \A n \in Network, d \in Digit :
           /\ InPool(s, n, d) <=> InPool(l, n, d)
           /\ InPool(l, n, d) => s[n][d] = Stored(d, l[n][d])
      /\ \A n \in Network : Configured(s, n) <=> \E d \in Digit : InPool(l, n, d)
  BY StoredLedgerFacts
<1> HIDE DEF s
<1>9. ASSUME NEW n \in Network PROVE B[n] = RoundTrip(A)[n]
  <2> DEFINE R == [d \in Digit |->
                     IF InPool(A, n, d) /\ (isFree(A[n][d]) \/ A[n][d].cluster = NoCluster)
                       THEN [Blank EXCEPT !.lease = A[n][d].lease] ELSE A[n][d]]
             D == [d \in Digit |-> IF InPool(s, n, d) THEN Abstract(s[n][d]) ELSE NoEntry]
  <2>1. CASE \A d \in Digit : ~InPool(l, n, d)
    <3>1. B[n] = NoPool
      BY <1>8, <2>1 DEF AbstractLedger
    <3>2. RoundTrip(A)[n] = NoPool
      BY <1>7, <2>1 DEF RoundTrip
    <3> QED
      BY <3>1, <3>2
  <2>2. CASE \E d \in Digit : InPool(l, n, d)
    <3>1. Configured(s, n) /\ \E d \in Digit : InPool(A, n, d)
      BY <1>7, <1>8, <2>2
    <3>2. B[n] = D
      BY <3>1 DEF AbstractLedger
    <3>3. RoundTrip(A)[n] = R
      BY <3>1 DEF RoundTrip
    <3>4. ASSUME NEW d \in Digit PROVE D[d] = R[d]
      <4>1. CASE InPool(l, n, d)
        <5>1. D[d] = Abstract(Stored(d, l[n][d]))
          BY <1>8, <4>1
        <5>2. A[n][d] = Abstract(l[n][d]) /\ InPool(A, n, d)
          BY <1>7, <4>1
        <5>3. Abstract(Stored(d, l[n][d])) =
                IF isFree(A[n][d]) \/ A[n][d].cluster = NoCluster
                  THEN [Blank EXCEPT !.lease = A[n][d].lease] ELSE A[n][d]
          BY <1>1, <4>1, <5>2, StoredIsRoundTrip
        <5>4. R[d] = IF isFree(A[n][d]) \/ A[n][d].cluster = NoCluster
                       THEN [Blank EXCEPT !.lease = A[n][d].lease] ELSE A[n][d]
          BY <5>2
        <5> QED
          BY <5>1, <5>3, <5>4
      <4>2. CASE ~InPool(l, n, d)
        <5>1. D[d] = NoEntry
          BY <1>8, <4>2
        <5>2. ~InPool(A, n, d) /\ A[n] # NoPool
          BY <1>7, <3>1, <4>2 DEF InPool, Configured
        <5>3. A[n][d] = NoEntry
          BY <5>2 DEF InPool, Configured
        <5>4. R[d] = A[n][d]
          BY <5>2
        <5> QED
          BY <5>1, <5>3, <5>4
      <4> QED
        BY <4>1, <4>2
    <3>5. R = [d \in Digit |-> R[d]] /\ D = [d \in Digit |-> D[d]]
      OBVIOUS
    <3> HIDE DEF R, D
    <3> QED
      BY <3>2, <3>3, <3>4, <3>5
  <2> QED
    BY <2>1, <2>2
<1>10. B = [n \in Network |-> B[n]]
  BY DEF AbstractLedger
<1>11. RoundTrip(A) = [n \in Network |-> RoundTrip(A)[n]]
  BY DEF RoundTrip
<1> HIDE DEF B
<1>12. B = RoundTrip(A)
  BY <1>9, <1>10, <1>11
<1> QED
  BY <1>12 DEF A, B, s

(* On what the handlers write, the CR gives back what RoundTrip says       *)
(* (ConversionIsRoundTrip), which is what LedgerWrite and Clusterbook      *)
(* take a stored ledger to be.                                             *)
THEOREM StoresRoundTrip == Spec => ConversionIsRoundTrip
<1> DEFINE H == \A n \in Network, d \in Digit : InPool(ledger, n, d) => Handled(ledger[n][d])
<1>1. InductiveInv /\ [Next]_vars =>
        [H => AbstractLedger(ledger') = RoundTrip(AbstractLedger(ledger))]_ledger
  <2> SUFFICES ASSUME InductiveInv, [Next]_vars, ledger' # ledger, H
               PROVE  AbstractLedger(ledger') = RoundTrip(AbstractLedger(ledger))
    BY Zenon
  <2>1. SaveAndLoad
    BY DEF Next, Done, vars
  <2>2. ledger \in SpelledLedger /\ ledger' = StoredLedger(ledger)
    BY <2>1, SaveAndLoadFacts
  <2>3. AbstractLedger(StoredLedger(ledger)) = RoundTrip(AbstractLedger(ledger))
    BY <2>2, LedgerRoundTrip
  <2> QED
    BY <2>2, <2>3
<1> QED
  BY <1>1, Invariance, PTL DEF Spec, ConversionIsRoundTrip

=============================================================================
