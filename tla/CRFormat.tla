------------------------------ MODULE CRFormat ------------------------------
(***************************************************************************)
(* ConvertToCRFormat and ConvertFromCRFormat (internal/transform.go): in   *)
(* cr mode an entry of the ledger is one line, digit:status:cluster:exp=N, *)
(* and ":" also occurs within a status ("ASSIGNED:DNS") and within any     *)
(* other string a client sends.  A string is the sequence of its parts     *)
(* between colons, <<>> being the empty string.                            *)
(*                                                                         *)
(* The state is a ledger whose entries have such strings; a step saves it  *)
(* to the CR and loads it again.                                           *)
(***************************************************************************)
EXTENDS IPLedger, SequencesExt

CONSTANTS
  Statuses,   \* statuses, as sequences of parts
  Clusters,   \* cluster names, as sequences of parts
  Leases      \* values of LeaseExpiresAt

VARIABLES ledger, saves

Raw == [status : Statuses, cluster : Clusters, lease : Leases]
RawLedger == [Network -> [Digit -> Raw \cup {NoEntry}] \cup {NoPool}]

(* A part is text or the expiry of a lease ("exp=" and a number).          *)
Text(x) == <<"text", x>>
Exp(n) == <<"exp", n>>
IsExp(part) == part[1] = "exp"

(* The parts that the strings of this instance are made of, and the        *)
(* entries with any strings of them.                                       *)
TextPart == UNION {{s[k] : k \in DOMAIN s} : s \in Statuses \cup Clusters}
Spelled == [status : Seq(TextPart), cluster : Seq(TextPart), lease : Leases \cup {0}]
Abstracted ==
  [status : Status, cluster : {x[2] : x \in TextPart} \cup {NoCluster}, lease : Leases \cup {0}]

(* No part of a status or a cluster name reads "exp=N", and the strings    *)
(* are told apart from what is not there.                                  *)
ASSUME FormatAssumption ==
  /\ \A s \in Statuses \cup Clusters : s \in Seq({s[k] : k \in DOMAIN s})
  /\ \A x \in TextPart : ~IsExp(x) /\ x[2] # NoCluster
  /\ NoEntry \notin Spelled \cup Abstracted
  /\ NoPool \notin [Digit -> Spelled \cup {NoEntry}] \cup [Digit -> Abstracted \cup {NoEntry}]

EntryLine(d, info) ==
  <<Text(d)>>
  \o (IF info.status # <<>> /\ info.cluster # <<>> THEN info.status \o info.cluster ELSE <<>>)
  \o (IF info.lease # 0 THEN <<Exp(info.lease)>> ELSE <<>>)

(* Only a network that has an entry becomes a key of the result.           *)
ConvertToCRFormat(l) ==
  [n \in {m \in Network : \E d \in Digit : InPool(l, m, d)} |->
     {EntryLine(d, l[n][d]) : d \in {x \in Digit : InPool(l, n, x)}}]

(* The parts that are left without the trailing lease.                     *)
Parts(line) == IF IsExp(Last(line)) THEN Front(line) ELSE line

(* Mutant: the lease is looked for at its place in the longest line only.  *)
LeaseOfLongLine(line) == IF Len(line) >= 4 /\ IsExp(Last(line)) THEN Last(line)[2] ELSE 0

LeaseOf(line) == IF IsExp(Last(line)) THEN Last(line)[2] ELSE 0

(* Mutant: a status with a DNS suffix is not put together again.           *)
ParsedStatusPart(parts) == IF Len(parts) = 1 THEN <<>> ELSE <<parts[2]>>

ParsedStatus(parts) ==
  CASE Len(parts) = 1 -> <<>>
    [] Len(parts) = 4 -> <<parts[2], parts[3]>>
    [] OTHER -> <<parts[2]>>

(* Mutant: the cluster is everything behind the status.                    *)
ParsedClusterRest(parts) ==
  CASE Len(parts) <= 2 -> <<>>
    [] Len(parts) = 4 -> <<parts[3], parts[4]>>
    [] OTHER -> <<parts[3]>>

ParsedCluster(parts) ==
  CASE Len(parts) <= 2 -> <<>>
    [] Len(parts) = 4 -> <<parts[4]>>
    [] OTHER -> <<parts[3]>>

ParsedEntry(line) ==
  [status |-> ParsedStatus(Parts(line)), cluster |-> ParsedCluster(Parts(line)),
   lease |-> LeaseOf(line)]

ConvertFromCRFormat(data) ==
  [n \in Network |->
     IF n \notin DOMAIN data THEN NoPool
     ELSE [d \in Digit |->
            IF \E line \in data[n] : line[1] = Text(d)
              THEN ParsedEntry(CHOOSE line \in data[n] : line[1] = Text(d))
              ELSE NoEntry]]

-----------------------------------------------------------------------------
Init == ledger \in RawLedger /\ saves = 0

(* A save and a later load; two are enough to see what a third would do.   *)
SaveAndLoad ==
  /\ saves < 2
  /\ ledger' = ConvertFromCRFormat(ConvertToCRFormat(ledger))
  /\ saves' = saves + 1

Done == saves = 2 /\ UNCHANGED <<ledger, saves>>

Next == SaveAndLoad \/ Done

vars == <<ledger, saves>>

Spec == Init /\ [][Next]_vars

-----------------------------------------------------------------------------
(* The lease and the place in the pool of every address survive, whatever  *)
(* the shape of its status and cluster ("ensures the lease expiry survives *)
(* round-trip ... for every status-shape permutation", transform_test.go). *)
LeaseSurvives ==
  [][ \A n \in Network, d \in Digit :
        /\ InPool(ledger, n, d) <=> InPool(ledger', n, d)
        /\ InPool(ledger, n, d) => ledger'[n][d].lease = ledger[n][d].lease ]_ledger

(* Once loaded from a CR, a ledger is never changed by saving it again, so *)
(* that replicas that rewrite the whole CR do not wear entries down.       *)
ConversionIsStable == [][ saves >= 1 => ledger' = ledger ]_vars

(* The string a status of IPLedger stands for.                             *)
Spell(s) ==
  CASE s = "" -> <<>>
    [] s = "ASSIGNED" -> <<Text("ASSIGNED")>>
    [] s = "ASSIGNED:DNS" -> <<Text("ASSIGNED"), Text("DNS")>>
    [] s = "PENDING" -> <<Text("PENDING")>>
    [] s = "PENDING:DNS" -> <<Text("PENDING"), Text("DNS")>>

(* An entry that IPLedger speaks of: one of its statuses, and a cluster    *)
(* name without a colon.  The handlers take any string for both; what a    *)
(* colon in a cluster or a third part in a status does is left to the two  *)
(* properties above.                                                       *)
Handled(info) == (\E s \in Status : Spell(s) = info.status) /\ Len(info.cluster) <= 1

Abstract(info) ==
  [status |-> CHOOSE s \in Status : Spell(s) = info.status,
   cluster |-> IF info.cluster = <<>> THEN NoCluster ELSE info.cluster[1][2],
   lease |-> info.lease]

AbstractLedger(l) ==
  [n \in Network |->
     IF ~Configured(l, n) THEN NoPool
     ELSE [d \in Digit |-> IF InPool(l, n, d) THEN Abstract(l[n][d]) ELSE NoEntry]]

(* On such entries the two conversions are what IPLedger says of a stored  *)
(* ledger (RoundTrip): busy addresses keep status and cluster, an address  *)
(* without one of the two loses the other as well, and a network without   *)
(* addresses is forgotten.                                                 *)
ConversionIsRoundTrip ==
  [][ (\A n \in Network, d \in Digit : InPool(ledger, n, d) => Handled(ledger[n][d])) =>
        AbstractLedger(ledger') = RoundTrip(AbstractLedger(ledger)) ]_ledger

-----------------------------------------------------------------------------
(* What the proofs of these need: an entry that has been loaded from a CR  *)
(* has no strings, or a status of one or two parts and a cluster of one.   *)
Settled(info) ==
  \/ info.status = <<>> /\ info.cluster = <<>>
  \/ Len(info.status) \in {1, 2} /\ Len(info.cluster) = 1

InductiveInv ==
  /\ ledger \in [Network -> [Digit -> Spelled \cup {NoEntry}] \cup {NoPool}]
  /\ saves \in 0..2
  /\ saves >= 1 =>
       \A n \in Network : Configured(ledger, n) =>
         /\ \E d \in Digit : InPool(ledger, n, d)
         /\ \A d \in Digit : InPool(ledger, n, d) => Settled(ledger[n][d])

=============================================================================
