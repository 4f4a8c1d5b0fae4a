-------------------------------- MODULE CIDR --------------------------------
(***************************************************************************)
(* CIDRToNetworks and CIDRToIPList (internal/cidr.go): the loop that turns *)
(* a CIDR block into pools.  An address is a Width-bit unsigned integer    *)
(* (a uint32 in the code) whose OctetBits-bit digits are its octets; the   *)
(* loop counter wraps around.                                              *)
(***************************************************************************)
EXTENDS Naturals, FiniteSets, SequencesExt

CONSTANTS
  Width,       \* bits of an address
  OctetBits,   \* bits of an octet
  MaskLens,    \* the prefix lengths that are asked for
  MaxKeys,     \* bound: CIDRToIPList is called for at most so many networks
  MaxPool,     \* bound: octets of one pool that the model keeps
  Reserved     \* the sets of last octets that are asked to be left out

ASSUME WidthAssumption ==
  /\ OctetBits \in Nat \ {0}
  /\ Width \in Nat
  /\ Width % OctetBits = 0
  /\ MaxKeys \in Nat
  /\ MaxPool \in Nat /\ MaxPool > 2^OctetBits
  /\ MaskLens \subseteq 0..Width
  /\ \A r \in Reserved : r \subseteq 0..(2^OctetBits - 1)

VARIABLES
  ip,         \* the address in the CIDR string, host bits included
  maskLen,
  reserved,
  current,    \* the loop counter
  result,     \* network key |-> sequence of last octets
  state,      \* "loop", "done" or "error"; then "sort" and "sorted"
  keys, i, j  \* sortedKeys: the slice and the two loop counters

blockVars == <<ip, maskLen, reserved>>
sortVars == <<keys, i, j>>
vars == <<blockVars, current, result, state, sortVars>>

Addresses == 0..(2^Width - 1)
HostBits == Width - maskLen

(* net.ParseCIDR clears the host bits.                                     *)
networkInt == ip - (ip % 2^HostBits)
broadcastInt == networkInt + 2^HostBits - 1
excludeNetBroadcast == HostBits > 1

InBlock(a) == a \div 2^HostBits = networkInt \div 2^HostBits

(* A network key is the sequence of the leading octets, as in "10.31.103". *)
Octet(a, k) == (a \div 2^(Width - k * OctetBits)) % 2^OctetBits
KeyOctets == (Width \div OctetBits) - 1
NetworkKey(a) == [k \in 1..KeyOctets |-> Octet(a, k)]
LastOctet(a) == a % 2^OctetBits

Init ==
  /\ ip \in Addresses
  /\ maskLen \in MaskLens
  /\ reserved \in Reserved
  /\ current = networkInt
  /\ result = <<>>
  /\ state = "loop"
  /\ keys = <<>> /\ i = 0 /\ j = 0

(* Mutant: the broadcast address is not left out.                          *)
SkippedNetworkOnly(a) ==
  \/ excludeNetBroadcast /\ a = networkInt
  \/ LastOctet(a) \in reserved

Skipped(a) ==
  \/ excludeNetBroadcast /\ a \in {networkInt, broadcastInt}
  \/ LastOctet(a) \in reserved

Pool(r, key) == IF key \in DOMAIN r THEN r[key] ELSE <<>>

(* result[key] = append(result[key], lastOctet).  A pool has at most one   *)
(* entry per octet, so MaxPool cuts off only what a loop that goes round   *)
(* again would append for ever.                                            *)
AppendOctet(r, key, octet) ==
  [k \in DOMAIN r \cup {key} |->
     IF k = key /\ Len(Pool(r, key)) < MaxPool
       THEN Append(Pool(r, key), octet) ELSE Pool(r, k)]

(* Mutant: the counter sticks at the last address instead of wrapping.     *)
IncrementSaturating(a) == IF a = 2^Width - 1 THEN a ELSE a + 1

(* current++ of a uint32.                                                  *)
Increment(a) == (a + 1) % 2^Width

Iterate ==
  /\ state = "loop"
  /\ InBlock(current)
  /\ result' = IF Skipped(current) THEN result
               ELSE AppendOctet(result, NetworkKey(current), LastOctet(current))
  /\ current' = Increment(current)
  /\ UNCHANGED <<blockVars, state, sortVars>>

(* "CIDR %s produced no usable IPs" is an error.                           *)
Leave ==
  /\ state = "loop"
  /\ ~InBlock(current)
  /\ state' = IF DOMAIN result = {} THEN "error" ELSE "done"
  /\ UNCHANGED <<blockVars, current, result, sortVars>>

-----------------------------------------------------------------------------
(* CIDRToIPList goes through the pools in the order of their keys.         *)

(* Mutant: only the first octet is compared.                               *)
FirstOctetGreater(a, b) == a[1] > b[1]

(* compareNetworkKeys: the first octet that differs decides.               *)
KeyGreater(a, b) ==
  \E k \in 1..KeyOctets : a[k] > b[k] /\ \A m \in 1..(k - 1) : a[m] = b[m]

(* The map iteration yields the keys in any order.                         *)
StartSort ==
  /\ state = "done"
  /\ Cardinality(DOMAIN result) <= MaxKeys
  /\ keys' \in SetToSeqs(DOMAIN result)
  /\ i' = 1 /\ j' = 2
  /\ state' = "sort"
  /\ UNCHANGED <<blockVars, current, result>>

(* for i, for j > i: exchange keys[i] and keys[j] if they are out of order. *)
Exchange ==
  /\ state = "sort"
  /\ j <= Len(keys)
  /\ keys' = IF KeyGreater(keys[i], keys[j])
               THEN [keys EXCEPT ![i] = keys[j], ![j] = keys[i]] ELSE keys
  /\ j' = j + 1
  /\ UNCHANGED <<blockVars, current, result, state, i>>

NextRow ==
  /\ state = "sort"
  /\ j > Len(keys)
  /\ IF i < Len(keys) THEN i' = i + 1 /\ j' = i + 2 /\ state' = "sort"
                      ELSE UNCHANGED <<i, j>> /\ state' = "sorted"
  /\ UNCHANGED <<blockVars, current, result, keys>>

ipList == FlattenSeq([k \in DOMAIN keys |->
            [m \in DOMAIN result[keys[k]] |-> <<keys[k], result[keys[k]][m]>>]])

Returned == state \in {"done", "error", "sorted"} /\ UNCHANGED vars

Next == Iterate \/ Leave \/ StartSort \/ Exchange \/ NextRow \/ Returned

Spec == Init /\ [][Next]_vars

(* A loop that can go on goes on.                                          *)
FairSpec == Spec /\ WF_vars(Iterate \/ Leave \/ Exchange \/ NextRow)

-----------------------------------------------------------------------------
(* The reference: the usable addresses of a block, in ascending order.     *)
Usable ==
  {a \in Addresses :
     /\ a >= networkInt /\ a <= broadcastInt
     /\ HostBits > 1 => a # networkInt /\ a # broadcastInt
     /\ LastOctet(a) \notin reserved}

Ascending(seq) == \A k \in 1..(Len(seq) - 1) : seq[k] < seq[k + 1]

(* CIDRToNetworks returns every usable address of the block exactly once,  *)
(* each pool in ascending order, also for the block at the end of the      *)
(* address space, where the counter wraps, and for /31 and /32, and it     *)
(* fails only when there is none.                                          *)
PoolsAreUsable ==
  /\ state = "done" =>
       /\ DOMAIN result = {NetworkKey(a) : a \in Usable}
       /\ \A key \in DOMAIN result :
            /\ Ascending(result[key])
            /\ Range(result[key]) = {LastOctet(a) : a \in {x \in Usable : NetworkKey(x) = key}}
  /\ state = "error" => Usable = {}

(* CIDRToIPList lists the usable addresses in ascending order, whatever    *)
(* order the map iteration starts from.                                    *)
Value(e) == CHOOSE a \in Addresses : NetworkKey(a) = e[1] /\ LastOctet(a) = e[2]

IPListIsSorted ==
  state = "sorted" =>
    LET values == [k \in DOMAIN ipList |-> Value(ipList[k])]
    IN  Ascending(values) /\ Range(values) = Usable

(* CIDRToNetworks comes back for every block, the last ones of the address *)
(* space included, but for the block of all addresses: there the counter   *)
(* wraps into the block again, and handleAPICreateNetwork is stuck with the *)
(* ledger locked.                                                          *)
TerminatesButForAll == IF maskLen = 0 THEN [](state = "loop") ELSE <>(state # "loop")

=============================================================================
