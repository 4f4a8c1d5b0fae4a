--------------------------- MODULE MCLedgerWrite ---------------------------
(* Small instances of LedgerWrite: a pool of addresses that clients reserve *)
(* (any free one, as handleAPIReserve and GenerateIPs do) and release.     *)
EXTENDS LedgerWrite

CONSTANTS Addr, Client, Free, Anonymous, p1, p2, w1, w2, w3

MCLedger == [Addr -> Client \cup {Free}]
MCEmptyLedger == [a \in Addr |-> Free]

MCOp == [kind : {"reserve"}, client : Client] \cup [kind : {"release"}, addr : Addr]

MCChange(o, l) ==
  IF o.kind = "reserve"
    THEN {[l EXCEPT ![a] = o.client] : a \in {b \in Addr : l[b] = Free}}
    ELSE {[l EXCEPT ![o.addr] = Free]}

(* ConvertToCRFormat drops the status of an entry that names no cluster.   *)
MCStored(l) ==
  IF Source = "disk" THEN l
  ELSE [a \in Addr |-> IF l[a] = Anonymous THEN Free ELSE l[a]]

MCHomeOne == [w \in Writer |-> p1]
MCHomeTwo == [w \in Writer |-> IF w = w3 THEN p2 ELSE p1]
MCNoEdits == {}
MCEdits == {[a \in Addr |-> c] : c \in Client}

=============================================================================
