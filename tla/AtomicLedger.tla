---------------------------- MODULE AtomicLedger ----------------------------
(***************************************************************************)
(* What the ledger promises its callers, without locks, versions or        *)
(* backends: every change takes effect in one step, on the ledger as it is *)
(* at that moment.  A call that answers "ok" has taken effect exactly once, *)
(* one that answers "refused" or "conflict" never has ("Retrying the whole *)
(* operation ... is safe", ErrLedgerConflict in internal/ledger.go).  Only *)
(* after an "error", or a crash, the caller does not know: the change may  *)
(* still take effect, once, atomically, or never.                          *)
(***************************************************************************)
CONSTANTS Process, Writer, Home, Ledger, EmptyLedger, Edits, Op, Change(_, _), Stored(_)

VARIABLES
  ledger,   \* the ledger a reader sees
  call,     \* call[w]: the state of the caller's request
  doubt     \* TRUE while a change may still take effect after its caller gave up

vars == <<ledger, call, doubt>>

CallState == {"idle", "open", "ok", "refused", "conflict", "error"}

Init ==
  /\ ledger = EmptyLedger
  /\ call = [w \in Writer |-> "idle"]
  /\ doubt = FALSE

TakeEffect == \E o \in Op : \E l \in Change(o, ledger) : ledger' = Stored(l)

Invoke(w) ==
  /\ call[w] = "idle"
  /\ call' = [call EXCEPT ![w] = "open"]
  /\ UNCHANGED <<ledger, doubt>>

Commit(w) ==
  /\ call[w] = "open"
  /\ TakeEffect
  /\ call' = [call EXCEPT ![w] = "ok"]
  /\ UNCHANGED doubt

Fail(w) ==
  /\ call[w] = "open"
  /\ \E r \in {"refused", "conflict"} : call' = [call EXCEPT ![w] = r]
  /\ UNCHANGED <<ledger, doubt>>

GiveUp(w) ==
  /\ call[w] = "open"
  /\ call' = [call EXCEPT ![w] = "error"]
  /\ doubt' \in {doubt, TRUE}
  /\ UNCHANGED ledger

Return(w) ==
  /\ call[w] \notin {"idle", "open"}
  /\ call' = [call EXCEPT ![w] = "idle"]
  /\ UNCHANGED <<ledger, doubt>>

Crash(p) ==
  /\ call' = [w \in Writer |-> IF Home[w] = p THEN "idle" ELSE call[w]]
  /\ doubt' \in {doubt, \E w \in Writer : Home[w] = p /\ call[w] = "open"}
  /\ doubt => doubt'
  /\ UNCHANGED ledger

TakeLateEffect == doubt /\ TakeEffect /\ doubt' \in BOOLEAN /\ UNCHANGED call

Settle == doubt /\ doubt' = FALSE /\ UNCHANGED <<ledger, call>>

(* Somebody edits or deletes the custom resource by hand.                  *)
Override ==
  /\ Edits # {}
  /\ ledger' \in Edits \cup {EmptyLedger}
  /\ UNCHANGED <<call, doubt>>

Next ==
  \/ \E w \in Writer : Invoke(w) \/ Commit(w) \/ Fail(w) \/ GiveUp(w) \/ Return(w)
  \/ \E p \in Process : Crash(p)
  \/ TakeLateEffect \/ Settle \/ Override

Spec == Init /\ [][Next]_vars
=============================================================================
