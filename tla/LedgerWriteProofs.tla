------------------------- MODULE LedgerWriteProofs -------------------------
(***************************************************************************)
(* The write transaction is correct for every set of processes, writers,   *)
(* ledgers and operations, in both modes and whatever the bounds.          *)
(***************************************************************************)
EXTENDS LedgerWrite, TLAPS

(* Every action keeps every variable of the write transaction in its type. *)
LEMMA TypeStep == TypeOK /\ [Next]_vars => TypeOK'
<1> SUFFICES ASSUME TypeOK, [Next]_vars PROVE TypeOK'
  OBVIOUS
<1> USE HomeAssumption, LedgerAssumption DEF TypeOK, txVars, storeVars, NoVersion,
        Goto, Reply, Location, Outcome
<1>1. ASSUME NEW w \in Writer, Request(w) PROVE TypeOK'
  BY <1>1 DEF Request
<1>2. ASSUME NEW w \in Writer, BeginLedgerWrite(w) PROVE TypeOK'
  BY <1>2 DEF BeginLedgerWrite
<1>3. ASSUME NEW w \in Writer, Load(w) PROVE TypeOK'
  BY <1>3 DEF Load
<1>4. ASSUME NEW w \in Writer, LoadError(w) PROVE TypeOK'
  BY <1>4 DEF LoadError
<1>5. ASSUME NEW w \in Writer, NEW o \in Op, Decide(w, o) PROVE TypeOK'
  BY <1>5 DEF Decide
<1>6. ASSUME NEW w \in Writer, NEW o \in Op, Refuse(w, o) PROVE TypeOK'
  BY <1>6 DEF Refuse
<1>7. ASSUME NEW w \in Writer, SaveYAMLToDisk(w) PROVE TypeOK'
  BY <1>7 DEF SaveYAMLToDisk
<1>8. ASSUME NEW w \in Writer, SaveError(w) PROVE TypeOK'
  BY <1>8 DEF SaveError
<1>9. ASSUME NEW w \in Writer, SaveGet(w) PROVE TypeOK'
  BY <1>9 DEF SaveGet
<1>10. ASSUME NEW w \in Writer, SavePut(w) PROVE TypeOK'
  BY <1>10 DEF SavePut, Apply
<1>11. ASSUME NEW w \in Writer, SavePutConflict(w) PROVE TypeOK'
  BY <1>11 DEF SavePutConflict
<1>12. ASSUME NEW w \in Writer, SavePutLost(w) PROVE TypeOK'
  BY <1>12 DEF SavePutLost, Lose
<1>13. ASSUME NEW w \in Writer, UpdateDNS(w) PROVE TypeOK'
  BY <1>13 DEF UpdateDNS
<1>14. ASSUME NEW w \in Writer, End(w) PROVE TypeOK'
  BY <1>14 DEF End, Forget
<1>15. ASSUME NEW p \in Process, Crash(p) PROVE TypeOK'
  <2>1. late' \subseteq [version : Nat, ledger : Ledger]
    BY <1>15 DEF Crash, Lose
  <2> QED
    BY <1>15, <2>1 DEF Crash, Forget
<1>16. ASSUME NEW m \in late, LateApply(m) PROVE TypeOK'
  BY <1>16 DEF LateApply, Apply
<1>17. ASSUME NEW m \in late, LateDrop(m) PROVE TypeOK'
  BY <1>17 DEF LateDrop
<1>18. ASSUME NEW l \in Edits, KubectlEdit(l) PROVE TypeOK'
  BY <1>18 DEF KubectlEdit
<1>19. CASE KubectlDelete
  BY <1>19 DEF KubectlDelete
<1>20. CASE UNCHANGED vars
  BY <1>20 DEF vars
<1> QED
  BY <1>1, <1>2, <1>3, <1>4, <1>5, <1>6, <1>7, <1>8, <1>9, <1>10, <1>11, <1>12,
     <1>13, <1>14, <1>15, <1>16, <1>17, <1>18, <1>19, <1>20
     DEF Next, Proceed, Environment, Rest

(* The types of the write transaction's variables, in every behaviour.     *)
THEOREM TypeCorrect == Spec => []TypeOK
<1>1. Init => TypeOK
  BY LedgerAssumption DEF Init, TypeOK, Location, Outcome, NoVersion
<1> QED
  BY <1>1, TypeStep, PTL DEF Spec

(* The lock discipline: each action keeps MutualExclusion. *)
LEMMA MutexStep ==
  TypeOK /\ MutualExclusion /\ [Next]_vars => MutualExclusion'
<1> SUFFICES ASSUME TypeOK, MutualExclusion, [Next]_vars PROVE MutualExclusion'
  OBVIOUS
<1> USE HomeAssumption DEF TypeOK, MutualExclusion, Holds, Critical, Location, txVars, storeVars,
        Goto, Reply
<1>1. ASSUME NEW w \in Writer, Request(w) PROVE MutualExclusion'
  BY <1>1 DEF Request
<1>2. ASSUME NEW w \in Writer, BeginLedgerWrite(w) PROVE MutualExclusion'
  BY <1>2 DEF BeginLedgerWrite
<1>3. ASSUME NEW w \in Writer, Load(w) PROVE MutualExclusion'
  BY <1>3 DEF Load
<1>4. ASSUME NEW w \in Writer, LoadError(w) PROVE MutualExclusion'
  BY <1>4 DEF LoadError
<1>5. ASSUME NEW w \in Writer, NEW o \in Op, Decide(w, o) PROVE MutualExclusion'
  BY <1>5 DEF Decide
<1>6. ASSUME NEW w \in Writer, NEW o \in Op, Refuse(w, o) PROVE MutualExclusion'
  BY <1>6 DEF Refuse
<1>7. ASSUME NEW w \in Writer, SaveYAMLToDisk(w) PROVE MutualExclusion'
  BY <1>7 DEF SaveYAMLToDisk
<1>8. ASSUME NEW w \in Writer, SaveError(w) PROVE MutualExclusion'
  BY <1>8 DEF SaveError
<1>9. ASSUME NEW w \in Writer, SaveGet(w) PROVE MutualExclusion'
  BY <1>9 DEF SaveGet
<1>10. ASSUME NEW w \in Writer, SavePut(w) PROVE MutualExclusion'
  BY <1>10 DEF SavePut, Apply
<1>11. ASSUME NEW w \in Writer, SavePutConflict(w) PROVE MutualExclusion'
  BY <1>11 DEF SavePutConflict
<1>12. ASSUME NEW w \in Writer, SavePutLost(w) PROVE MutualExclusion'
  BY <1>12 DEF SavePutLost, Lose
<1>13. ASSUME NEW w \in Writer, UpdateDNS(w) PROVE MutualExclusion'
  BY <1>13 DEF UpdateDNS
<1>14. ASSUME NEW w \in Writer, End(w) PROVE MutualExclusion'
  BY <1>14 DEF End, Forget
<1>15. ASSUME NEW p \in Process, Crash(p) PROVE MutualExclusion'
  BY <1>15 DEF Crash, Forget, Lose
<1>16. ASSUME NEW m \in late, LateApply(m) PROVE MutualExclusion'
  BY <1>16 DEF LateApply, Apply
<1>17. ASSUME NEW m \in late, LateDrop(m) PROVE MutualExclusion'
  BY <1>17 DEF LateDrop
<1>18. ASSUME NEW l \in Edits, KubectlEdit(l) PROVE MutualExclusion'
  BY <1>18 DEF KubectlEdit
<1>19. CASE KubectlDelete
  BY <1>19 DEF KubectlDelete
<1>20. CASE UNCHANGED vars
  BY <1>20 DEF vars
<1> QED
  BY <1>1, <1>2, <1>3, <1>4, <1>5, <1>6, <1>7, <1>8, <1>9, <1>10, <1>11, <1>12,
     <1>13, <1>14, <1>15, <1>16, <1>17, <1>18, <1>19, <1>20
     DEF Next, Proceed, Environment, Rest

(* resourceVersion and loaded versions: each action keeps VersionsOfMode. *)
LEMMA VersionsStep ==
  TypeOK /\ VersionsOfMode /\ [Next]_vars => VersionsOfMode'
<1> SUFFICES ASSUME TypeOK, VersionsOfMode, [Next]_vars PROVE VersionsOfMode'
  OBVIOUS
<1> USE SourceAssumption, LedgerAssumption DEF TypeOK, VersionsOfMode, NoVersion, txVars,
        storeVars, Goto, Reply
<1>1. ASSUME NEW w \in Writer, Request(w) PROVE VersionsOfMode'
  BY <1>1 DEF Request
<1>2. ASSUME NEW w \in Writer, BeginLedgerWrite(w) PROVE VersionsOfMode'
  BY <1>2 DEF BeginLedgerWrite
<1>3. ASSUME NEW w \in Writer, Load(w) PROVE VersionsOfMode'
  BY <1>3 DEF Load
<1>4. ASSUME NEW w \in Writer, LoadError(w) PROVE VersionsOfMode'
  BY <1>4 DEF LoadError
<1>5. ASSUME NEW w \in Writer, NEW o \in Op, Decide(w, o) PROVE VersionsOfMode'
  BY <1>5 DEF Decide
<1>6. ASSUME NEW w \in Writer, NEW o \in Op, Refuse(w, o) PROVE VersionsOfMode'
  BY <1>6 DEF Refuse
<1>7. ASSUME NEW w \in Writer, SaveYAMLToDisk(w) PROVE VersionsOfMode'
  BY <1>7 DEF SaveYAMLToDisk
<1>8. ASSUME NEW w \in Writer, SaveError(w) PROVE VersionsOfMode'
  BY <1>8 DEF SaveError
<1>9. ASSUME NEW w \in Writer, SaveGet(w) PROVE VersionsOfMode'
  BY <1>9 DEF SaveGet
<1>10. ASSUME NEW w \in Writer, SavePut(w) PROVE VersionsOfMode'
  BY <1>10 DEF SavePut, Apply
<1>11. ASSUME NEW w \in Writer, SavePutConflict(w) PROVE VersionsOfMode'
  BY <1>11 DEF SavePutConflict
<1>12. ASSUME NEW w \in Writer, SavePutLost(w) PROVE VersionsOfMode'
  BY <1>12 DEF SavePutLost, Lose
<1>13. ASSUME NEW w \in Writer, UpdateDNS(w) PROVE VersionsOfMode'
  BY <1>13 DEF UpdateDNS
<1>14. ASSUME NEW w \in Writer, End(w) PROVE VersionsOfMode'
  BY <1>14 DEF End, Forget
<1>15. ASSUME NEW p \in Process, Crash(p) PROVE VersionsOfMode'
  BY <1>15 DEF Crash, Forget, Lose
<1>16. ASSUME NEW m \in late, LateApply(m) PROVE VersionsOfMode'
  BY <1>16 DEF LateApply, Apply
<1>17. ASSUME NEW m \in late, LateDrop(m) PROVE VersionsOfMode'
  BY <1>17 DEF LateDrop
<1>18. ASSUME NEW l \in Edits, KubectlEdit(l) PROVE VersionsOfMode'
  BY <1>18 DEF KubectlEdit
<1>19. CASE KubectlDelete
  BY <1>19 DEF KubectlDelete
<1>20. CASE UNCHANGED vars
  BY <1>20 DEF vars
<1> QED
  BY <1>1, <1>2, <1>3, <1>4, <1>5, <1>6, <1>7, <1>8, <1>9, <1>10, <1>11, <1>12,
     <1>13, <1>14, <1>15, <1>16, <1>17, <1>18, <1>19, <1>20
     DEF Next, Proceed, Environment, Rest

(* What a version check still lets through: each action keeps SafeToCommit. *)
LEMMA CommitStep ==
  InductiveInv /\ [Next]_vars => SafeToCommit'
<1> SUFFICES ASSUME TypeOK, MutualExclusion, VersionsOfMode, SafeToCommit, [Next]_vars PROVE SafeToCommit'
  BY DEF InductiveInv
<1> USE SourceAssumption, HomeAssumption, LedgerAssumption, DiskAssumption
    DEF TypeOK, MutualExclusion, Holds, Critical, VersionsOfMode, SafeToCommit, Derives,
        NoVersion, txVars, storeVars, Goto, Reply
<1>1. ASSUME NEW w \in Writer, Request(w) PROVE SafeToCommit'
  BY <1>1 DEF Request
<1>2. ASSUME NEW w \in Writer, BeginLedgerWrite(w) PROVE SafeToCommit'
  BY <1>2 DEF BeginLedgerWrite
<1>3. ASSUME NEW w \in Writer, Load(w) PROVE SafeToCommit'
  BY <1>3 DEF Load
<1>4. ASSUME NEW w \in Writer, LoadError(w) PROVE SafeToCommit'
  BY <1>4 DEF LoadError
<1>5. ASSUME NEW w \in Writer, NEW o \in Op, Decide(w, o) PROVE SafeToCommit'
  BY <1>5 DEF Decide
<1>6. ASSUME NEW w \in Writer, NEW o \in Op, Refuse(w, o) PROVE SafeToCommit'
  BY <1>6 DEF Refuse
<1>7. ASSUME NEW w \in Writer, SaveYAMLToDisk(w) PROVE SafeToCommit'
  BY <1>7 DEF SaveYAMLToDisk
<1>8. ASSUME NEW w \in Writer, SaveError(w) PROVE SafeToCommit'
  BY <1>8 DEF SaveError
<1>9. ASSUME NEW w \in Writer, SaveGet(w) PROVE SafeToCommit'
  BY <1>9 DEF SaveGet
<1>10. ASSUME NEW w \in Writer, SavePut(w) PROVE SafeToCommit'
  BY <1>10 DEF SavePut, Apply
<1>11. ASSUME NEW w \in Writer, SavePutConflict(w) PROVE SafeToCommit'
  BY <1>11 DEF SavePutConflict
<1>12. ASSUME NEW w \in Writer, SavePutLost(w) PROVE SafeToCommit'
  BY <1>12 DEF SavePutLost, Lose
<1>13. ASSUME NEW w \in Writer, UpdateDNS(w) PROVE SafeToCommit'
  BY <1>13 DEF UpdateDNS
<1>14. ASSUME NEW w \in Writer, End(w) PROVE SafeToCommit'
  BY <1>14 DEF End, Forget
<1>15. ASSUME NEW p \in Process, Crash(p) PROVE SafeToCommit'
  BY <1>15 DEF Crash, Forget, Lose
<1>16. ASSUME NEW m \in late, LateApply(m) PROVE SafeToCommit'
  BY <1>16 DEF LateApply, Apply
<1>17. ASSUME NEW m \in late, LateDrop(m) PROVE SafeToCommit'
  BY <1>17 DEF LateDrop
<1>18. ASSUME NEW l \in Edits, KubectlEdit(l) PROVE SafeToCommit'
  BY <1>18 DEF KubectlEdit
<1>19. CASE KubectlDelete
  BY <1>19 DEF KubectlDelete
<1>20. CASE UNCHANGED vars
  BY <1>20 DEF vars
<1> QED
  BY <1>1, <1>2, <1>3, <1>4, <1>5, <1>6, <1>7, <1>8, <1>9, <1>10, <1>11, <1>12,
     <1>13, <1>14, <1>15, <1>16, <1>17, <1>18, <1>19, <1>20
     DEF Next, Proceed, Environment, Rest

(* A process that starts, with an empty ledger, satisfies the invariant.   *)
LEMMA InitInv == Init => InductiveInv
  BY LedgerAssumption, HomeAssumption
  DEF Init, InductiveInv, TypeOK, MutualExclusion, VersionsOfMode, SafeToCommit,
      Holds, Critical, Location, Outcome, NoVersion

(* Every action keeps the inductive invariant.                             *)
LEMMA InvStep == InductiveInv /\ [Next]_vars => InductiveInv'
  BY TypeStep, MutexStep, VersionsStep, CommitStep DEF InductiveInv

(* The inductive invariant of the write transaction.                       *)
THEOREM Invariance == Spec => []InductiveInv
  BY InitInv, InvStep, PTL DEF Spec

(* In each process at most one goroutine is between BeginLedgerWrite and   *)
(* End, and the lock is free exactly when none is (ledger.go).             *)
THEOREM MutexCorrect == Spec => []MutualExclusion
<1>1. InductiveInv => MutualExclusion
  BY DEF InductiveInv
<1> QED
  BY <1>1, Invariance, PTL

(* A write that would pass the version check of CreateOrUpdateNetworkConfig *)
(* or of the apiserver, or that is about to rename its file, replaces the  *)
(* ledger it was computed from.                                            *)
THEOREM CommitCorrect == Spec => []SafeToCommit
<1>1. InductiveInv => SafeToCommit
  BY DEF InductiveInv
<1> QED
  BY <1>1, Invariance, PTL

(* Issue #199: no save of a LedgerWrite overwrites a change it has not     *)
(* loaded.                                                                 *)
THEOREM NoUpdateLost == Spec => NoLostUpdate
<1> DEFINE Step == \A w \in Writer :
      pc[w] \in {"save", "put"} /\ pc'[w] = "saved" =>
        /\ loaded[w] = config
        /\ config' = Stored(next[w])
<1>1. InductiveInv /\ [Next]_vars => [Step]_vars
  <2> SUFFICES ASSUME InductiveInv, Next, NEW w \in Writer,
                      pc[w] \in {"save", "put"}, pc'[w] = "saved"
               PROVE  loaded[w] = config /\ config' = Stored(next[w])
    OBVIOUS
  <2> USE DEF InductiveInv, TypeOK, Goto, Reply
  <2>1. SaveYAMLToDisk(w) \/ SavePut(w)
    <3>1. ASSUME NEW u \in Writer, Request(u) \/ BeginLedgerWrite(u) PROVE FALSE
      BY <3>1 DEF Request, BeginLedgerWrite
    <3>2. ASSUME NEW u \in Writer, Proceed(u) PROVE SaveYAMLToDisk(w) \/ SavePut(w)
      <4>1. CASE SaveYAMLToDisk(u)
        BY <4>1 DEF SaveYAMLToDisk
      <4>2. CASE SavePut(u)
        BY <4>2 DEF SavePut
      <4>3. CASE Load(u) \/ LoadError(u) \/ (\E o \in Op : Decide(u, o) \/ Refuse(u, o))
        BY <4>3 DEF Load, LoadError, Decide, Refuse
      <4>4. CASE SaveError(u) \/ SaveGet(u) \/ SavePutConflict(u) \/ SavePutLost(u)
        BY <4>4 DEF SaveError, SaveGet, SavePutConflict, SavePutLost
      <4>5. CASE UpdateDNS(u) \/ End(u)
        BY <4>5 DEF UpdateDNS, End
      <4> QED
        BY <3>2, <4>1, <4>2, <4>3, <4>4, <4>5 DEF Proceed
    <3>3. CASE Environment
      BY <3>3 DEF Environment, Crash, LateApply, LateDrop, KubectlEdit, KubectlDelete
    <3>4. CASE Rest
      BY <3>4 DEF Rest, vars
    <3> QED
      BY <3>1, <3>2, <3>3, <3>4 DEF Next
  <2>2. CASE SaveYAMLToDisk(w)
    BY <2>2 DEF SaveYAMLToDisk, SafeToCommit, VersionsOfMode
  <2>3. CASE SavePut(w)
    BY <2>3 DEF SavePut, Apply, SafeToCommit
  <2> QED
    BY <2>1, <2>2, <2>3
<1> QED
  BY <1>1, Invariance, PTL DEF Spec, NoLostUpdate

-----------------------------------------------------------------------------
(* Refinement.                                                             *)

(* What a caller sees of a write is always a state of an abstract call.    *)
LEMMA CallBarType == TypeOK => callBar \in [Writer -> Atomic!CallState]
  BY DEF TypeOK, callBar, Atomic!CallState, Location, Outcome

(* A step that only moves w from a location to one with the same callBar.  *)
LEMMA CallBarStutter ==
  ASSUME TypeOK, TypeOK', \A w \in Writer :
           \/ pc'[w] = pc[w] /\ reply'[w] = reply[w]
           \/ pc[w] \notin {"idle", "saved", "replied"} /\ pc'[w] \notin {"idle", "saved", "replied"}
           \/ pc[w] = "saved" /\ pc'[w] = "replied" /\ reply'[w] = "ok"
  PROVE  callBar' = callBar
  BY DEF TypeOK, callBar

(* A step that moves w alone.                                              *)
LEMMA CallBarMove ==
  ASSUME TypeOK, TypeOK', NEW w \in Writer,
         \A u \in Writer \ {w} : pc'[u] = pc[u] /\ reply'[u] = reply[u]
  PROVE  callBar' = [callBar EXCEPT ![w] = callBar'[w]]
  BY DEF callBar

(* Every step of the protocol is a step of AtomicLedger or a stutter.      *)
LEMMA RefinementStep ==
  InductiveInv /\ InductiveInv' /\ [Next]_vars => [Atomic!Next]_Atomic!vars
<1> SUFFICES ASSUME InductiveInv, InductiveInv', [Next]_vars
             PROVE  Atomic!Next \/ UNCHANGED Atomic!vars
  BY DEF Atomic!Next, Atomic!vars
<1> USE DEF InductiveInv, txVars, storeVars, Goto, Reply
<1> DEFINE Calm == config' = config /\ late' = late
<1>1. ASSUME NEW w \in Writer, Request(w) PROVE Atomic!Invoke(w)
  <2>1. callBar' = [callBar EXCEPT ![w] = callBar'[w]]
    BY <1>1, CallBarMove DEF Request, TypeOK
  <2>2. callBar[w] = "idle" /\ callBar'[w] = "open"
    BY <1>1 DEF Request, callBar, TypeOK
  <2> QED
    BY <1>1, <2>1, <2>2 DEF Request, Atomic!Invoke
<1>2. ASSUME NEW w \in Writer,
             \/ BeginLedgerWrite(w) \/ Load(w) \/ (\E o \in Op : Decide(w, o))
             \/ (SaveGet(w) /\ resourceVersion = version[w]) \/ UpdateDNS(w)
      PROVE  UNCHANGED Atomic!vars
  <2>1. Calm
    BY <1>2 DEF BeginLedgerWrite, Load, Decide, SaveGet, UpdateDNS
  <2>2. callBar' = callBar
    BY <1>2, CallBarStutter DEF BeginLedgerWrite, Load, Decide, SaveGet, UpdateDNS, TypeOK
  <2> QED
    BY <2>1, <2>2 DEF Atomic!vars
<1>3. ASSUME NEW w \in Writer,
             \/ LoadError(w) \/ (\E o \in Op : Refuse(w, o)) \/ SaveError(w)
             \/ (SaveGet(w) /\ resourceVersion # version[w]) \/ SavePutConflict(w)
      PROVE  Atomic!Fail(w) \/ Atomic!GiveUp(w)
  <2>1. Calm
    BY <1>3 DEF LoadError, Refuse, SaveError, SaveGet, SavePutConflict
  <2>2. callBar' = [callBar EXCEPT ![w] = callBar'[w]]
    BY <1>3, CallBarMove DEF LoadError, Refuse, SaveError, SaveGet, SavePutConflict, TypeOK
  <2>3. callBar[w] = "open" /\ callBar'[w] \in {"refused", "conflict", "error"}
    BY <1>3 DEF LoadError, Refuse, SaveError, SaveGet, SavePutConflict, callBar, TypeOK
  <2> QED
    BY <2>1, <2>2, <2>3 DEF Atomic!Fail, Atomic!GiveUp
<1>4. ASSUME NEW w \in Writer, SaveYAMLToDisk(w) \/ SavePut(w) PROVE Atomic!Commit(w)
  <2>1. Derives(config, next[w]) /\ config' = Stored(next[w]) /\ late' = late
    BY <1>4 DEF SaveYAMLToDisk, SavePut, Apply, SafeToCommit, VersionsOfMode
  <2>2. callBar' = [callBar EXCEPT ![w] = callBar'[w]]
    BY <1>4, CallBarMove DEF SaveYAMLToDisk, SavePut, TypeOK
  <2>3. callBar[w] = "open" /\ callBar'[w] = "ok"
    BY <1>4 DEF SaveYAMLToDisk, SavePut, callBar, TypeOK
  <2> QED
    BY <2>1, <2>2, <2>3 DEF Atomic!Commit, Atomic!TakeEffect, Derives
<1>5. ASSUME NEW w \in Writer, SavePutLost(w) PROVE Atomic!GiveUp(w)
  <2>1. config' = config /\ late \subseteq late'
    BY <1>5 DEF SavePutLost, Lose
  <2>2. (late' # {}) \in {late # {}, TRUE}
    BY <2>1
  <2>3. callBar' = [callBar EXCEPT ![w] = callBar'[w]]
    BY <1>5, CallBarMove DEF SavePutLost, TypeOK
  <2>4. callBar[w] = "open" /\ callBar'[w] = "error"
    BY <1>5 DEF SavePutLost, callBar, TypeOK
  <2> QED
    BY <2>1, <2>2, <2>3, <2>4 DEF Atomic!GiveUp
<1>6. ASSUME NEW w \in Writer, End(w) PROVE Atomic!Return(w)
  <2>1. callBar' = [callBar EXCEPT ![w] = callBar'[w]]
    BY <1>6, CallBarMove DEF End, Forget, TypeOK
  <2>2. callBar[w] \notin {"idle", "open"} /\ callBar'[w] = "idle"
    BY <1>6 DEF End, callBar, TypeOK, Outcome
  <2> QED
    BY <1>6, <2>1, <2>2 DEF End, Atomic!Return
<1>7. ASSUME NEW p \in Process, Crash(p) PROVE Atomic!Crash(p)
  <2>1. config' = config /\ late \subseteq late'
    BY <1>7 DEF Crash, Lose
  <2>2. callBar' = [w \in Writer |-> IF Home[w] = p THEN "idle" ELSE callBar[w]]
    BY <1>7 DEF Crash, Forget, callBar, TypeOK
  <2>3. CASE late' = late
    BY <2>1, <2>2, <2>3 DEF Atomic!Crash
  <2>4. CASE late' # late
    <3>1. PICK w \in Writer : Home[w] = p /\ pc[w] = "put"
      BY <1>7, <2>4 DEF Crash, Lose
    <3>2. callBar[w] = "open"
      BY <3>1 DEF callBar
    <3>3. (late' # {}) = (\E u \in Writer : Home[u] = p /\ callBar[u] = "open")
      BY <2>1, <2>4, <3>1, <3>2
    <3> QED
      BY <2>1, <2>2, <3>3 DEF Atomic!Crash
  <2> QED
    BY <2>3, <2>4
<1>8. ASSUME NEW m \in late, LateApply(m) PROVE Atomic!TakeLateEffect
  <2>1. Derives(config, m.ledger) /\ config' = Stored(m.ledger)
    BY <1>8 DEF LateApply, Apply, SafeToCommit
  <2>2. callBar' = callBar
    BY <1>8 DEF LateApply, callBar
  <2> QED
    BY <2>1, <2>2 DEF Atomic!TakeLateEffect, Atomic!TakeEffect, Derives
<1>9. ASSUME NEW m \in late, LateDrop(m) PROVE Atomic!Settle \/ UNCHANGED Atomic!vars
  <2>1. callBar' = callBar /\ config' = config
    BY <1>9 DEF LateDrop, callBar
  <2> QED
    BY <2>1 DEF Atomic!Settle, Atomic!vars
<1>10. ASSUME NEW l \in Edits, KubectlEdit(l) PROVE Atomic!Override
  BY <1>10 DEF KubectlEdit, callBar, Atomic!Override
<1>11. CASE KubectlDelete
  BY <1>11 DEF KubectlDelete, callBar, Atomic!Override, Atomic!Next
<1>12. CASE UNCHANGED vars
  BY <1>12 DEF vars, callBar, Atomic!vars
<1> QED
  BY <1>1, <1>2, <1>3, <1>4, <1>5, <1>6, <1>7, <1>8, <1>9, <1>10, <1>11, <1>12
     DEF Next, Proceed, Environment, Rest, Atomic!Next

(* The write transaction implements AtomicLedger: each change takes effect *)
(* atomically on the ledger of that moment, an "ok" exactly once, a        *)
(* refusal or an ErrLedgerConflict never, so that retrying is safe.        *)
THEOREM Refinement == Spec => ImplementsAtomicLedger
<1>1. Init => Atomic!Init
  BY DEF Init, callBar, Atomic!Init
<1> QED
  BY <1>1, Invariance, RefinementStep, PTL DEF Spec, ImplementsAtomicLedger, Atomic!Spec

=============================================================================
