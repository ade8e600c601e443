-------------------------- MODULE RegistryLockProofs --------------------------
(***************************************************************************)
(* Proofs about RegistryLock for any number of processes, updates and      *)
(* failures. What makes the lock safe until a theft is that the one who is *)
(* inside owns the directory, and that this directory is not stale: a      *)
(* rename of it is a theft.                                                *)
(***************************************************************************)
EXTENDS RegistryLock, TLAPS

(* The types are invariant on their own.                                   *)
LEMMA TypeInit == Init => TypeOK
<1> SUFFICES ASSUME Init PROVE TypeOK
  OBVIOUS
<1>1. registry \in Counts /\ updates \in Counts
  BY DEF Init, Counts
<1>2. snapshot \in [Procs -> Counts]
  BY <1>1 DEF Init
<1>3. failures \in 0..MaxFailures /\ attempt \in [Procs -> 0..1]
  <2>1. failures = 0 /\ attempt = [p \in Procs |-> 0]
    BY DEF Init
  <2> QED BY <2>1, ProcAssumption
<1>4. pc \in [Procs -> Inside \cup Trying \cup {"idle"}]
  BY DEF Init
<1>5. dir \in BOOLEAN /\ stale \in BOOLEAN /\ stolen \in BOOLEAN
  BY DEF Init
<1> QED BY <1>1, <1>2, <1>3, <1>4, <1>5 DEF Init, TypeOK

(* Every system call, crash and passage of time keeps the types.           *)
LEMMA TypeNext == TypeOK /\ [Next]_vars => TypeOK'
<1> SUFFICES ASSUME TypeOK, [Next]_vars PROVE TypeOK'
  OBVIOUS
<1> USE DEF TypeOK, Inside, Trying
<1>1. CASE UNCHANGED vars
  BY <1>1 DEF vars, lockVars, fileVars
<1>2. ASSUME NEW p \in Procs, Begin(p) PROVE TypeOK'
  BY <1>2 DEF Begin, Goto, lockVars, fileVars
<1>3. ASSUME NEW p \in Procs, Mkdir(p) \/ WriteOwner(p) \/ Undo(p) PROVE TypeOK'
  BY <1>3 DEF Mkdir, WriteOwner, Undo, Unlocked, Busy, Goto, lockVars, fileVars
<1>4. ASSUME NEW p \in Procs, Stat(p) PROVE TypeOK'
  BY <1>4 DEF Stat, Busy, Retry, Goto, lockVars, fileVars
<1>5. ASSUME NEW p \in Procs, Rename(p) PROVE TypeOK'
  <2>1. CASE ~dir
    BY <1>5, <2>1 DEF Rename, Busy, Goto, lockVars, fileVars
  <2>2. CASE dir
    <3>1. stolen' \in BOOLEAN /\ dir' \in BOOLEAN /\ stale' \in BOOLEAN
      BY <1>5, <2>2 DEF Rename, Unlocked
    <3>2. owner' \in Procs \cup {NoProc} /\ failures' \in 0..MaxFailures
      BY <1>5, <2>2 DEF Rename, Unlocked
    <3>3. pc' \in [Procs -> Inside \cup Trying \cup {"idle"}] /\ attempt' \in [Procs -> 0..1]
      BY <1>5, <2>2 DEF Rename, Retry, Goto
    <3> QED BY <1>5, <3>1, <3>2, <3>3 DEF Rename, fileVars
  <2> QED BY <2>1, <2>2
<1>6. ASSUME NEW p \in Procs, Load(p) PROVE TypeOK'
  BY <1>6 DEF Load, Goto, lockVars
<1>7. ASSUME NEW p \in Procs, Persist(p) PROVE TypeOK'
  BY <1>7 DEF Persist, Goto, lockVars, Counts
<1>8. ASSUME NEW p \in Procs, Release(p) \/ Remove(p) PROVE TypeOK'
  BY <1>8 DEF Release, Remove, Unlocked, Goto, lockVars, fileVars
<1>9. ASSUME NEW p \in Procs, Crash(p) \/ OperationThrows(p) PROVE TypeOK'
  BY <1>9, ProcAssumption DEF Crash, OperationThrows, Goto, lockVars, fileVars
<1>10. CASE GrowStale
  BY <1>10 DEF GrowStale, fileVars
<1> QED BY <1>1, <1>2, <1>3, <1>4, <1>5, <1>6, <1>7, <1>8, <1>9, <1>10 DEF Next, Step

(* Types hold in every reachable state of a registry lock.                 *)
THEOREM TypeCorrect == Spec => []TypeOK
BY TypeInit, TypeNext, PTL DEF Spec

-----------------------------------------------------------------------------
Holding == Inside \ {"write", "undo"}

(* What is inductive: the file is right, the failed write of owner.json    *)
(* never happens, and the one process inside has a fresh directory, with   *)
(* its name in it from then on, and has read what the file still holds.    *)
Guarded ==
  /\ registry = updates
  /\ \A p, q \in Procs : pc[p] \in Inside /\ pc[q] \in Inside => p = q
  /\ \A p \in Procs :
       /\ pc[p] # "undo"
       /\ pc[p] \in Inside => dir /\ ~stale
       /\ pc[p] = "write" => owner = NoProc
       /\ pc[p] \in Holding => owner = p
       /\ pc[p] = "persist" => snapshot[p] = registry

IInv == TypeOK /\ (~stolen => Guarded)

(* A theft is never forgotten.                                             *)
LEMMA StolenStays == TypeOK /\ [Next]_vars /\ ~stolen' => ~stolen
BY DEF TypeOK, Next, Step, Begin, Mkdir, WriteOwner, Undo, Stat, Rename, Load,
  Persist, OperationThrows, Release, Remove, Crash, GrowStale, vars, lockVars

(* Each step keeps the one process inside guarded, or is a theft.          *)
LEMMA GuardedNext ==
  ASSUME TypeOK, Guarded, [Next]_vars, ~stolen, ~stolen'
  PROVE  Guarded'
<1> USE DEF TypeOK, Guarded, Inside, Holding
<1>1. CASE UNCHANGED vars
  BY <1>1 DEF vars, lockVars, fileVars
<1>2. ASSUME NEW p \in Procs, Begin(p) PROVE Guarded'
  BY <1>2 DEF Begin, Goto, lockVars, fileVars
<1>3. ASSUME NEW p \in Procs, Mkdir(p) PROVE Guarded'
  BY <1>3 DEF Mkdir, Goto, lockVars, fileVars
<1>4. ASSUME NEW p \in Procs, WriteOwner(p) PROVE Guarded'
  BY <1>4 DEF WriteOwner, Goto, fileVars
<1>5. ASSUME NEW p \in Procs, Undo(p) PROVE Guarded'
  BY <1>5 DEF Undo
<1>6. ASSUME NEW p \in Procs, Stat(p) PROVE Guarded'
  BY <1>6 DEF Stat, Busy, Retry, Goto, lockVars, fileVars
<1>7. ASSUME NEW p \in Procs, Rename(p) PROVE Guarded'
  <2>1. CASE ~dir
    BY <1>7, <2>1 DEF Rename, Busy, Goto, lockVars, fileVars
  <2>2. CASE dir
    <3>1. stale
      BY <1>7, <2>2 DEF Rename
    <3>2. \A q \in Procs : pc[q] \notin Inside
      BY <3>1
    <3>3. \A q \in Procs : pc'[q] \notin Inside
      BY <1>7, <2>2, <3>2 DEF Rename, Retry, Goto
    <3> QED BY <1>7, <3>3 DEF Rename, fileVars
  <2> QED BY <2>1, <2>2
<1>8. ASSUME NEW p \in Procs, Load(p) PROVE Guarded'
  BY <1>8 DEF Load, Goto, lockVars
<1>9. ASSUME NEW p \in Procs, Persist(p) PROVE Guarded'
  BY <1>9 DEF Persist, Goto, lockVars, Counts
<1>10. ASSUME NEW p \in Procs, OperationThrows(p) PROVE Guarded'
  BY <1>10 DEF OperationThrows, Goto, lockVars, fileVars
<1>11. ASSUME NEW p \in Procs, Release(p) PROVE Guarded'
  BY <1>11 DEF Release, Goto, lockVars, fileVars
<1>12. ASSUME NEW p \in Procs, Remove(p) PROVE Guarded'
  BY <1>12 DEF Remove, Unlocked, Goto, fileVars
<1>13. ASSUME NEW p \in Procs, Crash(p) PROVE Guarded'
  BY <1>13 DEF Crash, Goto, lockVars, fileVars
<1>14. CASE GrowStale
  BY <1>14 DEF GrowStale, fileVars
<1> QED BY <1>1, <1>2, <1>3, <1>4, <1>5, <1>6, <1>7, <1>8, <1>9, <1>10, <1>11,
  <1>12, <1>13, <1>14 DEF Next, Step

(* The strengthened invariant of the lock.                                 *)
THEOREM InvCorrect == Spec => []IInv
<1>1. Init => IInv
  BY TypeInit DEF Init, IInv, Guarded, Inside, Holding
<1>2. IInv /\ [Next]_vars => IInv'
  BY TypeNext, StolenStays, GuardedNext DEF IInv
<1> QED BY <1>1, <1>2, PTL DEF Spec

(* As long as no fresh lock was renamed away, one process at a time is     *)
(* inside the lock and no update of the registry file is lost, whatever    *)
(* number of processes compete and wherever they crash.                    *)
THEOREM SerializedTheorem == Spec => []SerializedUnlessStolen
<1>1. IInv => SerializedUnlessStolen
  BY DEF IInv, Guarded, SerializedUnlessStolen
<1> QED BY <1>1, InvCorrect, PTL

(* Release and the cleanup of a failed acquisition remove no other's lock. *)
THEOREM RemovesOwnLockTheorem == Spec => RemovesOwnLock
<1>1. IInv => RemoveStep
  BY DEF IInv, Guarded, RemoveStep, Remove, Undo, Holding, Inside
<1>2. IInv /\ [Next]_vars => [RemoveStep]_vars
  BY <1>1
<1> QED BY <1>2, InvCorrect, PTL DEF RemovesOwnLock, Spec

-----------------------------------------------------------------------------
(* While nobody fails, a lock directory has its process inside, so that it *)
(* does not go stale, and nobody is about to rename it.                    *)
Attended ==
  /\ ~stolen
  /\ dir => ~stale /\ \E p \in Procs : pc[p] \in Inside
  /\ \A p \in Procs : pc[p] # "rename"

LEMMA AttendedNext ==
  ASSUME TypeOK, Guarded, Attended, [Next]_vars, failures = 0, failures' = 0
  PROVE  Attended'
<1> USE DEF TypeOK, Attended
<1>1. CASE UNCHANGED vars
  BY <1>1 DEF vars, lockVars
<1>2. ASSUME NEW p \in Procs, NEW next, next # "rename", Goto(p, next), UNCHANGED lockVars,
             pc[p] \in Inside => next \in Inside
      PROVE  Attended'
  BY <1>2 DEF Goto, lockVars
<1>3. ASSUME NEW p \in Procs, Begin(p) \/ Stat(p) PROVE Attended'
  BY <1>2, <1>3 DEF Begin, Stat, Busy, Retry, Inside
<1>4. ASSUME NEW p \in Procs, Load(p) \/ Persist(p) PROVE Attended'
  BY <1>2, <1>4 DEF Load, Persist, Inside
<1>5. ASSUME NEW p \in Procs, Mkdir(p) PROVE Attended'
  <2>1. CASE dir
    BY <1>2, <1>5, <2>1 DEF Mkdir, Inside
  <2>2. CASE ~dir
    <3>1. pc' = [pc EXCEPT ![p] = "write"] /\ ~stale' /\ stolen' = stolen
      BY <1>5, <2>2 DEF Mkdir, Goto
    <3>2. pc'[p] \in Inside
      BY <3>1 DEF Inside
    <3> QED BY <3>1, <3>2
  <2> QED BY <2>1, <2>2
<1>6. ASSUME NEW p \in Procs, WriteOwner(p) PROVE Attended'
  <2>1. /\ pc' = [pc EXCEPT ![p] = "load"] \/ pc' = [pc EXCEPT ![p] = "undo"]
        /\ UNCHANGED <<dir, stale, stolen>>
    BY <1>6 DEF WriteOwner, Goto
  <2>2. pc'[p] \in Inside
    BY <2>1 DEF Inside
  <2> QED BY <2>1, <2>2
<1>7. ASSUME NEW p \in Procs, Undo(p) \/ Remove(p) PROVE Attended'
  <2>1. pc' = [pc EXCEPT ![p] = "idle"] /\ dir' = FALSE /\ stolen' = stolen
    BY <1>7 DEF Undo, Remove, Unlocked, Busy, Goto
  <2> QED BY <2>1
<1>8. ASSUME NEW p \in Procs, Rename(p) PROVE Attended'
  BY <1>8 DEF Rename
<1>9. ASSUME NEW p \in Procs, Release(p) PROVE Attended'
  <2>1. owner = p
    BY <1>9 DEF Release, Guarded, Holding, Inside
  <2> QED BY <1>2, <1>9, <2>1 DEF Release, Inside
<1>10. ASSUME NEW p \in Procs, Crash(p) \/ OperationThrows(p) PROVE FALSE
  BY <1>10 DEF Crash, OperationThrows
<1>11. CASE GrowStale
  BY <1>11 DEF GrowStale
<1> QED BY <1>1, <1>3, <1>4, <1>5, <1>6, <1>7, <1>8, <1>9, <1>10, <1>11 DEF Next, Step

(* The promise of the lock holds while no process crashes.                 *)
THEOREM SerializedUnlessFailureTheorem == Spec => []SerializedUnlessFailure
<1> DEFINE AInv == failures = 0 => Attended
<1>1. Init => AInv
  BY DEF Init, Attended
<1>2. IInv /\ AInv /\ [Next]_vars => AInv'
  <2> SUFFICES ASSUME IInv, AInv, [Next]_vars, failures' = 0 PROVE Attended'
    OBVIOUS
  <2>1. failures = 0
    BY DEF IInv, TypeOK, Next, Step, Begin, Mkdir, WriteOwner, Undo, Stat, Rename, Load,
      Persist, OperationThrows, Release, Remove, Crash, GrowStale, vars
  <2>2. TypeOK /\ Guarded /\ Attended
    BY <2>1 DEF IInv, Attended
  <2> QED BY <2>1, <2>2, AttendedNext
<1>3. IInv /\ AInv => SerializedUnlessFailure
  BY DEF IInv, Attended, Guarded, SerializedUnlessFailure
<1> QED BY <1>1, <1>2, <1>3, InvCorrect, PTL DEF Spec
=============================================================================
