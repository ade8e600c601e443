---------------------------- MODULE SqlQueueProofs ----------------------------
(***************************************************************************)
(* Proofs about SqlQueue for any queries, caps and number of crashes.      *)
(* The heart is that running is TRUE exactly while one query is pending or *)
(* settled: it lets drain() alone start queries, and everything that       *)
(* settles the pending query hand over to finally(), which drains again.   *)
(***************************************************************************)
EXTENDS SqlQueue, DataLemmas

Disjoint ==
  /\ queued \cap pending = {}
  /\ destroyed => queued = {} /\ pending = {} /\ worker = 0

(* While nothing has crashed, what executes is the pending query, and only *)
(* the current thread is live; destroy() leaves none.                      *)
OneThread ==
  /\ worker # 0 => thread[worker] \in {"live", "failing"}
  /\ \A r \in requests : thread[r[2]] # "gone"
  /\ crashes = 0 =>
       /\ \A w \in DOMAIN thread :
            /\ thread[w] # "failing"
            /\ thread[w] = "live" => w = worker
            /\ thread[w] = "dying" => destroyed
       /\ \A r \in requests :
            thread[r[2]] = "live" /\ r[1] \notin aborted => r[1] \in pending

Core == RunningMatches /\ NoIdleQueue /\ WaitingMatches /\ Disjoint

IInv == TypeOK /\ Core /\ OneThread

(* The state before the first query.                                       *)
LEMMA IInvInit == Init => IInv
<1> SUFFICES ASSUME Init PROVE IInv
  OBVIOUS
<1>1. TypeOK
  <2>1. thread \in Seq(ThreadStates) /\ Len(thread) = 0 /\ worker = 0
    BY DEF Init
  <2>2. nextTaskId \in Nat \ {0} /\ id \in [Tasks -> 0 .. nextTaskId - 1]
    <3>1. nextTaskId = 1 /\ id = [t \in Tasks |-> 0]
      BY DEF Init
    <3> QED BY <3>1
  <2>3. crashes \in 0..MaxCrashes
    <3>1. crashes = 0
      BY DEF Init
    <3> QED BY <3>1, SqlAssumption
  <2>4. running \in BOOLEAN /\ destroyed \in BOOLEAN
    BY DEF Init
  <2>5. queuedBytes \in Int
    BY DEF Init
  <2> QED BY <2>1, <2>2, <2>3, <2>4, <2>5 DEF Init, TypeOK
<1>2. Core
  BY DEF Init, Core, RunningMatches, NoIdleQueue, WaitingMatches, Disjoint
<1>3. OneThread
  BY DEF Init, OneThread
<1> QED BY <1>1, <1>2, <1>3 DEF IInv

-----------------------------------------------------------------------------
(* What a request at the current worker, or at a new one, does to types.   *)
LEMMA PostTypes ==
  ASSUME TypeOK, NEW t \in Tasks, PostToWorker(t)
  PROVE  /\ pending' \subseteq Tasks
         /\ thread' \in Seq(ThreadStates)
         /\ worker' \in 1 .. Len(thread')
         /\ requests' \subseteq Tasks \X (1 .. Len(thread'))
<1>1. CASE worker = 0
  <2>1. thread' = Append(thread, "live") /\ worker' = Len(thread) + 1
    BY <1>1 DEF PostToWorker
  <2>2. thread' \in Seq(ThreadStates) /\ Len(thread') = Len(thread) + 1 /\ Len(thread) \in Nat
    BY <2>1 DEF TypeOK, ThreadStates
  <2> QED BY <2>1, <2>2 DEF PostToWorker, TypeOK
<1>2. CASE worker # 0
  <2>1. thread' = thread /\ worker' = worker
    BY <1>2 DEF PostToWorker
  <2>2. Len(thread) \in Nat
    BY DEF TypeOK
  <2> QED BY <1>2, <2>1, <2>2 DEF PostToWorker, TypeOK
<1> QED BY <1>1, <1>2

(* A drain of a queue of queries keeps the types of what it changes.       *)
LEMMA DrainTypes ==
  ASSUME TypeOK, NEW queue \in SUBSET Tasks, NEW bytes \in Int, NEW ids,
         NEW outcomes \in [Tasks -> Settlements \cup {"none", "waiting"}],
         Drain(queue, bytes, ids, outcomes)
  PROVE  /\ queued' \subseteq Tasks /\ queuedBytes' \in Int
         /\ running' \in BOOLEAN /\ settled' \in Tasks \cup {NoTask}
         /\ pending' \subseteq Tasks
         /\ outcome' \in [Tasks -> Settlements \cup {"none", "waiting"}]
         /\ worker' \in 0 .. Len(thread')
         /\ thread' \in Seq(ThreadStates)
         /\ requests' \subseteq Tasks \X (1 .. Len(thread'))
<1>1. CASE queue = {} /\ UNCHANGED <<pending, workerVars>>
           /\ queued' = queue /\ queuedBytes' = bytes /\ running' = FALSE
           /\ settled' = NoTask /\ outcome' = outcomes
  BY <1>1 DEF TypeOK, workerVars
<1>2. ASSUME NEW t \in queue,
             queued' = queue \ {t}, queuedBytes' = bytes - byteLength[t],
             running' = TRUE,
             IF t \in overdue
             THEN RunExpired(t, outcomes)
             ELSE PostToWorker(t) /\ settled' = NoTask /\ outcome' = outcomes
      PROVE  /\ queued' \subseteq Tasks /\ queuedBytes' \in Int
             /\ running' \in BOOLEAN /\ settled' \in Tasks \cup {NoTask}
             /\ pending' \subseteq Tasks
             /\ outcome' \in [Tasks -> Settlements \cup {"none", "waiting"}]
             /\ worker' \in 0 .. Len(thread')
             /\ thread' \in Seq(ThreadStates)
             /\ requests' \subseteq Tasks \X (1 .. Len(thread'))
  <2>1. queuedBytes' \in Int
    BY <1>2, SqlAssumption
  <2>2. CASE t \in overdue
    BY <1>2, <2>1, <2>2 DEF RunExpired, TypeOK, workerVars, Settlements
  <2>3. CASE t \notin overdue
    <3>1. PostToWorker(t) /\ settled' = NoTask /\ outcome' = outcomes
      BY <1>2, <2>3
    <3>2. worker' \in 0 .. Len(thread')
      BY <3>1, PostTypes
    <3> QED BY <1>2, <2>1, <3>1, <3>2, PostTypes
  <2> QED BY <2>2, <2>3
<1> QED BY <1>1, <1>2 DEF Drain

(* Types are kept by every turn of the event loop.                         *)
LEMMA TypeNext == TypeOK /\ [Next]_vars => TypeOK'
<1> SUFFICES ASSUME TypeOK, [Next]_vars PROVE TypeOK'
  OBVIOUS
<1> DEFINE Outs == [Tasks -> Settlements \cup {"none", "waiting"}]
<1>0. ASSUME NEW ts \in SUBSET Tasks, NEW how \in Settlements, Settle(ts, how)
      PROVE  outcome' \in Outs
  BY <1>0 DEF Settle, TypeOK
<1>1. CASE UNCHANGED vars
  BY <1>1 DEF vars, queueVars, workerVars, TypeOK
<1>2. ASSUME NEW t \in Tasks, Refuse(t) PROVE TypeOK'
  <2>1. outcome' \in Outs
    BY <1>2, <1>0 DEF Refuse, Settlements
  <2> QED BY <1>2, <2>1 DEF Refuse, TypeOK, queueVars, workerVars
<1>3. ASSUME NEW t \in Tasks, Enqueue(t) PROVE TypeOK'
  <2> DEFINE queue == queued \cup {t}
             bytes == queuedBytes + byteLength[t]
             outcomes == [outcome EXCEPT ![t] = "waiting"]
  <2>1. queue \in SUBSET Tasks /\ bytes \in Int
    BY SqlAssumption DEF TypeOK
  <2>2. outcomes \in Outs
    BY DEF TypeOK
  <2>3. nextTaskId' \in Nat \ {0} /\ id' \in [Tasks -> 0 .. nextTaskId' - 1]
    <3>1. nextTaskId' = nextTaskId + 1 /\ id' = [id EXCEPT ![t] = nextTaskId]
      BY <1>3 DEF Enqueue
    <3> QED BY <3>1 DEF TypeOK
  <2>4. CASE running
    <3>1. /\ queued' = queue /\ queuedBytes' = bytes /\ outcome' = outcomes
          /\ UNCHANGED <<running, settled, pending, workerVars>>
      BY <1>3, <2>4 DEF Enqueue
    <3> HIDE DEF queue, bytes, outcomes
    <3> QED BY <1>3, <2>1, <2>2, <2>3, <3>1 DEF Enqueue, TypeOK, workerVars
  <2>5. CASE ~running
    <3>1. Drain(queue, bytes, id', outcomes)
      BY <1>3, <2>5 DEF Enqueue
    <3> HIDE DEF queue, bytes, outcomes
    <3>2. /\ queued' \subseteq Tasks /\ queuedBytes' \in Int
          /\ running' \in BOOLEAN /\ settled' \in Tasks \cup {NoTask}
          /\ pending' \subseteq Tasks /\ outcome' \in Outs
          /\ worker' \in 0 .. Len(thread') /\ thread' \in Seq(ThreadStates)
          /\ requests' \subseteq Tasks \X (1 .. Len(thread'))
      BY <2>1, <2>2, <3>1, DrainTypes
    <3> QED BY <1>3, <2>3, <3>2 DEF Enqueue, TypeOK
  <2> QED BY <2>4, <2>5
<1>4. CASE Finish
  <2>1. CASE destroyed
    BY <1>4, <2>1 DEF Finish, TypeOK, workerVars
  <2>2. CASE ~destroyed
    <3>1. Drain(queued, queuedBytes, id, outcome)
      BY <1>4, <2>2 DEF Finish
    <3>2. /\ queued' \subseteq Tasks /\ queuedBytes' \in Int
          /\ running' \in BOOLEAN /\ settled' \in Tasks \cup {NoTask}
          /\ pending' \subseteq Tasks /\ outcome' \in Outs
          /\ worker' \in 0 .. Len(thread') /\ thread' \in Seq(ThreadStates)
          /\ requests' \subseteq Tasks \X (1 .. Len(thread'))
      BY <3>1, DrainTypes DEF TypeOK
    <3> QED BY <1>4, <3>2 DEF Finish, TypeOK
  <2> QED BY <2>1, <2>2
<1>5. ASSUME NEW t \in Tasks, DeadlinePasses(t) PROVE TypeOK'
  BY <1>5 DEF DeadlinePasses, TypeOK, queueVars, workerVars
<1>6. ASSUME NEW t \in Tasks, NEW how \in Settlements, LeaveQueue(t, how)
      PROVE  /\ queued' \subseteq Tasks /\ queuedBytes' \in Int
             /\ outcome' \in Outs
             /\ UNCHANGED <<running, settled, pending>>
  <2>1. queuedBytes' \in Int
    BY <1>6, SqlAssumption DEF LeaveQueue, TypeOK
  <2>2. outcome' \in Outs
    BY <1>0, <1>6 DEF LeaveQueue
  <2> QED BY <1>6, <2>1, <2>2 DEF LeaveQueue, TypeOK
<1>7. ASSUME NEW t \in Tasks, Expire(t) PROVE TypeOK'
  BY <1>6, <1>7 DEF Expire, TypeOK, workerVars, Settlements
<1>8. ASSUME NEW t \in Tasks, Abort(t) PROVE TypeOK'
  <2>1. CASE t \in queued /\ LeaveQueue(t, "cancelled")
    BY <1>6, <1>8, <2>1 DEF Abort, TypeOK, workerVars, Settlements
  <2>2. CASE Settle({t}, "cancelled") /\ pending' = pending \ {t} /\ settled' = t
             /\ UNCHANGED <<queued, queuedBytes, running>>
    <3>1. outcome' \in Outs
      BY <1>0, <2>2 DEF Settlements
    <3> QED BY <1>8, <2>2, <3>1 DEF Abort, TypeOK, workerVars
  <2>3. CASE UNCHANGED <<queued, queuedBytes, running, settled, pending, outcome>>
    BY <1>8, <2>3 DEF Abort, TypeOK, workerVars
  <2> QED BY <1>8, <2>1, <2>2, <2>3 DEF Abort
<1>9. ASSUME NEW r \in requests, Message(r[1], r[2]) PROVE TypeOK'
  <2>1. r[1] \in Tasks /\ r[2] \in 1 .. Len(thread)
    BY DEF TypeOK
  <2>2. outcome' \in Outs /\ pending' \subseteq Tasks /\ settled' \in Tasks \cup {NoTask}
    <3>1. CASE r[1] \in pending
      BY <1>0, <1>9, <2>1, <3>1 DEF Message, Settlements, TypeOK
    <3>2. CASE r[1] \notin pending
      BY <1>9, <3>2 DEF Message, TypeOK
    <3> QED BY <3>1, <3>2
  <2>3. requests' \subseteq Tasks \X (1 .. Len(thread))
    BY <1>9 DEF Message, TypeOK
  <2> QED BY <1>9, <2>2, <2>3 DEF Message, TypeOK, queueVars
<1>10. ASSUME NEW w \in DOMAIN thread, NEW s \in ThreadStates,
              thread' = [thread EXCEPT ![w] = s]
       PROVE  thread' \in Seq(ThreadStates) /\ Len(thread') = Len(thread)
  BY <1>10 DEF TypeOK
<1>11. ASSUME NEW w \in DOMAIN thread, Crash(w) PROVE TypeOK'
  <2>1. thread' \in Seq(ThreadStates) /\ Len(thread') = Len(thread)
    BY <1>10, <1>11 DEF Crash, ThreadStates
  <2>2. crashes' \in 0..MaxCrashes
    BY <1>11, SqlAssumption DEF Crash, TypeOK
  <2> QED BY <1>11, <2>1, <2>2 DEF Crash, TypeOK, queueVars
<1>12. ASSUME RejectPending("failed")
       PROVE  /\ outcome' \in Outs /\ pending' \subseteq Tasks
              /\ settled' \in Tasks \cup {NoTask}
  BY <1>0, <1>12 DEF RejectPending, Settlements, TypeOK
<1>13. ASSUME NEW w \in DOMAIN thread, WorkerError(w) PROVE TypeOK'
  <2>1. thread' \in Seq(ThreadStates) /\ Len(thread') = Len(thread)
    BY <1>10, <1>13 DEF WorkerError, ThreadStates
  <2>2. worker' \in 0 .. Len(thread')
    BY <1>13, <2>1 DEF WorkerError, TypeOK
  <2> QED BY <1>12, <1>13, <2>1, <2>2 DEF WorkerError, TypeOK, queueVars
<1>14. ASSUME NEW w \in DOMAIN thread, WorkerExit(w) PROVE TypeOK'
  <2>1. thread' \in Seq(ThreadStates) /\ Len(thread') = Len(thread)
    BY <1>10, <1>14 DEF WorkerExit, ThreadStates
  <2>2. worker' \in 0 .. Len(thread')
    BY <1>14, <2>1 DEF WorkerExit, TypeOK
  <2>3. requests' \subseteq Tasks \X (1 .. Len(thread'))
    BY <1>14, <2>1 DEF WorkerExit, TypeOK
  <2>4. /\ outcome' \in Outs /\ pending' \subseteq Tasks
        /\ settled' \in Tasks \cup {NoTask}
    BY <1>12, <1>14 DEF WorkerExit, TypeOK
  <2> QED BY <1>14, <2>1, <2>2, <2>3, <2>4 DEF WorkerExit, TypeOK, queueVars
<1>15. CASE Destroy
  <2>1. thread' \in Seq(ThreadStates) /\ Len(thread') = Len(thread)
    BY <1>15 DEF Destroy, TypeOK, ThreadStates
  <2>2. worker' \in 0 .. Len(thread')
    BY <1>15, <2>1 DEF Destroy, TypeOK
  <2>3. outcome' \in Outs
    BY <1>0, <1>15 DEF Destroy, TypeOK, Settlements
  <2>4. queued' \subseteq Tasks /\ queuedBytes' \in Int /\ pending' \subseteq Tasks
        /\ settled' \in Tasks \cup {NoTask}
    BY <1>15 DEF Destroy, TypeOK
  <2> QED BY <1>15, <2>1, <2>2, <2>3, <2>4 DEF Destroy, TypeOK
<1> QED BY <1>1, <1>2, <1>3, <1>4, <1>5, <1>7, <1>8, <1>9, <1>11, <1>13, <1>14,
  <1>15 DEF Next

(* Every reachable state is well typed.                                    *)
THEOREM TypeCorrect == Spec => []TypeOK
<1>1. Init => TypeOK
  BY IInvInit DEF IInv
<1> QED BY <1>1, TypeNext, PTL DEF Spec

-----------------------------------------------------------------------------
Outs == [Tasks -> Settlements \cup {"none", "waiting"}]

(* A drain when nothing is pending leaves a queue that is idle and empty,  *)
(* or one query pending, or one that is settled as expired.                *)
LEMMA DrainCore ==
  ASSUME TypeOK, pending = {}, ~destroyed, ~destroyed',
         NEW queue \in SUBSET Tasks, NEW bytes, NEW ids, NEW outcomes \in Outs,
         \A t \in Tasks : outcomes[t] = "waiting" <=> t \in queue,
         Drain(queue, bytes, ids, outcomes)
  PROVE  /\ Core'
         /\ \A t \in Tasks : outcomes[t] \in Settlements => outcome'[t] = outcomes[t]
<1> USE DEF Core, RunningMatches, NoIdleQueue, WaitingMatches, Disjoint
<1>1. CASE queue = {} /\ UNCHANGED <<pending, workerVars>>
           /\ queued' = queue /\ queuedBytes' = bytes /\ running' = FALSE
           /\ settled' = NoTask /\ outcome' = outcomes
  BY <1>1
<1>2. ASSUME NEW t \in queue,
             queued' = queue \ {t}, running' = TRUE,
             IF t \in overdue
             THEN RunExpired(t, outcomes)
             ELSE PostToWorker(t) /\ settled' = NoTask /\ outcome' = outcomes
      PROVE  /\ Core'
             /\ \A u \in Tasks : outcomes[u] \in Settlements => outcome'[u] = outcomes[u]
  <2>1. t \in Tasks /\ outcomes[t] = "waiting"
    OBVIOUS
  <2>2. CASE t \in overdue
    <3>1. /\ outcome' = [outcomes EXCEPT ![t] = "expired"]
          /\ settled' = t /\ pending' = {}
      BY <1>2, <2>2 DEF RunExpired
    <3>2. settled' # NoTask
      BY <2>1, <3>1, SqlAssumption
    <3>3. WaitingMatches'
      BY <1>2, <2>1, <3>1 DEF Outs
    <3>4. \A u \in Tasks : outcomes[u] \in Settlements => outcome'[u] = outcomes[u]
      BY <2>1, <3>1 DEF Outs, Settlements
    <3> QED BY <1>2, <3>1, <3>2, <3>3, <3>4
  <2>3. CASE t \notin overdue
    <3>1. pending' = {t} /\ settled' = NoTask /\ outcome' = outcomes
      BY <1>2, <2>3 DEF PostToWorker
    <3> QED BY <1>2, <2>1, <3>1
  <2> QED BY <2>2, <2>3
<1> QED BY <1>1, <1>2 DEF Drain

(* What settling the pending queries does; here the queue keeps the rest.  *)
LEMMA RejectCore ==
  ASSUME TypeOK, Core, NEW how \in Settlements, RejectPending(how), settled = NoTask,
         UNCHANGED <<queued, running, destroyed>>,
         destroyed => worker' = 0
  PROVE  /\ Core'
         /\ \A t \in Tasks : outcome[t] \in Settlements => outcome'[t] = outcome[t]
<1> USE DEF Core, RunningMatches, NoIdleQueue, WaitingMatches, Disjoint
<1>1. pending' = {} /\ how # "waiting"
  BY DEF RejectPending, Settlements
<1>2. \A t \in Tasks : outcome'[t] = IF t \in pending THEN how ELSE outcome[t]
  BY DEF RejectPending, Settle
<1>3. IF pending = {} THEN settled' = NoTask ELSE settled' \in Tasks /\ settled' # NoTask
  BY SqlAssumption DEF RejectPending, TypeOK
<1>4. RunningMatches'
  BY <1>1, <1>3
<1>5. WaitingMatches'
  BY <1>1, <1>2
<1>6. NoIdleQueue' /\ Disjoint'
  BY <1>1
<1>7. \A t \in Tasks : outcome[t] \in Settlements => outcome'[t] = outcome[t]
  BY <1>2 DEF Settlements
<1> QED BY <1>4, <1>5, <1>6, <1>7

(* Each turn keeps the queue and the running query in step, and settles no *)
(* query that was settled before.                                          *)
LEMMA CoreNext ==
  ASSUME TypeOK, Core, [Next]_vars
  PROVE  /\ Core'
         /\ \A t \in Tasks : outcome[t] \in Settlements => outcome'[t] = outcome[t]
<1> DEFINE Once == \A t \in Tasks : outcome[t] \in Settlements => outcome'[t] = outcome[t]
<1> USE DEF Core, RunningMatches, NoIdleQueue, WaitingMatches, Disjoint
<1>1. CASE UNCHANGED vars
  BY <1>1 DEF vars, queueVars, workerVars
<1>2. ASSUME NEW t \in Tasks, Refuse(t) PROVE Core' /\ Once
  <2>1. \A u \in Tasks : outcome'[u] = IF u = t THEN "refused" ELSE outcome[u]
    BY <1>2 DEF Refuse, Settle
  <2>2. outcome[t] = "none"
    BY <1>2 DEF Refuse
  <2>3. WaitingMatches' /\ Once
    BY <1>2, <2>1, <2>2 DEF Refuse, queueVars, Settlements
  <2> QED BY <1>2, <2>3 DEF Refuse, queueVars, workerVars
<1>3. ASSUME NEW t \in Tasks, Enqueue(t) PROVE Core' /\ Once
  <2> DEFINE queue == queued \cup {t}
             bytes == queuedBytes + byteLength[t]
             outcomes == [outcome EXCEPT ![t] = "waiting"]
  <2>1. outcome[t] = "none" /\ ~destroyed /\ ~destroyed'
    BY <1>3 DEF Enqueue
  <2>2. outcomes \in Outs /\ queue \in SUBSET Tasks
    BY DEF TypeOK, Outs
  <2>3. \A u \in Tasks : outcomes[u] = "waiting" <=> u \in queue \cup pending
    BY DEF TypeOK
  <2>4. \A u \in Tasks : outcome[u] \in Settlements => outcomes[u] = outcome[u]
    BY <2>1 DEF TypeOK, Settlements
  <2>5. t \notin pending
    BY <2>1
  <2>6. CASE running
    <3>1. queued' = queue /\ outcome' = outcomes /\ UNCHANGED <<running, settled, pending>>
      BY <1>3, <2>6 DEF Enqueue
    <3> HIDE DEF outcomes
    <3> QED BY <2>1, <2>3, <2>4, <2>5, <2>6, <3>1
  <2>7. CASE ~running
    <3>1. Drain(queue, bytes, id', outcomes)
      BY <1>3, <2>7 DEF Enqueue
    <3>2. pending = {}
      BY <2>7
    <3> HIDE DEF queue, bytes, outcomes
    <3>3. Core' /\ \A u \in Tasks : outcomes[u] \in Settlements => outcome'[u] = outcomes[u]
      <4> HIDE DEF Core, RunningMatches, NoIdleQueue, WaitingMatches, Disjoint
      <4> QED BY <2>1, <2>2, <2>3, <3>1, <3>2, DrainCore
    <3> QED BY <2>4, <3>3
  <2> QED BY <2>6, <2>7
<1>4. CASE Finish
  <2>1. pending = {}
    BY <1>4 DEF Finish
  <2>2. CASE destroyed
    BY <1>4, <2>1, <2>2 DEF Finish, workerVars
  <2>3. CASE ~destroyed
    <3>1. Drain(queued, queuedBytes, id, outcome) /\ ~destroyed'
      BY <1>4, <2>3 DEF Finish
    <3>2. outcome \in Outs /\ queued \in SUBSET Tasks
      BY DEF TypeOK, Outs
    <3>3. \A u \in Tasks : outcome[u] = "waiting" <=> u \in queued
      BY <2>1
    <3> HIDE DEF Core, RunningMatches, NoIdleQueue, WaitingMatches, Disjoint
    <3> QED BY <2>1, <2>3, <3>1, <3>2, <3>3, DrainCore
  <2> QED BY <2>2, <2>3
<1>5. ASSUME NEW t \in Tasks, DeadlinePasses(t) PROVE Core' /\ Once
  BY <1>5 DEF DeadlinePasses, queueVars, workerVars
<1>6. ASSUME NEW t \in queued, NEW how \in Settlements, LeaveQueue(t, how),
             UNCHANGED <<destroyed, workerVars>>
      PROVE  Core' /\ Once
  <2>1. \A u \in Tasks : outcome'[u] = IF u = t THEN how ELSE outcome[u]
    BY <1>6 DEF LeaveQueue, Settle
  <2>2. how # "waiting" /\ outcome[t] = "waiting" /\ t \notin pending
    BY DEF TypeOK, Settlements
  <2>3. WaitingMatches' /\ Once
    BY <1>6, <2>1, <2>2 DEF LeaveQueue, Settlements
  <2> QED BY <1>6, <2>3 DEF LeaveQueue, workerVars
<1>7. ASSUME NEW t \in Tasks, Expire(t) PROVE Core' /\ Once
  BY <1>6, <1>7 DEF Expire, Settlements
<1>8. ASSUME NEW t \in pending, NEW how \in Settlements, Settle({t}, how),
             pending' = pending \ {t}, settled' = t,
             UNCHANGED <<queued, running, destroyed, worker>>
      PROVE  Core' /\ Once
  <2>1. \A u \in Tasks : outcome'[u] = IF u = t THEN how ELSE outcome[u]
    BY <1>8 DEF Settle
  <2>2. /\ how # "waiting" /\ outcome[t] = "waiting" /\ t \notin queued
        /\ pending' = {} /\ settled' # NoTask /\ running
    BY <1>8, SqlAssumption DEF TypeOK, Settlements
  <2>3. WaitingMatches' /\ Once
    BY <1>8, <2>1, <2>2 DEF Settlements
  <2> QED BY <1>8, <2>2, <2>3
<1>9. ASSUME NEW t \in Tasks, Abort(t) PROVE Core' /\ Once
  <2>1. CASE t \in queued /\ LeaveQueue(t, "cancelled")
    BY <1>6, <1>9, <2>1 DEF Abort, Settlements
  <2>2. CASE t \in pending /\ Settle({t}, "cancelled") /\ pending' = pending \ {t}
             /\ settled' = t /\ UNCHANGED <<queued, queuedBytes, running>>
    BY <1>8, <1>9, <2>2 DEF Abort, Settlements, workerVars
  <2>3. CASE UNCHANGED <<queued, queuedBytes, running, settled, pending, outcome>>
    BY <1>9, <2>3 DEF Abort, workerVars
  <2> QED BY <1>9, <2>1, <2>2, <2>3 DEF Abort
<1>10. ASSUME NEW r \in requests, Message(r[1], r[2]) PROVE Core' /\ Once
  <2>1. CASE r[1] \in pending
    BY <1>8, <1>10, <2>1 DEF Message, Settlements, queueVars
  <2>2. CASE r[1] \notin pending
    BY <1>10, <2>2 DEF Message, queueVars
  <2> QED BY <2>1, <2>2
<1>11. ASSUME NEW w \in DOMAIN thread, Crash(w) PROVE Core' /\ Once
  BY <1>11 DEF Crash, queueVars
<1>12. ASSUME NEW w \in DOMAIN thread, WorkerError(w) PROVE Core' /\ Once
  BY <1>12, RejectCore DEF WorkerError, TurnBegins, queueVars, Settlements
<1>13. ASSUME NEW w \in DOMAIN thread, WorkerExit(w) PROVE Core' /\ Once
  <2>1. CASE destroyed
    BY <1>13, <2>1 DEF WorkerExit, queueVars
  <2>2. CASE ~destroyed
    BY <1>13, <2>2, RejectCore DEF WorkerExit, TurnBegins, queueVars, Settlements
  <2> QED BY <2>1, <2>2
<1>14. CASE Destroy
  <2>1. \A u \in Tasks :
          outcome'[u] = IF u \in queued \cup pending THEN "destroyed" ELSE outcome[u]
    BY <1>14 DEF Destroy, Settle
  <2>2. WaitingMatches' /\ Once
    BY <1>14, <2>1 DEF Destroy, Settlements
  <2>3. IF pending = {} THEN settled' = settled ELSE settled' \in Tasks /\ settled' # NoTask
    BY <1>14, SqlAssumption DEF Destroy, TypeOK
  <2>4. RunningMatches'
    BY <1>14, <2>3 DEF Destroy
  <2> QED BY <1>14, <2>2, <2>4 DEF Destroy
<1> QED BY <1>1, <1>2, <1>3, <1>4, <1>5, <1>7, <1>9, <1>10, <1>11, <1>12, <1>13,
  <1>14 DEF Next

-----------------------------------------------------------------------------
(* A request posted when nothing is pending is the only one that executes. *)
LEMMA PostThread ==
  ASSUME TypeOK, OneThread, NEW t \in Tasks, PostToWorker(t),
         ~destroyed, UNCHANGED <<aborted, destroyed, crashes>>, pending = {}
  PROVE  OneThread'
<1> USE DEF OneThread
<1>1. pending' = {t}
  BY DEF PostToWorker
<1>2. \A r \in requests : r[1] \in Tasks /\ r[2] \in 1 .. Len(thread)
  BY DEF TypeOK
<1>3. Len(thread) \in Nat /\ DOMAIN thread = 1 .. Len(thread)
  BY DEF TypeOK
<1>4. CASE worker = 0
  <2>1. /\ thread' = Append(thread, "live") /\ worker' = Len(thread) + 1
        /\ requests' = requests \cup {<<t, worker'>>}
    BY <1>4 DEF PostToWorker
  <2>2. /\ DOMAIN thread' = 1 .. (Len(thread) + 1)
        /\ thread'[Len(thread) + 1] = "live"
        /\ \A w \in 1 .. Len(thread) : thread'[w] = thread[w]
    BY <2>1 DEF TypeOK, ThreadStates
  <2>3. \A r \in requests' : thread'[r[2]] # "gone"
    BY <1>2, <1>3, <2>1, <2>2
  <2>4. ASSUME crashes = 0, NEW w \in DOMAIN thread'
        PROVE  /\ thread'[w] # "failing"
               /\ thread'[w] = "live" => w = worker'
               /\ thread'[w] = "dying" => destroyed'
    <3>1. CASE w = Len(thread) + 1
      BY <2>1, <2>2, <3>1
    <3>2. CASE w \in 1 .. Len(thread)
      BY <1>3, <1>4, <2>2, <2>4, <3>2
    <3> QED BY <1>3, <2>2, <3>1, <3>2
  <2>5. ASSUME crashes = 0, NEW r \in requests'
        PROVE  thread'[r[2]] = "live" /\ r[1] \notin aborted' => r[1] \in pending'
    BY <1>1, <1>2, <2>1, <2>2, <2>5
  <2>6. thread'[worker'] = "live"
    BY <2>1, <2>2
  <2> QED BY <2>3, <2>4, <2>5, <2>6
<1>5. CASE worker # 0
  <2>1. thread' = thread /\ worker' = worker /\ requests' = requests \cup {<<t, worker>>}
    BY <1>5 DEF PostToWorker
  <2>2. \A r \in requests' : r \in requests \/ (r[1] = t /\ r[2] = worker)
    BY <2>1
  <2>3. \A r \in requests' : thread'[r[2]] # "gone"
    BY <1>5, <2>1, <2>2
  <2>4. ASSUME crashes = 0, NEW r \in requests'
        PROVE  thread'[r[2]] = "live" /\ r[1] \notin aborted' => r[1] \in pending'
    BY <1>1, <2>1, <2>2, <2>4
  <2> QED BY <1>5, <2>1, <2>3, <2>4
<1> QED BY <1>4, <1>5

(* Each turn keeps the threads apart: one at most is live, until a crash.  *)
LEMMA ThreadNext ==
  ASSUME TypeOK, Core, OneThread, [Next]_vars
  PROVE  OneThread'
<1> DEFINE Same == UNCHANGED <<worker, thread, crashes>>
<1>0. \A r \in requests : r[1] \in Tasks /\ r[2] \in DOMAIN thread
  BY DEF TypeOK
<1>1. ASSUME Same, requests' \subseteq requests, aborted \subseteq aborted',
             destroyed => destroyed', pending \subseteq pending' \cup aborted'
      PROVE  OneThread'
  BY <1>1 DEF OneThread
<1>2. CASE UNCHANGED vars
  BY <1>1, <1>2 DEF vars, workerVars
<1>3. ASSUME NEW t \in Tasks, Refuse(t) \/ DeadlinePasses(t) PROVE OneThread'
  BY <1>1, <1>3 DEF Refuse, DeadlinePasses, workerVars
<1>4. ASSUME NEW queue \in SUBSET Tasks, NEW bytes, NEW ids, NEW outcomes,
             Drain(queue, bytes, ids, outcomes), pending = {}, ~destroyed,
             UNCHANGED <<aborted, destroyed, crashes>>
      PROVE  OneThread'
  <2>1. CASE UNCHANGED <<pending, workerVars>>
    BY <1>1, <1>4, <2>1 DEF workerVars
  <2>2. ASSUME NEW t \in queue, PostToWorker(t) PROVE OneThread'
    BY <1>4, <2>2, PostThread
  <2> QED BY <1>4, <2>1, <2>2 DEF Drain, RunExpired
<1>5. ASSUME NEW t \in Tasks, Enqueue(t) PROVE OneThread'
  <2>1. CASE running
    BY <1>1, <1>5, <2>1 DEF Enqueue, workerVars
  <2>2. CASE ~running
    <3>1. pending = {} /\ ~destroyed /\ UNCHANGED <<aborted, destroyed, crashes>>
      BY <1>5, <2>2 DEF Enqueue, Core, RunningMatches
    <3>2. queued \cup {t} \in SUBSET Tasks
      BY DEF TypeOK
    <3>3. Drain(queued \cup {t}, queuedBytes + byteLength[t], id',
                [outcome EXCEPT ![t] = "waiting"])
      BY <1>5, <2>2 DEF Enqueue
    <3> QED BY <1>4, <3>1, <3>2, <3>3
  <2> QED BY <2>1, <2>2
<1>6. CASE Finish
  <2>1. CASE destroyed
    BY <1>1, <1>6, <2>1 DEF Finish, workerVars
  <2>2. CASE ~destroyed
    <3>1. pending = {} /\ UNCHANGED <<aborted, destroyed, crashes>>
      BY <1>6 DEF Finish, Core, RunningMatches
    <3>2. queued \in SUBSET Tasks
      BY DEF TypeOK
    <3> QED BY <1>4, <1>6, <2>2, <3>1, <3>2 DEF Finish
  <2> QED BY <2>1, <2>2
<1>7. ASSUME NEW t \in Tasks, Expire(t) PROVE OneThread'
  BY <1>1, <1>7 DEF Expire, LeaveQueue, workerVars
<1>8. ASSUME NEW t \in Tasks, Abort(t) PROVE OneThread'
  <2>1. /\ aborted' = aborted \cup {t}
        /\ UNCHANGED <<id, nextTaskId, overdue, destroyed, workerVars, crashes>>
    BY <1>8 DEF Abort
  <2>2. pending \subseteq pending' \cup {t}
    BY <1>8 DEF Abort, LeaveQueue
  <2> QED BY <1>1, <2>1, <2>2 DEF workerVars
<1>9. ASSUME NEW r \in requests, Message(r[1], r[2]) PROVE OneThread'
  <2>1. /\ requests' = requests \ {r} /\ Same /\ UNCHANGED <<aborted, destroyed>>
    <3>1. r = <<r[1], r[2]>>
      BY DEF TypeOK
    <3> QED BY <1>9, <3>1 DEF Message
  <2>2. pending' = pending \ {r[1]} \/ pending' = pending
    BY <1>9 DEF Message
  <2>3. ASSUME crashes = 0, NEW q \in requests', thread[q[2]] = "live", q[1] \notin aborted
        PROVE  q[1] \in pending'
    <3>1. q \in requests /\ q # r /\ q[1] \in pending /\ q[2] = worker
      BY <1>0, <2>1, <2>3 DEF OneThread
    <3>2. CASE q[1] = r[1]
      <4>1. q[2] # r[2]
        BY <2>1, <3>1, <3>2 DEF TypeOK
      <4>2. thread[r[2]] = "dying"
        BY <1>0, <2>3, <3>1, <4>1 DEF OneThread, TypeOK, ThreadStates
      <4>3. destroyed
        BY <1>0, <2>3, <4>2 DEF OneThread
      <4> QED BY <3>1, <4>3 DEF Core, Disjoint
    <3>3. CASE q[1] # r[1]
      BY <2>2, <3>1, <3>3
    <3> QED BY <3>2, <3>3
  <2> QED BY <2>1, <2>3 DEF OneThread
<1>10. ASSUME NEW w \in DOMAIN thread, Crash(w) PROVE OneThread'
  <2>1. /\ thread' = [thread EXCEPT ![w] = "failing"] /\ crashes' = crashes + 1
        /\ UNCHANGED <<worker, requests>>
    BY <1>10 DEF Crash
  <2>2. crashes' # 0
    BY <2>1 DEF TypeOK
  <2>3. worker # 0 => worker \in DOMAIN thread
    BY DEF TypeOK
  <2> QED BY <1>0, <2>1, <2>2, <2>3 DEF OneThread, TypeOK
<1>11. ASSUME NEW w \in DOMAIN thread, WorkerError(w) PROVE OneThread'
  <2>1. /\ thread[w] = "failing" /\ thread' = [thread EXCEPT ![w] = "dying"]
        /\ worker' = 0 /\ UNCHANGED <<requests, crashes>>
    BY <1>11 DEF WorkerError
  <2>2. crashes' # 0
    BY <2>1 DEF OneThread
  <2> QED BY <1>0, <2>1, <2>2 DEF OneThread, TypeOK
<1>12. ASSUME NEW w \in DOMAIN thread, WorkerExit(w) PROVE OneThread'
  <2>1. /\ thread[w] \in {"failing", "dying"} /\ thread' = [thread EXCEPT ![w] = "gone"]
        /\ worker' = 0 /\ requests' = {r \in requests : r[2] # w}
        /\ UNCHANGED <<crashes, destroyed, aborted>>
    BY <1>12 DEF WorkerExit
  <2>2. \A r \in requests' : r \in requests /\ thread'[r[2]] = thread[r[2]]
    BY <1>0, <2>1 DEF TypeOK
  <2>3. ASSUME crashes = 0 PROVE destroyed /\ worker = 0 /\ pending' = pending
    <3>1. destroyed
      BY <2>1, <2>3 DEF OneThread
    <3> QED BY <1>12, <3>1 DEF Core, Disjoint, WorkerExit
  <2>4. \A x \in DOMAIN thread' :
          x \in DOMAIN thread /\ (thread'[x] = thread[x] \/ thread'[x] = "gone")
    BY <2>1 DEF TypeOK
  <2>5. ASSUME crashes = 0, NEW x \in DOMAIN thread'
        PROVE  /\ thread'[x] # "failing"
               /\ thread'[x] = "live" => x = worker'
               /\ thread'[x] = "dying" => destroyed'
    BY <2>1, <2>3, <2>4, <2>5 DEF OneThread
  <2>6. ASSUME crashes = 0, NEW r \in requests', thread'[r[2]] = "live", r[1] \notin aborted'
        PROVE  r[1] \in pending'
    BY <2>1, <2>2, <2>3, <2>6 DEF OneThread
  <2> QED BY <2>1, <2>2, <2>5, <2>6 DEF OneThread
<1>13. CASE Destroy
  <2>1. /\ worker' = 0 /\ destroyed' /\ UNCHANGED <<requests, aborted, crashes>>
        /\ thread' = [w \in DOMAIN thread |->
             IF w = worker /\ thread[w] = "live" THEN "dying" ELSE thread[w]]
    BY <1>13 DEF Destroy
  <2>2. DOMAIN thread' = DOMAIN thread
    BY <2>1
  <2>3. crashes = 0 => \A w \in DOMAIN thread : thread'[w] \notin {"live", "failing"}
    BY <2>1 DEF OneThread
  <2>4. \A r \in requests' : thread'[r[2]] # "gone"
    BY <1>0, <2>1 DEF OneThread
  <2> QED BY <1>0, <2>1, <2>2, <2>3, <2>4 DEF OneThread
<1> QED BY <1>2, <1>3, <1>5, <1>6, <1>7, <1>8, <1>9, <1>10, <1>11, <1>12, <1>13
  DEF Next

-----------------------------------------------------------------------------
(* The strengthened invariant of the queue.                                *)
THEOREM InvCorrect == Spec => []IInv
<1>1. IInv /\ [Next]_vars => IInv'
  BY TypeNext, CoreNext, ThreadNext DEF IInv
<1> QED BY <1>1, IInvInit, PTL DEF Spec

(* running is TRUE exactly while one query is pending or settled.          *)
THEOREM RunningMatchesTheorem == Spec => []RunningMatches
<1>1. IInv => RunningMatches
  BY DEF IInv, Core
<1> QED BY <1>1, InvCorrect, PTL

(* An idle queue that was not destroyed is empty.                          *)
THEOREM NoIdleQueueTheorem == Spec => []NoIdleQueue
<1>1. IInv => NoIdleQueue
  BY DEF IInv, Core
<1> QED BY <1>1, InvCorrect, PTL

(* A query waits exactly while it is in the queue or pending.              *)
THEOREM WaitingMatchesTheorem == Spec => []WaitingMatches
<1>1. IInv => WaitingMatches
  BY DEF IInv, Core
<1> QED BY <1>1, InvCorrect, PTL

(* No promise is settled twice.                                            *)
THEOREM SettledOnceTheorem == Spec => SettledOnce
<1>1. IInv /\ [Next]_vars =>
        [\A t \in Tasks : outcome[t] \in Settlements => outcome'[t] = outcome[t]]_vars
  BY CoreNext DEF IInv
<1> QED BY <1>1, InvCorrect, PTL DEF SettledOnce, Spec

(* Until a worker thread crashes, at most one query executes at a time.    *)
THEOREM OneQueryTheorem == Spec => []OneQueryUnlessCrash
<1>1. IInv => OneQueryUnlessCrash
  <2> SUFFICES ASSUME IInv, crashes = 0, NEW q \in Executing, NEW r \in Executing
               PROVE  q = r
    BY DEF OneQueryUnlessCrash, OneQueryExecutes
  <2>1. /\ q \in Tasks \X (1 .. Len(thread)) /\ r \in Tasks \X (1 .. Len(thread))
        /\ thread[q[2]] = "live" /\ thread[r[2]] = "live"
    BY DEF IInv, TypeOK, Executing
  <2>2. q[1] \in pending /\ r[1] \in pending
    BY DEF IInv, OneThread, Executing
  <2>3. q[1] = r[1]
    BY <2>2 DEF IInv, Core, RunningMatches, TypeOK
  <2>4. q[2] = worker /\ r[2] = worker
    BY <2>1 DEF IInv, OneThread, TypeOK
  <2> QED BY <2>1, <2>3, <2>4
<1> QED BY <1>1, InvCorrect, PTL

-----------------------------------------------------------------------------
(* The caps.  A queue with its bytes is within them.                       *)
Within(queue, bytes) ==
  /\ IsFiniteSet(queue)
  /\ bytes = Weight(byteLength, queue)
  /\ bytes <= maxQueuedBytes
  /\ Cardinality(queue) <= maxQueuedTasks

(* An empty queue is within them.                                          *)
LEMMA WithinEmpty == Within({}, 0)
<1>1. Weight(byteLength, {}) = 0
  BY FS_EmptySet, WeightRule
<1>2. maxQueuedTasks \in Nat /\ maxQueuedBytes \in Nat
  BY SqlAssumption
<1> QED BY <1>1, <1>2, FS_EmptySet DEF Within

(* A query that leaves takes its bytes along.                              *)
LEMMA WithinWithout ==
  ASSUME NEW queue \in SUBSET Tasks, NEW bytes, Within(queue, bytes), NEW t \in queue
  PROVE  Within(queue \ {t}, bytes - byteLength[t])
<1>1. /\ IsFiniteSet(queue \ {t}) /\ Cardinality(queue) \in Nat
      /\ Cardinality(queue \ {t}) = Cardinality(queue) - 1
  BY FS_RemoveElement, FS_CardinalityType DEF Within
<1>2. Weight(byteLength, queue) = byteLength[t] + Weight(byteLength, queue \ {t})
  BY WeightWithout, SqlAssumption DEF Within
<1>3. Weight(byteLength, queue \ {t}) \in Nat
  BY <1>1, WeightType, SqlAssumption
<1>4. byteLength[t] \in Nat /\ maxQueuedTasks \in Nat /\ maxQueuedBytes \in Nat
  BY SqlAssumption
<1> QED BY <1>1, <1>2, <1>3, <1>4 DEF Within

(* A query that is let in where there is room for it stays within them.    *)
LEMMA WithinWith ==
  ASSUME TypeOK, Within(queued, queuedBytes), NEW t \in Tasks \ queued, ~Overloaded(t)
  PROVE  Within(queued \cup {t}, queuedBytes + byteLength[t])
<1>0. IsFiniteSet(queued) /\ queued \in SUBSET Tasks
  BY DEF Within, TypeOK
<1>1. /\ IsFiniteSet(queued \cup {t}) /\ Cardinality(queued) \in Nat
      /\ Cardinality(queued \cup {t}) = Cardinality(queued) + 1
  BY <1>0, FS_AddElement, FS_CardinalityType
<1>2. Weight(byteLength, queued \cup {t}) = Weight(byteLength, queued) + byteLength[t]
  BY <1>0, WeightWith, SqlAssumption
<1>3. Weight(byteLength, queued) \in Nat
  BY <1>0, WeightType, SqlAssumption
<1>4. byteLength[t] \in Nat /\ maxQueuedTasks \in Nat /\ maxQueuedBytes \in Nat
  BY SqlAssumption
<1> QED BY <1>1, <1>2, <1>3, <1>4 DEF Within, Overloaded

(* drain() takes one query out, or none.                                   *)
LEMMA DrainWithin ==
  ASSUME NEW queue \in SUBSET Tasks, NEW bytes, NEW ids, NEW outcomes,
         Within(queue, bytes), Drain(queue, bytes, ids, outcomes)
  PROVE  Within(queued, queuedBytes)'
<1>1. CASE queued' = queue /\ queuedBytes' = bytes
  BY <1>1 DEF Within
<1>2. ASSUME NEW t \in queue, queued' = queue \ {t}, queuedBytes' = bytes - byteLength[t]
      PROVE  Within(queued, queuedBytes)'
  <2>1. Within(queue \ {t}, bytes - byteLength[t])
    BY WithinWithout
  <2> QED BY <1>2, <2>1 DEF Within
<1> QED BY <1>1, <1>2 DEF Drain

(* Every turn of the event loop keeps the queue within its caps.           *)
LEMMA WithinNext ==
  ASSUME TypeOK, Core, Within(queued, queuedBytes), [Next]_vars
  PROVE  Within(queued, queuedBytes)'
<1>1. CASE UNCHANGED <<queued, queuedBytes>>
  BY <1>1 DEF Within
<1>2. ASSUME NEW t \in Tasks, Enqueue(t) PROVE Within(queued, queuedBytes)'
  <2>1. t \in Tasks \ queued /\ ~Overloaded(t)
    BY <1>2 DEF Enqueue, Core, WaitingMatches
  <2>2. Within(queued \cup {t}, queuedBytes + byteLength[t])
    BY <2>1, WithinWith
  <2>3. CASE running
    BY <1>2, <2>2, <2>3 DEF Enqueue, Within
  <2>4. CASE ~running
    <3>1. Drain(queued \cup {t}, queuedBytes + byteLength[t], id',
                [outcome EXCEPT ![t] = "waiting"])
      BY <1>2, <2>4 DEF Enqueue
    <3>2. queued \cup {t} \in SUBSET Tasks
      BY DEF TypeOK
    <3> QED BY <2>2, <3>1, <3>2, DrainWithin
  <2> QED BY <2>3, <2>4
<1>3. CASE Finish
  <2>1. queued \in SUBSET Tasks
    BY DEF TypeOK
  <2>2. CASE Drain(queued, queuedBytes, id, outcome)
    BY <2>1, <2>2, DrainWithin
  <2> QED BY <1>1, <1>3, <2>2 DEF Finish
<1>4. ASSUME NEW t \in queued, NEW how, LeaveQueue(t, how)
      PROVE  Within(queued, queuedBytes)'
  <2>1. Within(queued \ {t}, queuedBytes - byteLength[t])
    BY WithinWithout DEF TypeOK
  <2> QED BY <1>4, <2>1 DEF LeaveQueue, Within
<1>5. ASSUME NEW t \in Tasks, Expire(t) PROVE Within(queued, queuedBytes)'
  BY <1>4, <1>5 DEF Expire
<1>6. ASSUME NEW t \in Tasks, Abort(t) PROVE Within(queued, queuedBytes)'
  BY <1>1, <1>4, <1>6 DEF Abort
<1>7. CASE Destroy
  BY <1>7, WithinEmpty DEF Destroy, Within
<1>8. ASSUME NEW t \in Tasks, Refuse(t) \/ DeadlinePasses(t)
      PROVE  Within(queued, queuedBytes)'
  BY <1>1, <1>8 DEF Refuse, DeadlinePasses, queueVars
<1>9. ASSUME NEW r \in requests, Message(r[1], r[2]) PROVE Within(queued, queuedBytes)'
  BY <1>1, <1>9 DEF Message, queueVars
<1>10. ASSUME NEW w \in DOMAIN thread, Crash(w) \/ WorkerError(w) \/ WorkerExit(w)
       PROVE  Within(queued, queuedBytes)'
  BY <1>1, <1>10 DEF Crash, WorkerError, WorkerExit, queueVars
<1>11. CASE UNCHANGED vars
  BY <1>1, <1>11 DEF vars, queueVars
<1> HIDE DEF Within
<1> QED BY <1>2, <1>3, <1>5, <1>6, <1>7, <1>8, <1>9, <1>10, <1>11 DEF Next

(* queuedBytes adds up to the bodies in the queue, and both caps hold.     *)
THEOREM QueueBoundedTheorem == Spec => []QueueBounded
<1>1. Init => Within(queued, queuedBytes)
  BY WithinEmpty DEF Init
<1>2. IInv /\ Within(queued, queuedBytes) /\ [Next]_vars => Within(queued, queuedBytes)'
  BY WithinNext DEF IInv
<1>3. Within(queued, queuedBytes) => QueueBounded
  BY DEF Within, Weight, QueueBounded
<1> QED BY <1>1, <1>2, <1>3, InvCorrect, PTL DEF Spec

-----------------------------------------------------------------------------
(* The requests.  A query is sent once, and the one that is pending has    *)
(* been sent to the current thread.                                        *)
RequestsMatch ==
  /\ \A q, r \in requests : q[1] = r[1] => q = r
  /\ \A r \in requests : outcome[r[1]] # "none" /\ r[1] \notin queued
  /\ \A t \in pending : worker # 0 /\ <<t, worker>> \in requests

(* A thread executes one query, and the current one only what is pending.  *)
Alone ==
  /\ \A q, r \in Executing : q[2] = r[2] => q = r
  /\ \A r \in Executing : r[2] = worker => r[1] \in pending

(* A query taken from the queue has no request yet, and its thread, which  *)
(* has nothing pending, executes nothing else.                             *)
LEMMA PostRequests ==
  ASSUME TypeOK, Alone, pending = {}, UNCHANGED aborted,
         \A q, r \in requests : q[1] = r[1] => q = r,
         NEW queue \in SUBSET Tasks, NEW t \in queue, NEW outcomes,
         \A r \in requests : outcomes[r[1]] # "none" /\ r[1] \notin queue,
         outcomes[t] # "none",
         PostToWorker(t), queued' = queue \ {t}, outcome' = outcomes
  PROVE  RequestsMatch' /\ Alone'
<1>1. pending' = {t} /\ requests' = requests \cup {<<t, worker'>>}
  BY DEF PostToWorker
<1>2. \A r \in requests : r[1] \in Tasks /\ r[2] \in 1 .. Len(thread) /\ r[1] # t
  BY DEF TypeOK
<1>3. /\ worker' # 0
      /\ \A w \in 1 .. Len(thread) : thread'[w] = thread[w]
      /\ \A r \in Executing : r[2] # worker'
  <2>1. CASE worker = 0
    <3>1. thread' = Append(thread, "live") /\ worker' = Len(thread) + 1
      BY <2>1 DEF PostToWorker
    <3>2. Len(thread) \in Nat /\ \A w \in 1 .. Len(thread) : thread'[w] = thread[w]
      BY <3>1 DEF TypeOK, ThreadStates
    <3> QED BY <1>2, <3>1, <3>2 DEF Executing
  <2>2. CASE worker # 0
    <3>1. thread' = thread /\ worker' = worker
      BY <2>2 DEF PostToWorker
    <3> QED BY <2>2, <3>1 DEF Alone
  <2> QED BY <2>1, <2>2
<1>4. RequestsMatch'
  BY <1>1, <1>2, <1>3 DEF RequestsMatch
<1>5. Executing' \subseteq Executing \cup {<<t, worker'>>}
  BY <1>1, <1>2, <1>3 DEF Executing
<1>6. Alone'
  BY <1>1, <1>3, <1>5 DEF Alone
<1> QED BY <1>4, <1>6

LEMMA RequestsNext ==
  ASSUME TypeOK, Core, RequestsMatch, Alone, [Next]_vars
  PROVE  RequestsMatch' /\ Alone'
<1> DEFINE Known == \A u \in Tasks :
             outcome[u] # "none" => outcome'[u] # "none" /\ (u \notin queued => u \notin queued')
<1>0. \A r \in requests : r[1] \in Tasks /\ r[2] \in 1 .. Len(thread) /\ r = <<r[1], r[2]>>
  BY DEF TypeOK
<1>1. ASSUME Known, requests' \subseteq requests,
             \A u \in pending' : u \in pending /\ worker' = worker /\ <<u, worker>> \in requests'
      PROVE  RequestsMatch'
  BY <1>0, <1>1 DEF RequestsMatch
<1>2. ASSUME Executing' \subseteq Executing,
             \A r \in Executing' : r[2] = worker' => r[1] \in pending'
      PROVE  Alone'
  BY <1>2 DEF Alone
<1>3. ASSUME Known, UNCHANGED <<pending, aborted, workerVars>>
      PROVE  RequestsMatch' /\ Alone'
  <2>1. UNCHANGED <<pending, aborted, worker, thread, requests>>
    BY <1>3 DEF workerVars
  <2>2. RequestsMatch'
    BY <1>1, <1>3, <2>1 DEF RequestsMatch
  <2> QED BY <1>2, <2>1, <2>2 DEF Executing, Alone
<1>4. ASSUME NEW ts \in SUBSET Tasks, NEW how \in Settlements, Settle(ts, how),
             queued' \subseteq queued
      PROVE  Known
  BY <1>4 DEF Settle, Settlements
<1>5. CASE UNCHANGED vars
  BY <1>3, <1>5 DEF vars, queueVars
<1>6. ASSUME NEW t \in Tasks, Refuse(t) PROVE RequestsMatch' /\ Alone'
  <2>1. Known
    BY <1>4, <1>6 DEF Refuse, Settlements, queueVars
  <2> QED BY <1>3, <1>6, <2>1 DEF Refuse
<1>7. ASSUME NEW queue \in SUBSET Tasks, NEW bytes, NEW ids, NEW outcomes \in Outs,
             Drain(queue, bytes, ids, outcomes), pending = {}, UNCHANGED aborted,
             \A u \in Tasks :
               outcome[u] # "none" => outcomes[u] # "none" /\ (u \notin queued => u \notin queue),
             \A u \in queue : outcomes[u] # "none"
      PROVE  RequestsMatch' /\ Alone'
  <2>1. CASE queued' = queue /\ outcome' = outcomes /\ UNCHANGED <<pending, workerVars>>
    BY <1>3, <1>7, <2>1
  <2>2. ASSUME NEW t \in queue, queued' = queue \ {t}, RunExpired(t, outcomes)
        PROVE  RequestsMatch' /\ Alone'
    <3>1. Known
      BY <1>7, <2>2 DEF RunExpired, Outs
    <3> QED BY <1>3, <1>7, <2>2, <3>1 DEF RunExpired
  <2>3. ASSUME NEW t \in queue, queued' = queue \ {t}, PostToWorker(t), outcome' = outcomes
        PROVE  RequestsMatch' /\ Alone'
    <3>1. \A r \in requests : outcomes[r[1]] # "none" /\ r[1] \notin queue
      BY <1>0, <1>7 DEF RequestsMatch
    <3>2. \A q, r \in requests : q[1] = r[1] => q = r
      BY DEF RequestsMatch
    <3> QED BY <1>7, <2>3, <3>1, <3>2, PostRequests
  <2> QED BY <1>7, <2>1, <2>2, <2>3 DEF Drain
<1>8. ASSUME NEW t \in Tasks, Enqueue(t) PROVE RequestsMatch' /\ Alone'
  <2> DEFINE queue == queued \cup {t}
             outcomes == [outcome EXCEPT ![t] = "waiting"]
  <2>1. outcomes \in Outs /\ queue \in SUBSET Tasks
    BY DEF TypeOK, Outs
  <2>2. \A u \in Tasks :
          outcome[u] # "none" => outcomes[u] # "none" /\ (u \notin queued => u \notin queue)
    BY <1>8 DEF Enqueue, TypeOK
  <2>3. \A u \in queue : outcomes[u] # "none"
    BY DEF Core, WaitingMatches, TypeOK
  <2>4. CASE running
    <3>1. queued' = queue /\ outcome' = outcomes /\ UNCHANGED <<pending, aborted, workerVars>>
      BY <1>8, <2>4 DEF Enqueue
    <3> HIDE DEF queue, outcomes
    <3> QED BY <1>3, <2>2, <3>1
  <2>5. CASE ~running
    <3>1. Drain(queue, queuedBytes + byteLength[t], id', outcomes) /\ UNCHANGED aborted
      BY <1>8, <2>5 DEF Enqueue
    <3>2. pending = {}
      BY <2>5 DEF Core, RunningMatches
    <3> HIDE DEF queue, outcomes
    <3> QED BY <1>7, <2>1, <2>2, <2>3, <3>1, <3>2
  <2> QED BY <2>4, <2>5
<1>9. CASE Finish
  <2>1. CASE destroyed
    BY <1>3, <1>9, <2>1 DEF Finish
  <2>2. CASE ~destroyed
    <3>1. Drain(queued, queuedBytes, id, outcome) /\ UNCHANGED aborted
      BY <1>9, <2>2 DEF Finish
    <3>2. outcome \in Outs /\ queued \in SUBSET Tasks
      BY DEF TypeOK, Outs
    <3>3. pending = {} /\ \A u \in queued : outcome[u] # "none"
      BY <1>9 DEF Finish, Core, RunningMatches, WaitingMatches, TypeOK
    <3> QED BY <1>7, <3>1, <3>2, <3>3
  <2> QED BY <2>1, <2>2
<1>10. ASSUME NEW t \in Tasks, DeadlinePasses(t) PROVE RequestsMatch' /\ Alone'
  BY <1>3, <1>10 DEF DeadlinePasses, queueVars
<1>11. ASSUME NEW t \in Tasks, Expire(t) PROVE RequestsMatch' /\ Alone'
  <2>1. Known
    BY <1>4, <1>11 DEF Expire, LeaveQueue, Settlements
  <2> QED BY <1>3, <1>11, <2>1 DEF Expire, LeaveQueue
<1>12. ASSUME NEW t \in Tasks, Abort(t) PROVE RequestsMatch' /\ Alone'
  <2>1. Known
    <3>1. CASE t \in queued /\ LeaveQueue(t, "cancelled")
      BY <1>4, <3>1 DEF LeaveQueue, Settlements
    <3>2. CASE Settle({t}, "cancelled") /\ UNCHANGED queued
      BY <1>4, <3>2 DEF Settlements
    <3> QED BY <1>12, <3>1, <3>2 DEF Abort
  <2>2. /\ pending' \subseteq pending /\ pending \subseteq pending' \cup {t}
        /\ aborted' = aborted \cup {t} /\ UNCHANGED <<worker, thread, requests>>
    BY <1>12 DEF Abort, LeaveQueue, workerVars
  <2>3. RequestsMatch'
    BY <1>1, <2>1, <2>2 DEF RequestsMatch
  <2>4. Executing' \subseteq Executing /\ \A r \in Executing' : r[1] # t
    BY <2>2 DEF Executing
  <2> QED BY <1>2, <2>2, <2>3, <2>4 DEF Alone
<1>13. ASSUME NEW r \in requests, Message(r[1], r[2]) PROVE RequestsMatch' /\ Alone'
  <2>1. requests' = requests \ {r} /\ UNCHANGED <<queued, worker, thread, aborted>>
    BY <1>0, <1>13 DEF Message, queueVars
  <2>2. Known /\ pending' = pending \ {r[1]}
    BY <1>0, <1>4, <1>13, <2>1 DEF Message, Settlements
  <2>3. RequestsMatch'
    BY <1>1, <2>1, <2>2 DEF RequestsMatch
  <2>4. Executing' \subseteq Executing /\ \A q \in Executing' : q[1] # r[1]
    BY <2>1 DEF Executing, RequestsMatch
  <2> QED BY <1>2, <2>1, <2>2, <2>3, <2>4 DEF Alone
<1>14. ASSUME NEW w \in DOMAIN thread, Crash(w) PROVE RequestsMatch' /\ Alone'
  <2>1. /\ thread' = [thread EXCEPT ![w] = "failing"]
        /\ UNCHANGED <<queued, pending, outcome, worker, requests, aborted>>
    BY <1>14 DEF Crash, queueVars
  <2>2. RequestsMatch'
    BY <2>1 DEF RequestsMatch
  <2>3. Executing' \subseteq Executing
    BY <1>0, <2>1 DEF Executing, TypeOK
  <2> QED BY <1>2, <2>1, <2>2, <2>3 DEF Alone
<1>15. ASSUME requests' \subseteq requests, Known, pending' = {}, worker' = 0, UNCHANGED aborted,
              \A x \in 1 .. Len(thread) : thread'[x] = "live" => thread[x] = "live"
       PROVE  RequestsMatch' /\ Alone'
  <2>1. RequestsMatch'
    BY <1>1, <1>15
  <2>2. Executing' \subseteq Executing /\ \A r \in Executing' : r[2] # worker'
    BY <1>0, <1>15 DEF Executing
  <2> QED BY <1>2, <2>1, <2>2
<1>16. ASSUME NEW w \in DOMAIN thread, WorkerError(w) PROVE RequestsMatch' /\ Alone'
  <2>1. Known /\ pending' = {}
    BY <1>4, <1>16 DEF WorkerError, RejectPending, TypeOK, Settlements, queueVars
  <2>2. \A x \in 1 .. Len(thread) : thread'[x] = "live" => thread[x] = "live"
    BY <1>16 DEF WorkerError, TypeOK
  <2> QED BY <1>15, <1>16, <2>1, <2>2 DEF WorkerError
<1>17. ASSUME NEW w \in DOMAIN thread, WorkerExit(w) PROVE RequestsMatch' /\ Alone'
  <2>1. Known /\ pending' = {}
    <3>1. CASE destroyed
      BY <1>17, <3>1 DEF WorkerExit, Core, Disjoint, queueVars
    <3>2. CASE ~destroyed
      BY <1>4, <1>17, <3>2 DEF WorkerExit, RejectPending, TypeOK, Settlements, queueVars
    <3> QED BY <3>1, <3>2
  <2>2. \A x \in 1 .. Len(thread) : thread'[x] = "live" => thread[x] = "live"
    BY <1>17 DEF WorkerExit, TypeOK
  <2> QED BY <1>15, <1>17, <2>1, <2>2 DEF WorkerExit
<1>18. CASE Destroy
  <2>1. Known /\ pending' = {}
    BY <1>4, <1>18 DEF Destroy, TypeOK, Settlements
  <2>2. \A x \in 1 .. Len(thread) : thread'[x] = "live" => thread[x] = "live"
    BY <1>18 DEF Destroy, TypeOK
  <2> QED BY <1>15, <1>18, <2>1, <2>2 DEF Destroy
<1> HIDE DEF Known
<1> QED BY <1>5, <1>6, <1>8, <1>9, <1>10, <1>11, <1>12, <1>13, <1>14, <1>16, <1>17, <1>18
  DEF Next

LEMMA RequestsInit == Init => RequestsMatch /\ Alone
BY DEF Init, RequestsMatch, Alone, Executing

-----------------------------------------------------------------------------
(* The price of a crash.  A dead thread has up to two events to come, and  *)
(* each of them can make the backend forget a live successor: a thread     *)
(* that will raise 'error' and then 'exit' owes two, unless it is the      *)
(* current one and the first of them is its own.  A forgotten thread is    *)
(* live or owes something itself.                                          *)
Orphans == {w \in DOMAIN thread : thread[w] = "live" /\ w # worker}

Owed == {w \in DOMAIN thread :
           thread[w] # "gone" /\ ~(thread[w] = "live" /\ w = worker)}

Twice == {w \in DOMAIN thread : thread[w] = "failing" /\ w # worker}

CrashDebt ==
  IF destroyed THEN Cardinality(Orphans) <= crashes
               ELSE Cardinality(Owed) + Cardinality(Twice) <= crashes

(* A set of threads is finite.                                             *)
LEMMA ThreadsFinite ==
  ASSUME NEW threads \in Seq(ThreadStates), NEW W \in SUBSET (DOMAIN threads)
  PROVE  IsFiniteSet(W) /\ Cardinality(W) \in Nat
<1>1. Len(threads) \in Nat /\ DOMAIN threads = 1 .. Len(threads)
  OBVIOUS
<1>2. IsFiniteSet(DOMAIN threads)
  BY <1>1, FS_Interval
<1> QED BY <1>2, FS_Subset, FS_CardinalityType

LEMMA SetsFinite ==
  ASSUME TypeOK
  PROVE  /\ IsFiniteSet(Orphans) /\ Cardinality(Orphans) \in Nat
         /\ IsFiniteSet(Owed) /\ Cardinality(Owed) \in Nat
         /\ IsFiniteSet(Twice) /\ Cardinality(Twice) \in Nat
         /\ crashes \in Nat
<1>1. /\ Orphans \in SUBSET (DOMAIN thread) /\ Owed \in SUBSET (DOMAIN thread)
      /\ Twice \in SUBSET (DOMAIN thread)
  BY DEF Orphans, Owed, Twice
<1>2. thread \in Seq(ThreadStates) /\ crashes \in Nat
  BY DEF TypeOK
<1> QED BY <1>1, <1>2, ThreadsFinite

(* A crash adds one to the debt, and an event of a dead thread takes away  *)
(* what it then adds for the current thread that it makes forgotten.       *)
LEMMA DebtNext ==
  ASSUME TypeOK, TypeOK', Core, OneThread, CrashDebt, [Next]_vars
  PROVE  CrashDebt'
<1>1. /\ IsFiniteSet(Orphans) /\ Cardinality(Orphans) \in Nat
      /\ IsFiniteSet(Owed) /\ Cardinality(Owed) \in Nat
      /\ IsFiniteSet(Twice) /\ Cardinality(Twice) \in Nat
      /\ crashes \in Nat
  BY SetsFinite
<1>2. /\ Cardinality(Orphans') \in Nat /\ Cardinality(Owed') \in Nat
      /\ Cardinality(Twice') \in Nat /\ crashes' \in Nat
  <2>1. /\ Orphans' \in SUBSET (DOMAIN thread') /\ Owed' \in SUBSET (DOMAIN thread')
        /\ Twice' \in SUBSET (DOMAIN thread')
    BY DEF Orphans, Owed, Twice
  <2>2. thread' \in Seq(ThreadStates) /\ crashes' \in Nat
    BY DEF TypeOK
  <2> QED BY <2>1, <2>2, ThreadsFinite
<1>3. DOMAIN thread = 1 .. Len(thread) /\ Len(thread) \in Nat
  BY DEF TypeOK
<1>4. CASE UNCHANGED <<thread, worker, crashes, destroyed>>
  BY <1>4 DEF CrashDebt, Orphans, Owed, Twice
<1>5. ASSUME NEW t \in Tasks, PostToWorker(t), ~destroyed, UNCHANGED <<crashes, destroyed>>
      PROVE  CrashDebt'
  <2>1. CASE worker = 0
    <3>1. thread' = Append(thread, "live") /\ worker' = Len(thread) + 1
      BY <1>5, <2>1 DEF PostToWorker
    <3>2. /\ DOMAIN thread' = 1 .. (Len(thread) + 1)
          /\ thread'[Len(thread) + 1] = "live"
          /\ \A w \in 1 .. Len(thread) : thread'[w] = thread[w]
      BY <3>1 DEF TypeOK, ThreadStates
    <3>3. \A w \in DOMAIN thread' : w \in DOMAIN thread \/ w = worker'
      BY <1>3, <3>1, <3>2
    <3>4. \A w \in DOMAIN thread : w # worker' /\ w # worker /\ w \in DOMAIN thread'
      BY <1>3, <2>1, <3>1, <3>2
    <3>5. Owed' = Owed /\ Twice' = Twice
      BY <1>3, <3>1, <3>2, <3>3, <3>4 DEF Owed, Twice
    <3> QED BY <1>5, <3>5 DEF CrashDebt
  <2>2. CASE worker # 0
    BY <1>4, <1>5, <2>2 DEF PostToWorker
  <2> QED BY <2>1, <2>2
<1>6. ASSUME NEW queue \in SUBSET Tasks, NEW bytes, NEW ids, NEW outcomes,
             Drain(queue, bytes, ids, outcomes), ~destroyed, UNCHANGED <<crashes, destroyed>>
      PROVE  CrashDebt'
  BY <1>4, <1>5, <1>6 DEF Drain, RunExpired, workerVars
<1>7. ASSUME NEW t \in Tasks, Enqueue(t) PROVE CrashDebt'
  <2>1. CASE running
    BY <1>4, <1>7, <2>1 DEF Enqueue, workerVars
  <2>2. CASE ~running
    <3>1. Drain(queued \cup {t}, queuedBytes + byteLength[t], id',
                [outcome EXCEPT ![t] = "waiting"])
          /\ ~destroyed /\ UNCHANGED <<crashes, destroyed>>
      BY <1>7, <2>2 DEF Enqueue
    <3>2. queued \cup {t} \in SUBSET Tasks
      BY DEF TypeOK
    <3> QED BY <1>6, <3>1, <3>2
  <2> QED BY <2>1, <2>2
<1>8. CASE Finish
  <2>1. CASE destroyed
    BY <1>4, <1>8, <2>1 DEF Finish, workerVars
  <2>2. CASE ~destroyed
    <3>1. queued \in SUBSET Tasks
      BY DEF TypeOK
    <3> QED BY <1>6, <1>8, <2>2, <3>1 DEF Finish
  <2> QED BY <2>1, <2>2
<1>9. ASSUME NEW w \in DOMAIN thread, Crash(w) PROVE CrashDebt'
  <2>1. /\ thread[w] = "live" /\ thread' = [thread EXCEPT ![w] = "failing"]
        /\ crashes' = crashes + 1 /\ UNCHANGED <<worker, destroyed>>
    BY <1>9 DEF Crash
  <2>2. /\ DOMAIN thread' = DOMAIN thread /\ thread'[w] = "failing"
        /\ \A x \in DOMAIN thread : x # w => thread'[x] = thread[x]
    BY <2>1 DEF TypeOK
  <2>3. CASE destroyed
    <3>1. Orphans' \in SUBSET Orphans
      BY <2>1, <2>2 DEF Orphans
    <3>2. Cardinality(Orphans') <= Cardinality(Orphans)
      BY <1>1, <3>1, FS_Subset
    <3> QED BY <1>1, <1>2, <2>1, <2>3, <3>2 DEF CrashDebt
  <2>4. CASE ~destroyed /\ w = worker
    <3>1. Owed' \in SUBSET (Owed \cup {w}) /\ Twice' \in SUBSET Twice
      BY <2>1, <2>2, <2>4 DEF Owed, Twice
    <3>2. Cardinality(Owed') <= Cardinality(Owed) + 1 /\ Cardinality(Twice') <= Cardinality(Twice)
      BY <1>1, <3>1, AddedOne, FS_Subset
    <3> QED BY <1>1, <1>2, <2>1, <2>4, <3>2 DEF CrashDebt
  <2>5. CASE ~destroyed /\ w # worker
    <3>1. Owed' \in SUBSET Owed /\ Twice' \in SUBSET (Twice \cup {w})
      BY <2>1, <2>2, <2>5 DEF Owed, Twice
    <3>2. Cardinality(Owed') <= Cardinality(Owed) /\ Cardinality(Twice') <= Cardinality(Twice) + 1
      BY <1>1, <3>1, AddedOne, FS_Subset
    <3> QED BY <1>1, <1>2, <2>1, <2>5, <3>2 DEF CrashDebt
  <2> QED BY <2>3, <2>4, <2>5
<1>10. ASSUME NEW w \in DOMAIN thread, WorkerError(w) \/ WorkerExit(w), destroyed
       PROVE  CrashDebt'
  <2>1. worker' = 0 /\ worker = 0 /\ UNCHANGED <<crashes, destroyed>>
    BY <1>10 DEF WorkerError, WorkerExit, Core, Disjoint
  <2>2. /\ DOMAIN thread' = DOMAIN thread
        /\ \A x \in DOMAIN thread : thread'[x] = "live" => thread[x] = "live"
    BY <1>10 DEF WorkerError, WorkerExit, TypeOK
  <2>3. Orphans' \in SUBSET Orphans
    BY <2>1, <2>2 DEF Orphans
  <2>4. Cardinality(Orphans') <= Cardinality(Orphans)
    BY <1>1, <2>3, FS_Subset
  <2> QED BY <1>1, <1>2, <1>10, <2>1, <2>4 DEF CrashDebt
<1>11. ASSUME NEW w \in DOMAIN thread, WorkerError(w), ~destroyed PROVE CrashDebt'
  <2>1. /\ thread[w] = "failing" /\ thread' = [thread EXCEPT ![w] = "dying"]
        /\ worker' = 0 /\ UNCHANGED <<crashes, destroyed>>
    BY <1>11 DEF WorkerError
  <2>2. /\ DOMAIN thread' = DOMAIN thread /\ thread'[w] = "dying"
        /\ \A x \in DOMAIN thread : x # w => thread'[x] = thread[x]
    BY <2>1 DEF TypeOK
  <2>3. worker # 0 => thread[worker] \in {"live", "failing"}
    BY DEF OneThread
  <2>4. CASE w = worker
    <3>1. Owed' \in SUBSET Owed /\ Twice' \in SUBSET Twice
      BY <1>3, <2>1, <2>2, <2>4 DEF Owed, Twice
    <3>2. Cardinality(Owed') <= Cardinality(Owed) /\ Cardinality(Twice') <= Cardinality(Twice)
      BY <1>1, <3>1, FS_Subset
    <3> QED BY <1>1, <1>2, <1>11, <2>1, <3>2 DEF CrashDebt
  <2>5. CASE w # worker /\ worker # 0 /\ thread[worker] = "live"
    <3>1. Owed' \in SUBSET (Owed \cup {worker}) /\ w \in Twice /\ Twice' \in SUBSET (Twice \ {w})
      BY <1>3, <2>1, <2>2, <2>5 DEF Owed, Twice
    <3>2. /\ Cardinality(Owed') <= Cardinality(Owed) + 1
          /\ Cardinality(Twice') <= Cardinality(Twice) - 1
      BY <1>1, <3>1, AddedOne, LostOne
    <3> QED BY <1>1, <1>2, <1>11, <2>1, <3>2 DEF CrashDebt
  <2>6. CASE w # worker /\ (worker = 0 \/ thread[worker] = "failing")
    <3>1. Owed' \in SUBSET Owed /\ w \in Twice /\ Twice' \in SUBSET ((Twice \ {w}) \cup {worker})
      BY <1>3, <2>1, <2>2, <2>6 DEF Owed, Twice
    <3>2. Cardinality(Owed') <= Cardinality(Owed) /\ Cardinality(Twice') <= Cardinality(Twice)
      BY <1>1, <3>1, FS_Subset, SwappedOne
    <3> QED BY <1>1, <1>2, <1>11, <2>1, <3>2 DEF CrashDebt
  <2> QED BY <2>3, <2>4, <2>5, <2>6
<1>12. ASSUME NEW w \in DOMAIN thread, WorkerExit(w), ~destroyed PROVE CrashDebt'
  <2>1. /\ thread[w] \in {"failing", "dying"} /\ thread' = [thread EXCEPT ![w] = "gone"]
        /\ worker' = 0 /\ UNCHANGED <<crashes, destroyed>>
    BY <1>12 DEF WorkerExit
  <2>2. /\ DOMAIN thread' = DOMAIN thread /\ thread'[w] = "gone" /\ w \in Owed
        /\ \A x \in DOMAIN thread : x # w => thread'[x] = thread[x]
    BY <2>1 DEF TypeOK, Owed
  <2>3. worker # 0 => thread[worker] \in {"live", "failing"}
    BY DEF OneThread
  <2>4. CASE w # worker /\ worker # 0 /\ thread[worker] = "live"
    <3>1. Owed' \in SUBSET ((Owed \ {w}) \cup {worker}) /\ Twice' \in SUBSET Twice
      BY <1>3, <2>1, <2>2, <2>4 DEF Owed, Twice
    <3>2. Cardinality(Owed') <= Cardinality(Owed) /\ Cardinality(Twice') <= Cardinality(Twice)
      BY <1>1, <2>2, <3>1, FS_Subset, SwappedOne
    <3> QED BY <1>1, <1>2, <1>12, <2>1, <3>2 DEF CrashDebt
  <2>5. CASE w = worker \/ worker = 0 \/ thread[worker] = "failing"
    <3>1. Owed' \in SUBSET (Owed \ {w}) /\ Twice' \in SUBSET (Twice \cup {worker})
      BY <1>3, <2>1, <2>2, <2>3, <2>5 DEF Owed, Twice
    <3>2. /\ Cardinality(Owed') <= Cardinality(Owed) - 1
          /\ Cardinality(Twice') <= Cardinality(Twice) + 1
      BY <1>1, <2>2, <3>1, AddedOne, LostOne
    <3> QED BY <1>1, <1>2, <1>12, <2>1, <3>2 DEF CrashDebt
  <2> QED BY <2>3, <2>4, <2>5
<1>13. CASE Destroy
  <2>1. /\ ~destroyed /\ destroyed' /\ worker' = 0 /\ UNCHANGED crashes
        /\ thread' = [w \in DOMAIN thread |->
             IF w = worker /\ thread[w] = "live" THEN "dying" ELSE thread[w]]
    BY <1>13 DEF Destroy
  <2>2. Orphans' \in SUBSET Owed
    BY <2>1 DEF Orphans, Owed
  <2>3. Cardinality(Orphans') <= Cardinality(Owed)
    BY <1>1, <2>2, FS_Subset
  <2> QED BY <1>1, <1>2, <2>1, <2>3 DEF CrashDebt
<1>14. ASSUME NEW t \in Tasks, Refuse(t) \/ DeadlinePasses(t) \/ Expire(t) \/ Abort(t)
       PROVE  CrashDebt'
  BY <1>4, <1>14 DEF Refuse, DeadlinePasses, Expire, Abort, workerVars
<1>15. ASSUME NEW r \in requests, Message(r[1], r[2]) PROVE CrashDebt'
  BY <1>4, <1>15 DEF Message
<1>16. CASE UNCHANGED vars
  BY <1>4, <1>16 DEF vars, workerVars
<1> QED BY <1>7, <1>8, <1>9, <1>10, <1>11, <1>12, <1>13, <1>14, <1>15, <1>16 DEF Next

(* The debt and the requests are right in every reachable state.           *)
LEMMA DebtCorrect == Spec => [](CrashDebt /\ RequestsMatch /\ Alone)
<1>1. Init => CrashDebt
  <2> SUFFICES ASSUME Init PROVE CrashDebt
    OBVIOUS
  <2>1. Owed = {} /\ Twice = {} /\ crashes = 0 /\ ~destroyed
    BY DEF Init, Owed, Twice
  <2> QED BY <2>1, FS_EmptySet DEF CrashDebt
<1>2. IInv /\ IInv' /\ CrashDebt /\ RequestsMatch /\ Alone /\ [Next]_vars
        => (CrashDebt /\ RequestsMatch /\ Alone)'
  BY DebtNext, RequestsNext DEF IInv
<1> QED BY <1>1, <1>2, RequestsInit, InvCorrect, PTL DEF Spec

(* A thread that is left over behind the back of destroy() has cost a      *)
(* crash, and no crash leaves two.                                         *)
THEOREM OrphansBoundedTheorem == Spec => []OrphansBounded
<1>1. TypeOK /\ CrashDebt => OrphansBounded
  <2> SUFFICES ASSUME TypeOK, CrashDebt PROVE Cardinality(Orphans) <= crashes
    BY DEF OrphansBounded, Orphans
  <2>1. Cardinality(Orphans) <= Cardinality(Owed)
    <3>1. Orphans \in SUBSET Owed
      BY DEF Orphans, Owed
    <3> QED BY <3>1, SetsFinite, FS_Subset
  <2> QED BY <2>1, SetsFinite DEF CrashDebt
<1> QED BY <1>1, DebtCorrect, TypeCorrect, PTL

(* No more than one query for each crash executes beside the one that is   *)
(* meant to: a live thread executes one, and all but one are left over.    *)
THEOREM OverlapBoundedTheorem == Spec => []OverlapBounded
<1>1. TypeOK /\ OrphansBounded /\ Alone => OverlapBounded
  <2> SUFFICES ASSUME TypeOK, OrphansBounded, Alone
               PROVE  Cardinality(Executing) <= crashes + 1
    BY DEF OverlapBounded
  <2> DEFINE Live == {w \in DOMAIN thread : thread[w] = "live"}
             f == [r \in Executing |-> r[2]]
  <2>1. /\ IsFiniteSet(Orphans) /\ Cardinality(Orphans) <= crashes
        /\ Cardinality(Orphans) \in Nat /\ crashes \in Nat
    BY SetsFinite DEF OrphansBounded, Orphans
  <2>2. /\ IsFiniteSet(Live) /\ Cardinality(Live) \in Nat
        /\ Cardinality(Live) <= Cardinality(Orphans) + 1
    <3>1. Live \in SUBSET (Orphans \cup {worker})
      BY DEF Orphans
    <3> HIDE DEF Live
    <3> QED BY <2>1, <3>1, AddedOne
  <2>3. f \in Injection(Executing, Live)
    <3>1. \A r \in Executing : r[2] \in Live
      BY DEF Executing, TypeOK
    <3>2. f \in [Executing -> Live]
      BY <3>1
    <3> QED BY <3>2 DEF Injection, IsInjective, Alone
  <2>4. IsFiniteSet(Executing) /\ Cardinality(Executing) <= Cardinality(Live)
    <3> HIDE DEF f, Live
    <3> QED BY <2>2, <2>3, FS_Injection
  <2>5. Cardinality(Executing) \in Nat
    BY <2>4, FS_CardinalityType
  <2> HIDE DEF Live
  <2> QED BY <2>1, <2>2, <2>4, <2>5
<1> QED BY <1>1, TypeCorrect, OrphansBoundedTheorem, DebtCorrect, PTL

(* While a promise waits, a finally() is due or the current thread owes an *)
(* answer.                                                                 *)
THEOREM NobodyWaitsInVainTheorem == Spec => []NobodyWaitsInVain
<1>1. IInv /\ RequestsMatch => NobodyWaitsInVain
  <2> SUFFICES ASSUME IInv, RequestsMatch, NEW t \in Tasks, outcome[t] = "waiting",
                      settled = NoTask
               PROVE  \E u \in pending : /\ worker # 0 /\ thread[worker] \in {"live", "failing"}
                                        /\ <<u, worker>> \in requests
    BY DEF NobodyWaitsInVain
  <2>1. pending # {}
    BY DEF IInv, Core, WaitingMatches, NoIdleQueue, RunningMatches, Disjoint
  <2> QED BY <2>1 DEF RequestsMatch, IInv, OneThread
<1> QED BY <1>1, DebtCorrect, InvCorrect, PTL
=============================================================================
