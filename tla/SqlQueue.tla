------------------------------ MODULE SqlQueue ------------------------------
(***************************************************************************)
(* TraceProcessorSqlWorker of                                              *)
(* src/backend/src/services/traceProcessorSqlWorker.ts: the queue of SQL   *)
(* queries in front of one trace processor, with three priorities, caps    *)
(* on its length and bytes, deadlines and cancellation, and the worker     *)
(* thread that sends one query after the other to the processor.           *)
(*                                                                         *)
(* The backend is one thread: an action is one turn of its event loop, or  *)
(* what a caller does in a microtask.  While a query that has just been    *)
(* settled waits for its finally() (settled # NoTask), only microtasks     *)
(* run: callers, but no timer and no event of a worker.                    *)
(*                                                                         *)
(* Abstractions.  The queue of a priority is in the order of the ids, so   *)
(* the queues are a set.  Every query has an AbortSignal of its own.       *)
(* Timers and abort listeners follow the query from the queue to the       *)
(* request and are not kept apart.  What a worker thread does with a       *)
(* request is its answer; a cancel message makes it come sooner.           *)
(***************************************************************************)
EXTENDS Integers, Sequences, FiniteSetsExt

CONSTANTS
  Tasks,       \* queries
  NoTask,
  priority,    \* 0, 1 or 2 for p0, p1, p2
  byteLength,  \* size of the body of a query
  maxQueuedTasks,
  maxQueuedBytes,
  MaxCrashes   \* bound on crashes of worker threads

ASSUME SqlAssumption ==
  /\ NoTask \notin Tasks
  /\ priority \in [Tasks -> 0..2]
  /\ byteLength \in [Tasks -> Nat]
  /\ maxQueuedTasks \in Nat \ {0}
  /\ maxQueuedBytes \in Nat \ {0}
  /\ MaxCrashes \in Nat

VARIABLES
  queued,       \* queries in the queues
  id,           \* id of a query, 0 before it is given one
  nextTaskId,
  queuedBytes,
  running,      \* whether a query has been taken and not yet finished
  settled,      \* the query that is settled and has not run its finally()
  pending,      \* queries in pendingWorkerRequests
  overdue,      \* queries whose deadline has passed
  aborted,      \* queries whose signal has fired
  outcome,      \* how the promise of a query was settled
  destroyed,
  worker,       \* the current worker thread, 0 if there is none
  thread,       \* the state of every worker thread made so far
  requests,     \* <<query, thread>>: requests with an answer to come
  crashes

queueVars == <<queued, id, nextTaskId, queuedBytes>>
workerVars == <<worker, thread, requests>>
vars == <<queueVars, running, settled, pending, overdue, aborted, outcome,
          destroyed, workerVars, crashes>>

Settlements == {"ok", "failed", "cancelled", "expired", "refused", "destroyed"}

(* A failing thread will raise 'error' and a dying one 'exit'.             *)
ThreadStates == {"live", "failing", "dying", "gone"}

TypeOK ==
  /\ queued \subseteq Tasks
  /\ nextTaskId \in Nat \ {0}
  /\ id \in [Tasks -> 0 .. nextTaskId - 1]
  /\ queuedBytes \in Int
  /\ running \in BOOLEAN
  /\ settled \in Tasks \cup {NoTask}
  /\ pending \subseteq Tasks
  /\ overdue \subseteq Tasks
  /\ aborted \subseteq Tasks
  /\ outcome \in [Tasks -> Settlements \cup {"none", "waiting"}]
  /\ destroyed \in BOOLEAN
  /\ worker \in 0 .. Len(thread)
  /\ thread \in Seq(ThreadStates)
  /\ requests \subseteq Tasks \X (1 .. Len(thread))
  /\ crashes \in 0..MaxCrashes

Init ==
  /\ queued = {} /\ queuedBytes = 0
  /\ id = [t \in Tasks |-> 0] /\ nextTaskId = 1
  /\ running = FALSE /\ settled = NoTask
  /\ pending = {} /\ overdue = {} /\ aborted = {}
  /\ outcome = [t \in Tasks |-> "none"]
  /\ destroyed = FALSE
  /\ worker = 0 /\ thread = << >> /\ requests = {}
  /\ crashes = 0

-----------------------------------------------------------------------------
(* An event of a timer or a worker waits until the microtasks are done.    *)
TurnBegins == settled = NoTask

Settle(ts, how) ==
  outcome' = [t \in Tasks |-> IF t \in ts THEN how ELSE outcome[t]]

(* The query that nextTask() finds: the best priority, then the oldest.    *)
IsNext(t, queue, ids) ==
  \A u \in queue :
    \/ priority[t] < priority[u]
    \/ priority[t] = priority[u] /\ ids[t] <= ids[u]

(* The request of t goes to the current worker, made here if there is none.*)
PostToWorker(t) ==
  /\ pending' = pending \cup {t}
  /\ IF worker = 0
     THEN /\ thread' = Append(thread, "live")
          /\ worker' = Len(thread) + 1
     ELSE UNCHANGED <<thread, worker>>
  /\ requests' = requests \cup {<<t, worker'>>}

RunExpired(t, outcomes) ==
  /\ outcome' = [outcomes EXCEPT ![t] = "expired"]
  /\ settled' = t
  /\ UNCHANGED <<pending, workerVars>>

(* drain() of an idle queue: the next query is taken and runs up to its    *)
(* first await.  It is too late for it if its deadline has passed.         *)
Drain(queue, bytes, ids, outcomes) ==
  \/ /\ queue = {}
     /\ queued' = queue /\ queuedBytes' = bytes
     /\ running' = FALSE /\ settled' = NoTask
     /\ outcome' = outcomes
     /\ UNCHANGED <<pending, workerVars>>
  \/ \E t \in queue :
       /\ IsNext(t, queue, ids)
       /\ queued' = queue \ {t} /\ queuedBytes' = bytes - byteLength[t]
       /\ running' = TRUE
       /\ IF t \in overdue
          THEN RunExpired(t, outcomes)
          ELSE PostToWorker(t) /\ settled' = NoTask /\ outcome' = outcomes

RejectPendingForgets(how) ==
  pending' = {} /\ UNCHANGED <<outcome, settled>>

(* Every request in flight is rejected, and the query taken is settled.    *)
RejectPending(how) ==
  /\ Settle(pending, how)
  /\ pending' = {}
  /\ settled' \in IF pending = {} THEN {settled} ELSE pending

-----------------------------------------------------------------------------
Overloaded(t) ==
  \/ Cardinality(queued) >= maxQueuedTasks
  \/ queuedBytes + byteLength[t] > maxQueuedBytes

(* enqueueRaw() fails at once.                                             *)
Refuse(t) ==
  /\ outcome[t] = "none"
  /\ destroyed \/ t \in aborted \/ Overloaded(t)
  /\ Settle({t}, "refused")
  /\ UNCHANGED <<queueVars, running, settled, pending, overdue, aborted,
                 destroyed, workerVars, crashes>>

EnqueueSameId(t) ==
  /\ outcome[t] = "none"
  /\ ~destroyed /\ t \notin aborted /\ ~Overloaded(t) /\ ~running
  /\ id' = [id EXCEPT ![t] = nextTaskId]
  /\ Drain(queued \cup {t}, queuedBytes + byteLength[t], id',
           [outcome EXCEPT ![t] = "waiting"])
  /\ UNCHANGED <<nextTaskId, overdue, aborted, destroyed, crashes>>

EnqueueAlwaysDrains(t) ==
  /\ outcome[t] = "none"
  /\ ~destroyed /\ t \notin aborted /\ ~Overloaded(t)
  /\ id' = [id EXCEPT ![t] = nextTaskId]
  /\ nextTaskId' = nextTaskId + 1
  /\ Drain(queued \cup {t}, queuedBytes + byteLength[t], id',
           [outcome EXCEPT ![t] = "waiting"])
  /\ UNCHANGED <<overdue, aborted, destroyed, crashes>>

(* enqueueRaw() puts the query into its queue and drains.                  *)
Enqueue(t) ==
  /\ outcome[t] = "none"
  /\ ~destroyed /\ t \notin aborted /\ ~Overloaded(t)
  /\ id' = [id EXCEPT ![t] = nextTaskId]
  /\ nextTaskId' = nextTaskId + 1
  /\ LET queue    == queued \cup {t}
         bytes    == queuedBytes + byteLength[t]
         outcomes == [outcome EXCEPT ![t] = "waiting"]
     IN  IF running
         THEN /\ queued' = queue /\ queuedBytes' = bytes
              /\ outcome' = outcomes
              /\ UNCHANGED <<running, settled, pending, workerVars>>
         ELSE Drain(queue, bytes, id', outcomes)
  /\ UNCHANGED <<overdue, aborted, destroyed, crashes>>

FinishWithoutDrain ==
  /\ settled # NoTask
  /\ running' = FALSE /\ settled' = NoTask
  /\ UNCHANGED <<queueVars, pending, overdue, aborted, outcome, destroyed,
                 workerVars, crashes>>

(* finally() of the query that was settled.                                *)
Finish ==
  /\ settled # NoTask
  /\ IF destroyed
     THEN /\ running' = FALSE /\ settled' = NoTask
          /\ UNCHANGED <<queued, queuedBytes, pending, outcome, workerVars>>
     ELSE Drain(queued, queuedBytes, id, outcome)
  /\ UNCHANGED <<id, nextTaskId, overdue, aborted, destroyed, crashes>>

LeaveQueueKeepsBytes(t, how) ==
  /\ queued' = queued \ {t}
  /\ Settle({t}, how)
  /\ UNCHANGED <<queuedBytes, running, settled, pending>>

(* A query leaves its queue without being run.                             *)
LeaveQueue(t, how) ==
  /\ queued' = queued \ {t}
  /\ queuedBytes' = queuedBytes - byteLength[t]
  /\ Settle({t}, how)
  /\ UNCHANGED <<running, settled, pending>>

DeadlinePasses(t) ==
  /\ outcome[t] = "waiting" /\ t \notin overdue
  /\ overdue' = overdue \cup {t}
  /\ UNCHANGED <<queueVars, running, settled, pending, aborted, outcome,
                 destroyed, workerVars, crashes>>

(* The timer of a query that is still in its queue.                        *)
Expire(t) ==
  /\ TurnBegins
  /\ t \in queued /\ t \in overdue
  /\ LeaveQueue(t, "expired")
  /\ UNCHANGED <<id, nextTaskId, overdue, aborted, destroyed, workerVars, crashes>>

(* The signal fires while the query is in the queue or at the worker, or   *)
(* before it is enqueued; once it is settled nobody listens.               *)
Abort(t) ==
  /\ t \notin aborted /\ outcome[t] \notin Settlements
  /\ aborted' = aborted \cup {t}
  /\ \/ t \in queued /\ LeaveQueue(t, "cancelled")
     \/ /\ t \in pending
        /\ Settle({t}, "cancelled")
        /\ pending' = pending \ {t} /\ settled' = t
        /\ UNCHANGED <<queued, queuedBytes, running>>
     \/ /\ outcome[t] = "none"
        /\ UNCHANGED <<queued, queuedBytes, running, settled, pending, outcome>>
  /\ UNCHANGED <<id, nextTaskId, overdue, destroyed, workerVars, crashes>>

MessageSettlesAgain(t, w) ==
  /\ TurnBegins
  /\ <<t, w>> \in requests
  /\ requests' = requests \ {<<t, w>>}
  /\ Settle({t}, "ok") \/ Settle({t}, "failed")
  /\ pending' = pending \ {t} /\ settled' = t
  /\ UNCHANGED <<queueVars, running, overdue, aborted, destroyed, worker,
                 thread, crashes>>

(* The answer of a thread; nobody listens if the query is not pending.     *)
Message(t, w) ==
  /\ TurnBegins
  /\ <<t, w>> \in requests
  /\ requests' = requests \ {<<t, w>>}
  /\ IF t \in pending
     THEN /\ Settle({t}, "ok") \/ Settle({t}, "failed")
          /\ pending' = pending \ {t} /\ settled' = t
     ELSE UNCHANGED <<outcome, pending, settled>>
  /\ UNCHANGED <<queueVars, running, overdue, aborted, destroyed, worker,
                 thread, crashes>>

(* An exception that the thread does not catch.                            *)
Crash(w) ==
  /\ thread[w] = "live" /\ crashes < MaxCrashes
  /\ thread' = [thread EXCEPT ![w] = "failing"]
  /\ crashes' = crashes + 1
  /\ UNCHANGED <<queueVars, running, settled, pending, overdue, aborted,
                 outcome, destroyed, worker, requests>>

WorkerError(w) ==
  /\ TurnBegins
  /\ thread[w] = "failing"
  /\ thread' = [thread EXCEPT ![w] = "dying"]
  /\ RejectPending("failed")
  /\ worker' = 0
  /\ UNCHANGED <<queueVars, running, overdue, aborted, destroyed, requests, crashes>>

(* 'exit', in the turn of 'error' or in a later one.  Its handler does not *)
(* ask whether the thread that exits is still the current one.             *)
WorkerExit(w) ==
  /\ TurnBegins
  /\ thread[w] \in {"failing", "dying"}
  /\ thread' = [thread EXCEPT ![w] = "gone"]
  /\ IF destroyed THEN UNCHANGED <<outcome, pending, settled>>
                  ELSE RejectPending("failed")
  /\ worker' = 0
  /\ requests' = {r \in requests : r[2] # w}
  /\ UNCHANGED <<queueVars, running, overdue, aborted, destroyed, crashes>>

DestroyForgetsRequests ==
  /\ ~destroyed
  /\ destroyed' = TRUE
  /\ queued' = {} /\ queuedBytes' = 0
  /\ Settle(queued, "destroyed")
  /\ pending' = {}
  /\ UNCHANGED <<id, nextTaskId, running, settled, overdue, aborted,
                 workerVars, crashes>>

DestroyLeavesThread ==
  /\ ~destroyed
  /\ destroyed' = TRUE
  /\ queued' = {} /\ queuedBytes' = 0
  /\ Settle(queued \cup pending, "destroyed")
  /\ pending' = {}
  /\ settled' \in IF pending = {} THEN {settled} ELSE pending
  /\ worker' = 0
  /\ UNCHANGED <<id, nextTaskId, running, overdue, aborted, thread, requests,
                 crashes>>

Destroy ==
  /\ ~destroyed
  /\ destroyed' = TRUE
  /\ queued' = {} /\ queuedBytes' = 0
  /\ Settle(queued \cup pending, "destroyed")
  /\ pending' = {}
  /\ settled' \in IF pending = {} THEN {settled} ELSE pending
  /\ worker' = 0
  /\ thread' = [w \in DOMAIN thread |->
                  IF w = worker /\ thread[w] = "live" THEN "dying" ELSE thread[w]]
  /\ UNCHANGED <<id, nextTaskId, running, overdue, aborted, requests, crashes>>

Next ==
  \/ \E t \in Tasks :
       Refuse(t) \/ Enqueue(t) \/ DeadlinePasses(t) \/ Expire(t) \/ Abort(t)
  \/ \E r \in requests : Message(r[1], r[2])
  \/ \E w \in DOMAIN thread : Crash(w) \/ WorkerError(w) \/ WorkerExit(w)
  \/ Finish
  \/ Destroy

Spec == Init /\ [][Next]_vars

(* Time passes and due timers fire; a microtask that is due runs; a thread *)
(* answers every request (its HTTP call has a timeout) or dies; and the    *)
(* events of a dead thread are delivered.                                  *)
FairSpec ==
  /\ Spec
  /\ WF_vars(Finish)
  /\ \A t \in Tasks : WF_vars(DeadlinePasses(t)) /\ WF_vars(Expire(t))
  /\ WF_vars(\E r \in requests : Message(r[1], r[2]))
  /\ WF_vars(\E w \in DOMAIN thread : WorkerError(w) \/ WorkerExit(w))

-----------------------------------------------------------------------------
(* running is TRUE exactly while one query is at the worker or about to    *)
(* run its finally(): it is what keeps a second query out, and if it were  *)
(* left TRUE, nothing would ever be taken from the queues again.           *)
RunningMatches ==
  /\ \A t, u \in pending : t = u
  /\ running <=> (pending # {} \/ settled # NoTask)
  /\ settled # NoTask => pending = {}

(* A queue that has not been destroyed never sits on queries while idle,   *)
(* however queries were cancelled, expired or failed before them.          *)
NoIdleQueue == ~running /\ ~destroyed => queued = {}

(* queuedBytes is what the bodies in the queues add up to, so that both    *)
(* caps hold, and are not reached by bodies that have left.                *)
QueueBounded ==
  /\ queuedBytes = MapThenSumSet(LAMBDA t : byteLength[t], queued)
  /\ queuedBytes <= maxQueuedBytes
  /\ Cardinality(queued) <= maxQueuedTasks

(* A promise waits exactly as long as somebody will settle it, and it is   *)
(* settled once.                                                           *)
WaitingMatches ==
  \A t \in Tasks : outcome[t] = "waiting" <=> t \in queued \cup pending

SettledOnce ==
  [][\A t \in Tasks :
       outcome[t] \in Settlements => outcome'[t] = outcome[t]]_vars

(* What is sent to the trace processor and neither answered nor cancelled. *)
Executing ==
  {r \in requests : thread[r[2]] = "live" /\ r[1] \notin aborted}

(* At most one query executes, as docs/architecture/agent-runtime.en.md    *)
(* says of the SQL worker.  It does not hold once a thread has crashed:    *)
(* its late 'exit' fails the query that the next thread is running and     *)
(* forgets that thread, and a third one starts beside it.                  *)
OneQueryExecutes == \A q, r \in Executing : q = r

(* Without a crash it does.                                                *)
OneQueryUnlessCrash == crashes = 0 => OneQueryExecutes

(* A crash can lead to one more query at the trace processor, and however  *)
(* the late events of dead threads fall, no more than one for each crash.  *)
OverlapBounded == Cardinality(Executing) <= crashes + 1

(* A live thread that destroy() cannot reach is the price of a crash: at   *)
(* most one for each.                                                      *)
OrphansBounded ==
  Cardinality({w \in DOMAIN thread : thread[w] = "live" /\ w # worker}) <= crashes

(* While a promise waits, something is under way that will move the queue  *)
(* on: a finally() that is due, or a query at a worker thread that will    *)
(* answer it or raise an error, whose handlers know the current thread.    *)
NobodyWaitsInVain ==
  \A t \in Tasks : outcome[t] = "waiting" =>
    \/ settled # NoTask
    \/ \E u \in pending : /\ worker # 0 /\ thread[worker] \in {"live", "failing"}
                         /\ <<u, worker>> \in requests

(* Every query that is accepted is settled: at the latest its deadline     *)
(* ends its wait behind more urgent ones.                                  *)
EveryQuerySettles ==
  \A t \in Tasks : outcome[t] = "waiting" ~> outcome[t] \in Settlements
=============================================================================
