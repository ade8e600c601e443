---------------------------- MODULE TraceProcessors ----------------------------
(***************************************************************************)
(* The life of the trace processors of one trace:                          *)
(* TraceProcessorService (src/backend/src/services/traceProcessorService.  *)
(* ts) and TraceProcessorFactory (workingTraceProcessor.ts).  A trace has  *)
(* a shared processor and one for each isolated lease, each under a key.   *)
(* Loads from disk, queries, leases, the restart supervisor, the cleanup   *)
(* of leases and the deletion of the trace all create or destroy them, and *)
(* each is a chain of promises that the others interleave with.            *)
(*                                                                         *)
(* Abstractions.  A creation ends in one step, from the initialization of  *)
(* the processor to its publication: nothing but microtasks runs between.  *)
(* A restart continues in a step of its own.  A lease store that refuses a *)
(* mark of the supervisor is a choice.  TraceInfo objects are numbered in  *)
(* the order in which they are made; processors of one key are told apart  *)
(* by a number that is used again once nothing refers to it.  Processors   *)
(* over external RPC and their registration are left out.                  *)
(***************************************************************************)
EXTENDS Naturals, FiniteSets

CONSTANTS
  Keys,        \* processor keys of the trace
  Shared,      \* the key of its shared processor
  None,        \* no processor
  MaxAttempts, \* restarts that the supervisor tries
  MaxTraces,   \* bound on the TraceInfo objects made
  MaxLoads,    \* bound on concurrent loads from disk
  MaxCrashes,  \* bound on crashes of processors
  MaxRequests  \* requests to delete the trace: one, or none if it is 0

ASSUME ProcessorAssumption ==
  /\ Shared \in Keys
  /\ MaxAttempts \in Nat \ {0}
  /\ MaxTraces \in Nat /\ MaxLoads \in Nat /\ MaxCrashes \in Nat /\ MaxRequests \in Nat

(* A key refers to at most three processors at a time.                     *)
Processors == Keys \X (1..3)

ASSUME NoneAssumption == None \notin Processors

VARIABLES
  trace,      \* the TraceInfo in traces, 0 if there is none
  lastTrace,  \* TraceInfo objects made so far
  file,       \* whether the trace file exists
  loading,    \* loads from disk that detect the format
  deleting,   \* whether traceDeletionInProgress has the trace
  waits,      \* keys whose creation the deletion waits for
  request,    \* the DELETE request for the trace
  status,     \* of each processor
  factory,    \* TraceProcessorFactory.processors
  published,  \* TraceProcessorService.processors
  owner,      \* the TraceInfo a creation in progress is for, 0 for none
  creating,   \* the processor that it initializes
  waiters,    \* TraceInfos whose creator waits for that of a stale owner
  restart,    \* what the restart supervisor of a key does next
  cancelled,  \* whether its owner token is cancelled
  attempt,    \* its attempts so far
  revived,    \* keys where a creation that is not the restart's, destroyed by
              \* the cancellation, has been tried again
  crashes

traceVars == <<trace, lastTrace, file, loading, request>>
deletionVars == <<deleting, waits>>
processorVars == <<status, factory, published>>
creationVars == <<owner, creating, waiters>>
restartVars == <<restart, cancelled, attempt, revived>>
vars == <<traceVars, deletionVars, processorVars, creationVars, restartVars, crashes>>

Refs(k) == ({k} \X (1..3)) \cup {None}

TypeOK ==
  /\ trace \in 0..lastTrace
  /\ lastTrace \in Nat
  /\ file \in BOOLEAN
  /\ loading \in Nat
  /\ request \in {"none", "deleting", "unlink", "done"}
  /\ deleting \in BOOLEAN
  /\ waits \subseteq Keys
  /\ status \in [Processors -> {"starting", "ready", "error", "destroyed"}]
  /\ factory \in [Keys -> Processors \cup {None}]
  /\ published \in [Keys -> Processors \cup {None}]
  /\ creating \in [Keys -> Processors \cup {None}]
  /\ \A k \in Keys : factory[k] \in Refs(k) /\ published[k] \in Refs(k)
                     /\ creating[k] \in Refs(k)
  /\ owner \in [Keys -> Nat]
  /\ waiters \in [Keys -> SUBSET Nat]
  /\ restart \in [Keys -> {"none", "scheduled", "sleeping", "waiting",
                           "creating", "created", "failed"}]
  /\ cancelled \in [Keys -> BOOLEAN]
  /\ attempt \in [Keys -> 0..MaxAttempts - 1]
  /\ crashes \in 0..MaxCrashes
  /\ revived \subseteq Keys

Init ==
  /\ trace = 0 /\ lastTrace = 0 /\ file = TRUE /\ loading = 0
  /\ request = "none"
  /\ deleting = FALSE /\ waits = {}
  /\ status = [p \in Processors |-> "destroyed"]
  /\ factory = [k \in Keys |-> None]
  /\ published = [k \in Keys |-> None]
  /\ creating = [k \in Keys |-> None]
  /\ owner = [k \in Keys |-> 0]
  /\ waiters = [k \in Keys |-> {}]
  /\ restart = [k \in Keys |-> "none"]
  /\ cancelled = [k \in Keys |-> FALSE]
  /\ attempt = [k \in Keys |-> 0]
  /\ crashes = 0
  /\ revived = {}

-----------------------------------------------------------------------------
Destroy(ps) ==
  [p \in Processors |-> IF p \in ps THEN "destroyed" ELSE status[p]]

StatusIs(p, s) == p # None /\ status[p] = s

(* What nothing refers to: the number of a new processor.                  *)
Unused(p) ==
  LET k == p[1]
  IN  status[p] = "destroyed" /\ p \notin {factory[k], published[k], creating[k]}

Fresh(k, p) ==
  Unused(p) /\ \A q \in {k} \X (1..3) : Unused(q) => p[2] <= q[2]

(* TraceProcessorFactory.create for a key that has no creation.  It throws *)
(* at the size of a trace file that is gone.                               *)
FactoryCreate(k) ==
  \/ /\ StatusIs(factory[k], "ready")
     /\ published' = [published EXCEPT ![k] = factory[k]]
     /\ UNCHANGED <<status, factory, owner, creating>>
  \/ /\ ~StatusIs(factory[k], "ready") /\ ~file
     /\ status' = Destroy({factory[k]})
     /\ factory' = [factory EXCEPT ![k] = None]
     /\ UNCHANGED <<published, owner, creating>>
  \/ /\ ~StatusIs(factory[k], "ready") /\ file
     /\ \E p \in {k} \X (1..3) :
          /\ Fresh(k, p)
          /\ status' = [Destroy({factory[k]}) EXCEPT ![p] = "starting"]
          /\ factory' = [factory EXCEPT ![k] = p]
          /\ creating' = [creating EXCEPT ![k] = p]
     /\ owner' = [owner EXCEPT ![k] = trace']
     /\ UNCHANGED published

(* createProcessor for the current TraceInfo: the caller joins a restart or*)
(* a creation for the same TraceInfo, and waits for a creation for another.*)
CreateProcessor(k) ==
  \/ /\ restart[k] # "none" \/ owner[k] = trace'
     /\ UNCHANGED <<processorVars, creationVars>>
  \/ /\ restart[k] = "none" /\ owner[k] \notin {0, trace'}
     /\ waiters' = [waiters EXCEPT ![k] = @ \cup {trace'}]
     /\ UNCHANGED <<processorVars, owner, creating>>
  \/ /\ restart[k] = "none" /\ owner[k] = 0
     /\ FactoryCreate(k)
     /\ UNCHANGED waiters

NewTrace == lastTrace < MaxTraces /\ lastTrace' = lastTrace + 1 /\ trace' = lastTrace'

-----------------------------------------------------------------------------
(* loadTraceFromDisk up to the detection of the format.                    *)
LoadBegin ==
  /\ trace = 0 /\ ~deleting /\ file /\ loading < MaxLoads
  /\ loading' = loading + 1
  /\ UNCHANGED <<trace, lastTrace, file, request, deletionVars, processorVars,
                 creationVars, restartVars, crashes>>

(* The rest of it: storeTraceInfo, which throws during a deletion, and the *)
(* creation of the shared processor.  It does not look at traces again.    *)
LoadStore ==
  /\ loading > 0 /\ loading' = loading - 1
  /\ \/ deleting /\ UNCHANGED <<trace, lastTrace, processorVars, creationVars>>
     \/ ~deleting /\ NewTrace /\ CreateProcessor(Shared)
  /\ UNCHANGED <<file, request, deletionVars, restartVars, crashes>>

RegisterStoredTrace ==
  /\ trace = 0 /\ file /\ ~deleting
  /\ NewTrace
  /\ UNCHANGED <<file, loading, request, deletionVars, processorVars,
                 creationVars, restartVars, crashes>>

UnregisterStoredTrace ==
  /\ trace # 0
  /\ \A k \in Keys : published[k] = None
  /\ trace' = 0
  /\ UNCHANGED <<lastTrace, file, loading, request, deletionVars, processorVars,
                 creationVars, restartVars, crashes>>

(* A query without a lease recovers a shared processor that has died.      *)
RecoverForQuery ==
  /\ StatusIs(published[Shared], "error") \/ StatusIs(published[Shared], "destroyed")
  /\ trace # 0
  /\ UNCHANGED <<traceVars, deletionVars, restartVars, crashes>>
  /\ CreateProcessor(Shared)

ScheduleRestart(k) ==
  /\ restart[k] = "none"
  /\ restart' = [restart EXCEPT ![k] = "scheduled"]
  /\ UNCHANGED <<traceVars, deletionVars, processorVars, creationVars, cancelled,
                 attempt, revived, crashes>>

(* ensureProcessorForLease makes a processor, or has a dead one restarted. *)
EnsureProcessorForLease(k) ==
  /\ ~deleting /\ restart[k] = "none"
  /\ \/ /\ published[k] = None /\ trace # 0 /\ file
        /\ UNCHANGED <<traceVars, deletionVars, restartVars, crashes>>
        /\ CreateProcessor(k)
     \/ /\ StatusIs(published[k], "error") \/ StatusIs(published[k], "destroyed")
        /\ ScheduleRestart(k)

(* It does not look for the trace: that it is gone is found by the creation.*)
RestartLease(k) == ScheduleRestart(k)

-----------------------------------------------------------------------------
WakeRestart(k, next) ==
  restart' = IF restart[k] = "creating" THEN [restart EXCEPT ![k] = next] ELSE restart

EndCreation(k) ==
  /\ owner' = [owner EXCEPT ![k] = 0]
  /\ creating' = [creating EXCEPT ![k] = None]
  /\ waits' = waits \ {k}

CreationSucceedsForAnyone(k) ==
  /\ StatusIs(creating[k], "starting")
  /\ EndCreation(k)
  /\ status' = [status EXCEPT ![creating[k]] = "ready"]
  /\ published' = [published EXCEPT ![k] = creating[k]]
  /\ WakeRestart(k, "created")
  /\ UNCHANGED <<traceVars, deleting, factory, waiters, cancelled, attempt, revived, crashes>>

(* The processor is initialized; it is published if its TraceInfo is still *)
(* the current one, and discarded otherwise.                               *)
CreationSucceeds(k) ==
  /\ StatusIs(creating[k], "starting")
  /\ EndCreation(k)
  /\ IF owner[k] = trace
     THEN /\ status' = [status EXCEPT ![creating[k]] = "ready"]
          /\ published' = [published EXCEPT ![k] = creating[k]]
          /\ WakeRestart(k, "created")
          /\ UNCHANGED factory
     ELSE /\ status' = Destroy({creating[k]})
          /\ factory' = [factory EXCEPT ![k] = IF @ = creating[k] THEN None ELSE @]
          /\ WakeRestart(k, "failed")
          /\ UNCHANGED published
  /\ UNCHANGED <<traceVars, deleting, waiters, cancelled, attempt, revived, crashes>>

CreationFailsUnlessDestroyed(k) ==
  /\ StatusIs(creating[k], "starting")
  /\ EndCreation(k)
  /\ status' = Destroy({creating[k]})
  /\ factory' = [factory EXCEPT ![k] = None]
  /\ WakeRestart(k, "failed")
  /\ UNCHANGED <<traceVars, deleting, published, waiters, cancelled, attempt, revived, crashes>>

(* It fails, always if the processor has been destroyed meanwhile.         *)
CreationFails(k) ==
  /\ creating[k] # None
  /\ EndCreation(k)
  /\ status' = Destroy({creating[k]})
  /\ factory' = [factory EXCEPT ![k] = None]
  /\ WakeRestart(k, "failed")
  /\ UNCHANGED <<traceVars, deleting, published, waiters, cancelled, attempt, revived, crashes>>

(* Its port is in use: the factory tries again with a new processor, also  *)
(* in place of one that was destroyed meanwhile.                           *)
CreationRetries(k) ==
  /\ creating[k] # None
  /\ \E p \in {k} \X (1..3) :
       /\ Fresh(k, p)
       /\ status' = [Destroy({creating[k]}) EXCEPT ![p] = "starting"]
       /\ factory' = [factory EXCEPT ![k] = p]
       /\ creating' = [creating EXCEPT ![k] = p]
  /\ revived' = IF /\ status[creating[k]] # "starting"
                   /\ cancelled[k] /\ restart[k] # "creating"
                THEN revived \cup {k} ELSE revived
  /\ UNCHANGED <<traceVars, deletionVars, published, owner, waiters, restart, cancelled,
                 attempt, crashes>>

(* Who waited for a stale creation joins the next one, or creates in turn  *)
(* if its TraceInfo is the current one.                                    *)
WaiterContinues(k, t) ==
  /\ owner[k] \in {0, t} /\ t \in waiters[k]
  /\ UNCHANGED <<traceVars, deletionVars, restartVars, crashes>>
  /\ waiters' = [waiters EXCEPT ![k] = @ \ {t}]
  /\ IF t = trace /\ restart[k] = "none" /\ owner[k] = 0
     THEN FactoryCreate(k)
     ELSE UNCHANGED <<processorVars, owner, creating>>

Crash(p) ==
  /\ status[p] = "ready" /\ crashes < MaxCrashes
  /\ status' = [status EXCEPT ![p] = "error"]
  /\ crashes' = crashes + 1
  /\ UNCHANGED <<traceVars, deletionVars, factory, published, creationVars, restartVars>>

(* The factory makes room for another trace.                               *)
Evict ==
  /\ factory[Shared] # None
  /\ status' = Destroy({factory[Shared]})
  /\ factory' = [factory EXCEPT ![Shared] = None]
  /\ UNCHANGED <<traceVars, deletionVars, published, creationVars, restartVars, crashes>>

-----------------------------------------------------------------------------
EndRestart(k) ==
  /\ restart' = [restart EXCEPT ![k] = "none"]
  /\ cancelled' = [cancelled EXCEPT ![k] = FALSE]
  /\ attempt' = [attempt EXCEPT ![k] = 0]
  /\ revived' = revived \ {k}

NextAttemptUnbounded(k) ==
  /\ restart' = [restart EXCEPT ![k] = "sleeping"]
  /\ attempt' = [attempt EXCEPT ![k] = @ + 1]
  /\ UNCHANGED <<cancelled, revived>>

NextAttemptUncounted(k) ==
  /\ restart' = [restart EXCEPT ![k] = "sleeping"]
  /\ UNCHANGED <<cancelled, attempt, revived>>

(* The supervisor sleeps and tries again, as often as it may.              *)
NextAttempt(k) ==
  IF attempt[k] + 1 < MaxAttempts
  THEN /\ restart' = [restart EXCEPT ![k] = "sleeping"]
       /\ attempt' = [attempt EXCEPT ![k] = @ + 1]
       /\ UNCHANGED <<cancelled, revived>>
  ELSE EndRestart(k)

Proceed(k, next) ==
  restart' = [restart EXCEPT ![k] = next] /\ UNCHANGED <<cancelled, attempt, revived>>

(* The supervisor starts unless the lease is not to be restarted, sleeps,  *)
(* and stops wherever it finds that its token is cancelled.                *)
RestartBegins(k) ==
  /\ restart[k] = "scheduled"
  /\ EndRestart(k) \/ (~cancelled[k] /\ Proceed(k, "sleeping"))
  /\ UNCHANGED <<traceVars, deletionVars, processorVars, creationVars, crashes>>

RestartWakes(k) ==
  /\ restart[k] = "sleeping"
  /\ IF cancelled[k] THEN EndRestart(k) ELSE Proceed(k, "waiting")
  /\ UNCHANGED <<traceVars, deletionVars, processorVars, creationVars, crashes>>

(* destroyProcessorForRestart.                                             *)
ForRestart(k) == IF factory[k] # None THEN {factory[k]} ELSE {published[k]}

(* No creation is in progress any more: the old processor goes, a new one  *)
(* comes, unless the trace is gone.  It ends here if it is cancelled or the*)
(* lease cannot be marked as restarting.                                   *)
RestartCreates(k) ==
  /\ restart[k] = "waiting" /\ owner[k] = 0
  /\ \/ EndRestart(k) /\ UNCHANGED <<processorVars, owner, creating>>
     \/ /\ ~cancelled[k]
        /\ published' = [published EXCEPT ![k] = None]
        /\ IF trace # 0 /\ file
           THEN /\ \E p \in {k} \X (1..3) :
                     /\ Fresh(k, p)
                     /\ status' = [Destroy(ForRestart(k)) EXCEPT ![p] = "starting"]
                     /\ factory' = [factory EXCEPT ![k] = p]
                     /\ creating' = [creating EXCEPT ![k] = p]
                /\ owner' = [owner EXCEPT ![k] = trace]
                /\ Proceed(k, "creating")
           ELSE /\ status' = Destroy(ForRestart(k))
                /\ factory' = [factory EXCEPT ![k] = None]
                /\ Proceed(k, "failed")
                /\ UNCHANGED <<owner, creating>>
  /\ UNCHANGED <<traceVars, deletionVars, waiters, crashes>>

(* The processor of a key is destroyed and forgotten.                      *)
DestroyProcessor(k) ==
  /\ status' = Destroy(ForRestart(k))
  /\ factory' = [factory EXCEPT ![k] = None]
  /\ published' = [published EXCEPT ![k] = None]

(* The new processor is published, but the restart may be cancelled since; *)
(* if the lease cannot be marked ready, the attempt counts as failed.      *)
RestartSucceeds(k) ==
  /\ restart[k] = "created"
  /\ IF cancelled[k]
     THEN DestroyProcessor(k) /\ EndRestart(k)
     ELSE (EndRestart(k) \/ NextAttempt(k)) /\ UNCHANGED processorVars
  /\ UNCHANGED <<traceVars, deletionVars, creationVars, crashes>>

RestartFails(k) ==
  /\ restart[k] = "failed"
  /\ IF cancelled[k] THEN EndRestart(k) ELSE NextAttempt(k)
  /\ UNCHANGED <<traceVars, deletionVars, processorVars, creationVars, crashes>>

CancelRestarts(ks) ==
  /\ cancelled' = [k \in Keys |-> cancelled[k] \/ (k \in ks /\ restart[k] # "none")]
  /\ revived' = revived \ ks

CleanupKeepsUnpublished(k) ==
  /\ <<factory[k], published[k], restart[k]>> # <<None, None, "none">>
  /\ CancelRestarts({k})
  /\ status' = Destroy({published[k]})
  /\ factory' = [factory EXCEPT ![k] = None]
  /\ published' = [published EXCEPT ![k] = None]
  /\ UNCHANGED <<traceVars, deletionVars, creationVars, restart, attempt, crashes>>

CleanupLeavesRestart(k) ==
  /\ <<factory[k], published[k], restart[k]>> # <<None, None, "none">>
  /\ CancelRestarts({k})
  /\ IF restart[k] = "none" THEN DestroyProcessor(k) ELSE UNCHANGED processorVars
  /\ UNCHANGED <<traceVars, deletionVars, creationVars, restart, attempt, crashes>>

(* The lease of the key was released: its restart is cancelled, and what   *)
(* the factory or else the service has is destroyed.                       *)
CleanupLeaseProcessor(k) ==
  /\ <<factory[k], published[k], restart[k]>> # <<None, None, "none">>
  /\ CancelRestarts({k})
  /\ DestroyProcessor(k)
  /\ UNCHANGED <<traceVars, deletionVars, creationVars, restart, attempt, crashes>>

(* The processors of the trace are cleaned up, and the trace stays.        *)
CleanupProcessorsForTraces ==
  LET ks == {k \in Keys : published[k] # None}
  IN  /\ ks # {}
      /\ status' = Destroy(UNION {ForRestart(k) : k \in ks})
      /\ factory' = [k \in Keys |-> IF k \in ks THEN None ELSE factory[k]]
      /\ published' = [k \in Keys |-> None]
      /\ UNCHANGED <<traceVars, deletionVars, creationVars, restartVars, crashes>>

-----------------------------------------------------------------------------
(* What discardProcessor is called with for a key.                         *)
Discarded(k) == IF published[k] # None THEN published[k] ELSE factory[k]

Discard(ks) ==
  /\ status' = Destroy({Discarded(k) : k \in ks})
  /\ factory' = [k \in Keys |->
       IF k \in ks /\ factory[k] = Discarded(k) THEN None ELSE factory[k]]
  /\ published' = [k \in Keys |-> IF k \in ks THEN None ELSE published[k]]

DeleteWithoutWaiting ==
  LET ks == {Shared} \cup {k \in Keys : owner[k] = trace \/ published[k] # None
                                        \/ restart[k] # "none"}
  IN  /\ trace # 0 /\ ~deleting
      /\ trace' = 0 /\ deleting' = TRUE
      /\ waits' = {}
      /\ CancelRestarts(ks)
      /\ Discard(ks)
      /\ UNCHANGED <<lastTrace, file, loading, creationVars, restart, attempt, crashes>>

(* performTraceDeletion up to its await: the TraceInfo is invalidated, the *)
(* restarts are cancelled, the processors discarded.                       *)
Delete ==
  LET ks == {Shared} \cup {k \in Keys : owner[k] = trace \/ published[k] # None
                                        \/ restart[k] # "none"}
  IN  /\ trace # 0 /\ ~deleting
      /\ trace' = 0 /\ deleting' = TRUE
      /\ waits' = {k \in Keys : owner[k] = trace}
      /\ CancelRestarts(ks)
      /\ Discard(ks)
      /\ UNCHANGED <<lastTrace, file, loading, creationVars, restart, attempt, crashes>>

(* cleanup() deletes a trace that has been idle for long.                  *)
DeleteIdle == Delete /\ UNCHANGED request

(* The creations it waited for have settled: the file goes, or the trace   *)
(* comes back under a new TraceInfo.                                       *)
DeletionCompletes ==
  /\ deleting /\ waits = {}
  /\ deleting' = FALSE
  /\ Discard({k \in Keys : published[k] # None})
  /\ \/ file' = FALSE /\ UNCHANGED <<trace, lastTrace>>
     \/ file /\ UNCHANGED file /\ NewTrace
  /\ request' = IF request = "deleting" THEN "unlink" ELSE request
  /\ UNCHANGED <<loading, waits, creationVars, restartVars, crashes>>

(* DELETE /api/traces/:id calls deleteTrace, which has nothing to do for a *)
(* trace that is not in memory.                                            *)
RequestDelete ==
  /\ request = "none" /\ MaxRequests > 0
  /\ \/ request' = "deleting" /\ Delete
     \/ /\ trace = 0 \/ deleting
        /\ request' = IF deleting THEN "deleting" ELSE "unlink"
        /\ UNCHANGED <<trace, lastTrace, file, loading, deletionVars,
                       processorVars, creationVars, restartVars, crashes>>

(* Then the route unlinks the file, whatever came of that, and reports.    *)
RequestUnlink ==
  /\ request = "unlink"
  /\ request' = "done" /\ file' = FALSE
  /\ UNCHANGED <<trace, lastTrace, loading, deletionVars, processorVars,
                 creationVars, restartVars, crashes>>

SettleCreation(k) == CreationSucceeds(k) \/ CreationFails(k)

RestartStep(k) ==
  \/ RestartBegins(k) \/ RestartWakes(k) \/ RestartCreates(k)
  \/ RestartSucceeds(k) \/ RestartFails(k)

Next ==
  \/ LoadBegin \/ LoadStore \/ RegisterStoredTrace \/ UnregisterStoredTrace
  \/ RecoverForQuery
  \/ \E k \in Keys :
       \/ EnsureProcessorForLease(k) \/ RestartLease(k)
       \/ SettleCreation(k) \/ CreationRetries(k)
       \/ \E t \in waiters[k] : WaiterContinues(k, t)
       \/ RestartStep(k)
       \/ CleanupLeaseProcessor(k)
  \/ \E p \in Processors : Crash(p)
  \/ Evict
  \/ CleanupProcessorsForTraces
  \/ DeleteIdle \/ DeletionCompletes
  \/ RequestDelete \/ RequestUnlink

Spec == Init /\ [][Next]_vars

(* The initialization of a processor ends (it has a startup timeout), and  *)
(* promises that can go on do, as do the timers of the supervisor.         *)
FairSpec ==
  /\ Spec
  /\ \A k \in Keys : WF_vars(SettleCreation(k)) /\ WF_vars(RestartStep(k))
  /\ WF_vars(DeletionCompletes)

-----------------------------------------------------------------------------
(* Nothing serves a trace that is not in memory: from the moment a deletion*)
(* has invalidated the TraceInfo no creator, restart or load publishes a   *)
(* processor for it.                                                       *)
NoProcessorWithoutTrace ==
  trace = 0 =>
    /\ \A k \in Keys : published[k] = None
    /\ \A p \in Processors : status[p] # "ready"

(* Every processor that was not destroyed, and so its process and port, is *)
(* the one that the factory has for its key: none is forgotten, and a key  *)
(* never has two.                                                          *)
EveryProcessorIsOwned ==
  \A p \in Processors : status[p] # "destroyed" => factory[p[1]] = p

(* A cancelled restart ends with no processor for the lease or the trace   *)
(* that it was cancelled for, be it its own or one that was there before,  *)
(* with one exception: another creator's creation, which the cancellation  *)
(* destroyed, failed for its port and was tried again.                     *)
CancelledRestartLeavesNothing ==
  [][\A k \in Keys \ revived :
       cancelled[k] /\ restart[k] # "none" /\ restart'[k] = "none" =>
         (published[k] = None /\ ~StatusIs(factory[k], "ready"))']_vars

(* "Deletion is a lifecycle barrier: it does not report completion while a *)
(* creator can still publish a processor for the invalidated TraceInfo",   *)
(* which is the last one made, for none is made meanwhile.                 *)
DeletionIsABarrier ==
  [][deleting /\ ~deleting' => \A k \in Keys : owner[k] # lastTrace]_vars

(* A deletion ends: what it waits for never waits for it.                  *)
DeletionEnds == deleting ~> ~deleting

(* So does a restart.                                                      *)
RestartEnds == \A k \in Keys : restart[k] # "none" ~> restart[k] = "none"

(* What DeletionEnds and RestartEnds rest on: a deletion and a restart only*)
(* wait for a creation that is in progress, with a processor that will be  *)
(* ready or fail, and so does whoever waits for the creation of another    *)
(* TraceInfo, unless it may go on already.                                 *)
NobodyWaitsInVain ==
  /\ \A k \in waits : creating[k] # None
  /\ \A k \in Keys :
       /\ restart[k] = "creating" => creating[k] # None
       /\ restart[k] = "waiting" \/ waiters[k] # {} => owner[k] = 0 \/ creating[k] # None

(* "DELETE /api/traces/:id - Delete a trace and cleanup all resources".    *)
(* It does not hold: a load from disk may store the trace after            *)
(* deleteTrace has found nothing to do, or after it is done.               *)
DeleteCleansUp ==
  request = "done" /\ ~deleting => \A k \in Keys : published[k] = None
=============================================================================
