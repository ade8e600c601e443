# Formal models of SmartPerfetto's backend

TLA+ modules for the parts of SmartPerfetto's backend whose correctness depends
on the order in which things happen: who may use which trace processor and for
how long, how processors come and go, how SQL queries and agent tools queue for
them, how ports pass from one processor to the next, how candidates for learned
cases are reviewed, and how several backend processes share a registry file. Every definition
is translated from `src/`; `PROJECT.json` maps each one to the lines it stands
for. Run the tools in this directory:

    tlc -workers 2 -config MCLeaseStore.cfg MCLeaseStore.tla
    tlapm LeaseStoreProofs.tla

## 1. The system

SmartPerfetto answers questions about Perfetto traces. A Node.js backend keeps
traces on disk, runs a `trace_processor_shell` process for each trace in use,
forwards SQL to it from the browser, and lets an LLM agent query it with tools.
The backend is single threaded; its concurrency is that of promises, timers,
worker threads, child processes, and of several backend or CLI processes on one
data directory.

| Component | State | Operations | Interacts with |
|---|---|---|---|
| Lease store (`traceProcessorLeaseStore.ts`, supervisor) | rows of leases and holders in SQLite | acquire, heartbeat, release, mark, drain, sweep | routes call it, the supervisor sweeps every 30 s, restarts mark their lease |
| Trace processor service (`traceProcessorService.ts`) | traces, processors by key, creations and restarts in progress, deletions | load, create, ensure for a lease, restart, clean up, delete | factory, lease store, routes |
| Processor and factory (`workingTraceProcessor.ts`) | processors by key, child process, status | create, query, destroy, evict | port pool, SQL worker |
| SQL worker queue (`traceProcessorSqlWorker.ts`, thread) | three queues, pending request, worker thread | enqueue, abort, expire, worker events, destroy | HTTP RPC of the processor |
| Tool concurrency (`runtimeToolConcurrency.ts`) | queue, active reads, active writer, async context | run, abort, drain, start | agent runtimes and their MCP tools |
| Registry lock (`filesystemRegistryLock.ts`) | a lock directory with an owner file | acquire, run the operation, release | code base, secret and knowledge registries, other processes |
| Trace routes (`simpleTraceRoutes.ts`) | trace metadata and files | upload, list, delete | service, lease store |
| Port pool (`portPool.ts`) | available, blocked and allocated ports | allocate with a probe, release, block, clean up | constructor and `destroy()` of processors, factory, cleanup route |
| RAM budget, lease mode decision | measured sizes | decide | factory, lease store |
| Agent routes and session service | one session per conversation, its active run | start, stream, cancel, resume | leases, runtimes, run store, event store |
| Run store, event store, SSE | run rows, numbered events | transitions, append, replay | session service, browser |
| Case evolution (`caseCandidateOutbox.ts`, `scopedOutbox.ts`, worker, ingester, feedback) | candidates with fenced leases, learned cases, feedback with its dirty targets | enqueue, claim, renew, settle, ingest, append and project feedback, rederive | LLM reviews, case library, feedback store, CLIs |
| Self-evolution, review outbox | proposals, jobs | apply, roll back, recover | registries |
| Provider manager, batch and scene runners, circuit breaker | generation, job lists, failure counts | mutate, run, cancel, trip | agent runtimes |
| Skills, reports, verifiers, knowledge stores | definitions and documents | evaluate, render | agent runtimes |
| Frontend, CLI, Rust analyzer, scripts | - | - | backend |

What is hard here:

* Leases outlive requests. Holders expire, the sweep runs beside the calls, most
  store operations are several statements without a transaction, and a restarted
  backend continues from whatever rows are left.
* A processor is created by a chain of promises. At every await the trace may be
  deleted and stored again, a restart cancelled, the lease cleaned up.
* A query may be answered, aborted, overdue or lost with its worker thread, all
  in the same few milliseconds, and exactly one of these may settle it.
* An agent tool may call another tool, which shares the slots of the first.
* A destroyed processor's port is released by key when its process is gone, and by
  then the key may belong to another processor.
* A review of a case candidate takes minutes, may outlive its lease, and may die
  between the library and the row; feedback and CLIs change both meanwhile. Feedback
  is kept in a third store, and its projection on the two may fail or die half-way,
  or be overtaken by the projection of newer feedback.
* Backend processes that share a file have only `mkdir`, `stat` and `rename`.

`PROJECT.json` lists these as hazards, each at its line with the properties that
would catch it.

## 2. The modules

Every component has a specification `X.tla`, a TLC instance `MCX.tla` with its
configurations, and a proof module `XProofs.tla`. Lemmas about data that several proofs
need are in `DataLemmas.tla`.

### LeaseContract

What the store promises to those who hold a lease, with neither rows nor TTLs nor
the health of processors: a lease is unused, open, draining, released or failed;
it is opened by a first member, others join while it is open, a member stays until
it leaves or is late and dropped. `LeaseStore` implements it under the mapping at its
end: all serving and starting states are `open`, an expired holder whose row is still there
is `late`, and what a crash leaves behind is a step of the contract too. The contract says more
than the single properties: it forbids, for one, that a call for one holder
removes another one, in any state of the lease.

### LeaseStore

One action per method of the store. A row is `state`, `mode`, `trace`,
`leaseLeft` and its `holders` with `holderLeft`; the two TTL columns hold the time
that is left, so that `Tick` moves the clock. `Refreshed` is
`refreshLeaseActivityState`, which nearly every method calls last. The acquire
operations are one transaction in the code and one step here; for the others an
action `...Cut` does what a crash leaves after some of their statements. The
marks (`markStarting`, ...) may be called by anybody at any time: the code has
several callers (routes, the restart supervisor) and none of them holds a lock.

### TraceProcessors

`TraceProcessorService` and `TraceProcessorFactory` for one trace. `trace` is the
TraceInfo in the service's map; deleting and storing the trace again makes a new
one, and a creation remembers for which it is (`owner`, `processorCreationOwners`).
`factory` and `published` are the two maps of processors, `creating` is the one
that is being initialized, `restart` the step the lease restart supervisor of a
key does next, `waits` what `performTraceDeletion` awaits, `waiters` the callers
that wait for a creation of another TraceInfo. A step runs from one await to the
next. DELETE /api/traces/:id is `RequestDelete` and then `RequestUnlink`. Uploads
are not actions of their own: they store the TraceInfo and then create the
processor, which `RegisterStoredTrace` and `EnsureProcessorForLease` do here.
A lease store that refuses a mark of the supervisor, a processor that cannot start
and a port in use are choices. The factory retries a port in use without asking whether
the processor was destroyed meanwhile, and so does `CreationRetries`; `revived`
records the keys where such a retry followed the cancellation of a restart. Nor does
`RestartLease` ask for the TraceInfo: that it is missing is found when the processor
is created.

### SqlQueue

`TraceProcessorSqlWorker`. `queued`, `pending`, `running`, `queuedBytes` and
`worker` are the fields of the class; `settled` is the query whose promise is
settled and whose `finally()` has not run, a microtask in which callers may run
but no timer and no worker event. `thread` has every worker thread made so far,
also those the class has forgotten, and `requests` what they still execute.
`DeadlinePasses` is the clock, `Expire` the timer's callback.

### ToolConcurrency

`FairRuntimeToolConcurrencyCoordinator`. `queue`, `activeReads` and `activeWriter`
are its fields, `context` is the AsyncLocalStorage chain that the re-entrancy check
reads, `caller` who awaits whom. A call may be made outside of any tool or from
the body of a tool in `Callers`, including promises that outlive the body; the
code that aborts or releases also passes its context on to what it drains, and
so does the model.

### PortPool

`PortPool` and what allocates from it and releases to it. `pool` is the record of the
pool's two sets and two maps; its operations are functions from pools to pools, so
that a step may compose several as the code does (destroy twice, release, block,
allocate again in `PortInUse`). `armed` are the destroyed processors whose
`releasePortOnce` has not run yet: `Close` and `KillTimer` run it. `InUse` is what
the bind probe can see, so a process that is still loading its trace does not
count, and `Listen` is where two of them find out. The fallback of the kill timer never sends its
SIGKILL (`proc.killed` is true once SIGTERM was sent, line 1158), hence a process may
outlive its release for any time. `late` records what the code does not prevent: a
destroyed processor took the port of one in use.

### FencedOutbox

The contract in the head of `scopedOutbox.ts`: claims of a job are numbered, one at
a time is live, and only the worker with the live claim decides about the job. How a
claim ends (its time is up, a sweep, a feedback) is left open. It hands a job back
only while there is a claim left, so a job whose worker has decided is never stuck.

### CaseOutbox

The table `case_candidates`, the runs of `processJob` on it and the learned cases
they save. One action per SQL statement, since backends and CLIs are processes of
their own. `Fenced` is the WHERE clause of every statement under a lease, `pc` the
step between two of a worker's statements, `Ingest` the write of the case, which looks at
no row; it may throw on either side of the write (`failLease`). `RederiveRead` and
`RederiveWrite` are the CLI with the rows it has read in between.

Feedback goes through three stores. `append` keeps it, `feedback` being the verdict in
force and `revision` its number, and thereby makes the target dirty: `applied < revision`.
A run of `projectTarget` lists a dirty target and reads its verdict
(`getEffectiveForTarget`), writes the row (`applyFeedbackProjection`), then the case
(`applyCaseEvolutionFeedbackProjection`), then marks the target as clean if the revision is
still the one it listed (`markTargetApplied`). After each of these it may fail, be it that the
library is busy or the process dies (`ProjectionFails`), and other runs may do theirs.
`overtaken` records what the code does not prevent: a candidate written to from data that
was no longer true, until its next feedback.

A lease's random token is the number of its attempt; the clock is the set `expired`
of leases that have run out and the set `recent` of rows that count for today's
budget. Two runs of a worker need not be of two processes: a tick does not wait
for the jobs of the one before it, so a backend may exceed its own concurrency.

### RegistryLock

`withFilesystemRegistryLock` around `persistRegistration`, one step per system call:
`Mkdir`, `WriteOwner`, `Stat`, `Rename`, `Load`, `Persist`, and `Release` and
`Remove`. A process may crash before any of them and start again. A lock
directory goes stale only when no process is inside (an operation takes far less
than the 60 s of `DEFAULT_STALE_LOCK_MS`). `stolen` records the one event that breaks the
lock: a process has renamed a directory that was not stale.

## 3. What TLC checks

| Run | Instance | Distinct states | Properties |
|---|---|---|---|
| lease_store | 2 leases, 1 trace, 2 holders, short and long policy, 1 crash, symmetry | 113 000 | TypeOK, OneSharedLease, ActivityMatchesHolders, LeaseOutlivesHolder, ImplementsContract |
| lease_store_liveness | 2 leases, 1 holder, 1 crash | 20 000 | DrainTerminates, AbandonedLeasesRetire |
| trace_processors | 2 keys, 2 TraceInfos, 1 load, 1 crash, one restart attempt, no DELETE request | 841 000 | TypeOK, NoProcessorWithoutTrace, EveryProcessorIsOwned, CancelledRestartLeavesNothing, DeletionIsABarrier |
| trace_processors_liveness | 1 key, 3 TraceInfos, 2 loads, 2 attempts | 98 000 | DeletionEnds, RestartEnds |
| trace_delete_cleanup | 1 key, 1 load | violated | DeleteCleansUp |
| sql_queue | 3 queries of two priorities and sizes, caps of 2, 1 crash | 222 000 | TypeOK, NobodyWaitsInVain, QueueBounded, WaitingMatches, OverlapBounded, OrphansBounded, SettledOnce, EveryQuerySettles |
| sql_queue_overlap | the same | violated | OneQueryExecutes |
| tool_concurrency | 2 exclusive calls, 3 reads, cap 2, one calling body | 64 000 | TypeOK, WriterAlone, NoIdleSlot, NoOvertaking, EveryCallSettles |
| port_pool | 2 keys, 2 ports, 3 processors, 1 port of other programs, eviction at 1, 2 attempts, symmetry | 499 000 | TypeOK, AllocationsAreOwned, KeepsPortUnlessLate |
| case_outbox | 2 candidates, 2 workers, 2 projections, 2 attempts, queue of 1, 1 review a day, 5 events with one candidate and 1 with both | 488 000 | TypeOK, ReviewedCaseExists, AppliedFeedbackIsInForce, ExhaustedIsTerminal, ReviewEnds, ImplementsFencedOutbox |
| registry_lock | 2 processes, 2 updates each, 2 failures | 44 000 | TypeOK, SerializedUnlessStolen, RemovesOwnLock, NobodyTriesForEver |
| registry_lock_lost | 3 processes, 1 failure, symmetry | violated | NoLostUpdate |

Each property is stated in words above its definition. Some facts about the
components are proved and in no run: DrainOnlyShrinks, NoResurrection,
ReleaseEvictsNobody, ReleasedHasNoHolder, RunningMatches, NoIdleQueue,
OneQueryUnlessCrash (the case of no crash of OverlapBounded), SlotsMatch, QueueMoves,
SoleReviewer, DistinctPortsUnlessLate, SerializedUnlessFailure, and the NobodyWaitsInVain of
TraceProcessors.

**Bounds.** Two leases of one trace are what a shared and an isolated lease, or an
old and a new one, need to meet; leases of different traces share nothing. One
unit of time separates the short policy from the long one, which is all that the
comparisons of expiry times can tell. One crash suffices for a statement-level
cut, because the operations after it start from an arbitrary cut row. In
TraceProcessors two TraceInfos are the deleted one and its successor; without the
DELETE request (which the other two runs have) a trace is deleted when it is idle, and its
file still goes, before or after a load; and the proofs below show that the safety properties do not depend on any of the bounds. Three
queries are one executing, one waiting and one overtaking it; two exclusive and
three read calls make reads wait for a writer and for the cap. Two processes
suffice for every race at the lock but the theft, which takes a dead owner and
two thieves. Two ports and three processors let a key's replacement be made, and another
key allocate, before the release of the first; eviction at one processor (5 in the
code) makes the two keys evict each other, and the second of two attempts (8) is the last
one. Two candidates of different keys compete for a queue of one and a budget of one;
what repeated keys do is left to the proofs, which allow any. Two workers are
the one that lost its lease and the one that has it now; two attempts reach the last
one after one loss. The events are appends of feedback, projections of it and rederives. Five
of them are two verdicts and the projection of each, which may overtake each other, with a
rederive or a retry of one of the projections; they are spent on the first candidate before
the second one is saved. Two candidates only meet in the queue and in the budget, where
governance and the workers already free places and use them up, so one event is enough there.
The searches for `violation` runs stop at their counterexample.

**Deadlock** is not checked: all of these systems may stop for good, when nobody
calls and the bounded inputs are used up. That nothing hangs is said by the
liveness properties.

**Fairness.** It is assumed of what the runtime schedules, never of clients:

* LeaseStore: the clock, and the sweep, which is a `setInterval`. No client has to
  heartbeat, release or mark.
* TraceProcessors: an initialization settles (the startup has a timeout), promises
  that can continue do, timers of the supervisor fire. Loads, queries and requests
  need not come.
* SqlQueue: microtasks and due timers run, a thread answers each request (its HTTP
  call has a timeout) or dies, and the events of a dead thread are delivered.
* ToolConcurrency: microtasks run, and a tool's body that awaits nothing
  unsettled settles. Nobody has to call or abort.
* CaseOutbox: one of the following happens in the end as long as one can: a lease runs
  out, a day passes, a tick sweeps, a worker claims or goes on (the review has a
  timeout). That is weaker than fairness of each: every one of them uses up something (an
  attempt, the day's budget, a step) that only feedback and the CLIs give back, whose
  number is bounded. Workers may always crash.
* RegistryLock: a process that has begun goes on, and time passes. Nobody has to
  retry after "busy", and `NobodyTriesForEver` is for behaviours without theft.

**Mutants.** Every property is tested: `PROJECT.json` gives for each one a definition
with a plausible bug (a dropped guard, a missing reset or drain, a counter that
is not given back), which stands before the right one under a similar name, and
TLC finds the property violated when the two are exchanged.

## 4. What the code does otherwise than it says

Three runs end in a counterexample, each against a sentence of the repository.

* **registry_lock_lost.** `filesystemRegistryLock.ts:97-99` promises that no process
  overwrites an update made by another. A process that found the lock stale
  renames what is at the path later; another one that found the same may have taken
  a fresh lock in between. `SerializedUnlessStolen` shows that this rename is the
  only way to lose an update.
* **sql_queue_overlap.** `docs/architecture/agent-runtime.en.md:157-159` says that SQL
  of one processor does not overlap. The `exit` event of a crashed worker thread is
  handled without asking whether that thread is still the current one: it fails
  the query of its successor and forgets the successor, which goes on executing
  while a third thread takes the next query. `OverlapBounded` shows how far this goes,
  one query more for each crash and none without one, `OrphansBounded` how many
  threads can be left over.
* **trace_delete_cleanup.** `simpleTraceRoutes.ts:1561` says DELETE cleans up all
  resources. A load from disk that has not stored its TraceInfo yet is invisible to
  `deleteTrace`, and its processor outlives the request.

## 5. What is proved

The proofs hold for every value of the constants that satisfies the `ASSUME` of
the module: any number of leases, holders, traces, keys, queries, calls,
processes, crashes, and any caps. None of them uses the TLC bounds.

* **LeaseStoreProofs.** Each state property is inductive together with TypeOK, so
  each has a lemma with one step per operation and no common invariant is needed.
  LeaseOutlivesHolder rests on `heartbeat <= idle` for every policy, an assumption
  on the constant that `resolveHolderTtlPolicy` satisfies. From them also the action
  properties DrainOnlyShrinks, NoResurrection and ReleaseEvictsNobody.
  The second half is the refinement, `Spec => ImplementsContract`. Each operation has a
  lemma that names its step of the contract: an acquire is Open or Join, a heartbeat
  Renew, a release Leave, a mark Drain, Fail or nothing, a sweep Expire, a tick
  TimePasses, and the cut forms the same. TypeOK is all that has to be known of
  reachable states.
* **TraceProcessorsProofs.** `IInv == TypeOK /\ Sound /\ DeletionInv`. `Sound` goes key by
  key: a processor that is not destroyed is the one its factory key names, a
  starting one is being created, a ready one is published, an owner is set exactly
  while a processor is being created, and nothing is published without a trace. `DeletionInv`
  says that a deletion waits for every creation of the TraceInfo it
  invalidated. NoProcessorWithoutTrace alone is not inductive: a creation could
  publish, unless what it creates is known to be under its owner. From it:
  NoProcessorWithoutTrace, EveryProcessorIsOwned, DeletionIsABarrier,
  CancelledRestartLeavesNothing. The last rests on `CancelInv`: once a restart is
  cancelled, its key has nothing that is published or ready, and what is being created is
  destroyed, until a retry of that creation makes the key `revived`. `WaitInv` adds that what a deletion or a restart waits for
  is a creation in progress. With the equivalence of `Sound` that gives NobodyWaitsInVain:
  the waits of deletions, restarts and creators all point at a creation, which waits for
  none of them. This is the part of DeletionEnds and RestartEnds that is not about fairness.
* **SqlQueueProofs.** `IInv == TypeOK /\ Core /\ OneThread`. `Core` joins RunningMatches,
  NoIdleQueue and WaitingMatches, which need each other: whatever settles the pending
  query hands over to `finally()`, which drains. `OneThread` says that before a crash
  the only live thread is the current one and executes the pending query. From
  it: RunningMatches, NoIdleQueue, WaitingMatches, SettledOnce, OneQueryUnlessCrash.
  Three more invariants stand on it.
  - `CrashDebt`, for OrphansBounded and OverlapBounded. Counting live threads is not
    inductive: a thread is orphaned later than the crash, by a late event. What crashes
    pay for is every thread that has died and still has events to come, which may orphan
    one, and every thread that is orphaned already; a forgotten thread whose error and
    exit events are both to come counts twice. Only a crash increases this debt, by
    one. A live thread executes at most one query.
  - `RequestsMatch`, that the pending query is among the requests of the current thread
    and of no other, for NobodyWaitsInVain: the promise of whoever waits rests
    on a `finally()` that is due or a thread that will answer or raise an error.
  - The byte counter equals the sum of the queued bodies, for QueueBounded. The sum is
    a fold, and the library's induction over finite sets cannot be instantiated;
    DataLemmas does without it.
* **DataLemmas.** Induction over the finite subsets of a set, stated for a *set* of good
  subsets where the library has a predicate, and proved by a smallest
  counterexample, which rests on the well-foundedness of the naturals. From it: the
  recursive function behind the fold exists and is unique, the sum is a natural number,
  and it loses or gains just the weight of the element that leaves or joins, in whatever order
  CHOOSE picks. Also the least element of a set of naturals, and how a cardinality changes with
  one element, which OrphansBounded, the tool queue and the port pool need.
* **ToolConcurrencyProofs.** `IInv == TypeOK /\ Books /\ NoIdleSlot`. `Books` says that the
  queue holds each queued call once and that the counters are the calls that hold
  slots; a step first settles the books for its own call and then drains, so one
  lemma about `Drain` serves all actions. It rests on lemmas on the cardinality of a
  set that gains the admitted prefix of the queue. From it: WriterAlone,
  SlotsMatch, NoIdleSlot, NoOvertaking, and TypeOK: that `activeReads` stays a natural
  number is a consequence of the books, for it is the size of a set. QueueMoves, the
  part of EveryCallSettles that is not about fairness, adds that what a running body
  has called has returned, which is what the re-entrancy check is for.
* **CaseOutboxProofs.** `IInv == TypeOK /\ RowSound /\ WorkerSound /\ TokensDiffer /\
  ReviewedCaseExists`: a row's token is the number of its last attempt, only pending rows that
  feedback has not rejected are leased, a worker past the ingest has its case in
  the library, and workers of one job have different tokens. The fence then lets
  one worker through (SoleReviewer). From it ReviewedCaseExists, ExhaustedIsTerminal
  and, step by step, `Spec => ImplementsFencedOutbox`. AppliedFeedbackIsInForce needs
  `FeedbackInv`, which follows a projection whose revision still counts through its writes:
  it has read the verdict in force, after its first write the row obeys it, after its
  second the case does, and whoever writes to either from other data makes the
  candidate `overtaken`.
* **PortPoolProofs.** First the pool alone: what Release, blockPort and allocate leave
  of any pool, and that each keeps Partition (that `allocate` finds a smallest free
  port rests on the well-foundedness of the naturals). `IInv` adds to TypeOK that the factory
  has exactly the processors that are not destroyed, that what a key creates is in the
  factory or nothing is, that a release to come belongs to a destroyed processor, and the two
  properties. One lemma serves all the ways a round of `create()` can end, another all
  removals. From it: AllocationsAreOwned, KeepsPortUnlessLate and, as a port is allocated to
  one key, DistinctPortsUnlessLate.
* **RegistryLockProofs.** `IInv == TypeOK /\ (~stolen => Guarded)`: until a theft one process
  is inside, its directory is fresh and names it from the write of owner.json on,
  and what it has read is still what the file holds. From it:
  SerializedUnlessStolen, RemovesOwnLock. SerializedUnlessFailure needs `Attended`: without a
  crash or a failing operation a lock directory always has a process inside that
  will remove it, hence never goes stale, and nothing is stolen.

Every safety invariant, action property and refinement that a passing run checks is proved.
Only model-checked: the eight liveness properties, for fairness and ENABLED are beyond the
prover. For four of them the safety part of the argument is proved, that whatever
waits has something under way to wait for: NobodyWaitsInVain for EveryQuerySettles and for
DeletionEnds and RestartEnds, QueueMoves for EveryCallSettles. The three `violation` runs
have nothing to prove.

## 6. What is not modelled

Within the modelled components: processors over external RPC, the contents of
results, metadata columns, log lines and statistics; the lengths of delays; the
asynchronous lock with `assertHeld`. In PortPool: `releaseByPort`, which nobody
calls, and `resetPortPool` at shutdown. In CaseOutbox: priorities, which nobody sets, a
payload that does not parse, sidecar notes and their renewals, maintainer
promotion, the operations without a caller (`releaseFencedLease`, `assertLeaseActive`); the
cases of one rederive are written in one step, and the effective rows of a candidate's feedback are
one verdict. LeaseStore and TraceProcessors are not
composed yet, so what a mark refused by the store does to a restart is a choice
in the one and a free call in the other. The other components are listed with
their reasons in `PROJECT.json`; those that only compute (skills, reports, verifiers)
or only wait for external services have no interleavings worth a model.

Two properties hold with an exception that the code leaves open, and name it instead of
excluding the behaviour.

* AppliedFeedbackIsInForce, `overtaken`. Nothing orders the projections of one target in
  two processes: a run that has read the older verdict may write row or case after a newer
  verdict was applied and marked, and the target stays clean. A worker that saves its
  case after feedback rejected the row does the same to the case, and so does a rederive.
  While a target is dirty nothing is claimed: after a `case_library_busy` the row
  is rejected and its case visible until the next append or the migration CLI projects the
  dirty targets again.
* CancelledRestartLeavesNothing, `revived`. The cancellation destroys what is being created under
  the key. If that creation is another caller's and fails for its port only
  afterwards, the factory tries again, and the cancelled restart may end with that processor.

## 7. Plan

Done: the modules above. Next, in this order:

1. **LeasedProcessors**, which composes LeaseStore and TraceProcessors: an agent run
   acquires, ensures, runs and releases beside the sweep and DELETE's check for
   active leases; a mark that the store refuses; a shared lease failed by one of
   its requests; a holder that is never heartbeated. Where the store only matters
   by its promise, LeaseContract takes its place.
2. **RunStream**: run states, the numbered events of a session and their replay over
   SSE after a reconnect; the run that a restart finds unfinished.
3. **Proposals**: the saga of self-evolution; its scoped jobs implement FencedOutbox too.
4. Smaller ones: provider generations, the batch runner, the circuit breaker, the
   asynchronous registry lock.
5. Proofs: the safety of 1, no lost or doubled event of 2; the safety part of the liveness of
   LeaseStore and CaseOutbox.
