------------------------------ MODULE PortPool ------------------------------
(***************************************************************************)
(* The ports of the trace_processor_shell processes: services/portPool.ts  *)
(* and the part of services/workingTraceProcessor.ts that allocates and    *)
(* releases them, which is the constructor and destroy() of a processor,   *)
(* create(), remove() and cleanup() of the factory, and the cleanup route. *)
(*                                                                         *)
(* A port is allocated to a key, not to a processor.  destroy() leaves a   *)
(* release by key behind, for when the process closes or a timer fires,    *)
(* and the key's next processor may be there before it.                    *)
(*                                                                         *)
(* Abstractions.  A step goes from one event of the loop to the next, with *)
(* the promise continuations in between.  A process may take any time to   *)
(* load its trace, listen and die; nobody but SIGTERM stops it, since      *)
(* proc.killed is already set when the timer would send SIGKILL.  Which    *)
(* processors are idle and whether one is admitted are choices.            *)
(* TraceProcessorService creates one processor of a key at a time.         *)
(***************************************************************************)
EXTENDS Naturals, FiniteSets

CONSTANTS
  Keys,
  NoKey,
  NumPorts,
  MaxProcessors,  \* bound on the processors ever constructed
  MaxOutside,     \* bound on the ports that other programs use at a time
  maxProcessors,  \* size at which the factory evicts
  maxAttempts     \* of one create()

Ports == 1 .. NumPorts
Procs == 1 .. MaxProcessors

ASSUME PortAssumption ==
  /\ NoKey \notin Keys
  /\ NumPorts \in Nat
  /\ MaxProcessors \in Nat
  /\ MaxOutside \in Nat
  /\ maxProcessors \in Nat \ {0}
  /\ maxAttempts \in Nat \ {0}

VARIABLES
  pool,      \* availablePorts, blockedPorts, allocations, portToTraceId
  factory,   \* processor of a key, 0 for none
  made,      \* processors constructed so far
  key,       \* processorKey and _httpPort of a processor
  httpPort,
  status,    \* of a processor; "starting" also before it is made
  process,   \* its process
  armed,     \* destroyed processors that have not released their port yet
  creating,  \* the processor that create() of a key initializes, 0 for none
  attempt,   \* and its attempt
  outside,   \* ports that other programs listen on
  late       \* whether a destroyed processor has taken a port from a key in use

procVars == <<key, httpPort, status, process>>
createVars == <<factory, made, creating, attempt>>
vars == <<pool, createVars, procVars, armed, outside, late>>

-----------------------------------------------------------------------------
(* The pool.                                                               *)

Pools == [available : SUBSET Ports, blocked : SUBSET Ports,
          allocation : [Keys -> Ports \cup {0}], holder : [Ports -> Keys \cup {NoKey}]]

(* A port is available, blocked or allocated, and the two maps agree.      *)
Partition(pl) ==
  /\ pl.available \cap pl.blocked = {}
  /\ \A k \in Keys :
       pl.allocation[k] # 0 =>
         /\ pl.allocation[k] \notin pl.available \cup pl.blocked
         /\ pl.holder[pl.allocation[k]] = k
  /\ \A q \in Ports :
       /\ pl.holder[q] # NoKey => pl.allocation[pl.holder[q]] = q
       /\ pl.holder[q] = NoKey => q \in pl.available \cup pl.blocked

(* A port that was blocked in the meantime does not become available.      *)
Release(pl, ks) ==
  [pl EXCEPT
     !.available = @ \cup ({pl.allocation[k] : k \in ks \cap Keys} \ ({0} \cup pl.blocked)),
     !.allocation = [k \in Keys |-> IF k \in ks THEN 0 ELSE @[k]],
     !.holder = [q \in Ports |-> IF @[q] \in ks THEN NoKey ELSE @[q]]]

BlockHeldPort(pl, q) ==
  [pl EXCEPT !.available = @ \ {q}, !.blocked = @ \cup {q}]

blockPort(pl, q) ==
  [Release(pl, {pl.holder[q]}) EXCEPT
     !.available = @ \ {q}, !.blocked = @ \cup {q}]

(* The first available port that the probe can bind; those before it that  *)
(* it cannot are blocked.  No allocation if there is none.                 *)
allocate(pl, k, inUse) ==
  LET free == pl.available \ inUse
      port == CHOOSE q \in free : \A r \in free : q <= r
      skipped == {q \in pl.available \cap inUse : \A r \in free : q < r}
      rest == [pl EXCEPT !.available = @ \ skipped, !.blocked = @ \cup skipped]
  IN  IF pl.allocation[k] # 0 THEN pl
      ELSE IF free = {} THEN rest
      ELSE [rest EXCEPT !.available = @ \ {port},
                        !.allocation = [@ EXCEPT ![k] = port],
                        !.holder = [@ EXCEPT ![port] = k]]

-----------------------------------------------------------------------------
Statuses == {"starting", "ready", "error", "destroyed"}
Processes == {"loading", "listening", "failed", "gone"}

TypeOK ==
  /\ pool \in Pools
  /\ Partition(pool)
  /\ factory \in [Keys -> Procs \cup {0}]
  /\ made \in 0 .. MaxProcessors
  /\ key \in [Procs -> Keys \cup {NoKey}]
  /\ httpPort \in [Procs -> Ports \cup {0}]
  /\ status \in [Procs -> Statuses]
  /\ process \in [Procs -> Processes]
  /\ armed \subseteq Procs
  /\ creating \in [Keys -> Procs \cup {0}]
  /\ attempt \in [Keys -> 0 .. maxAttempts]
  /\ outside \subseteq Ports
  /\ late \in BOOLEAN

Init ==
  /\ pool = [available |-> Ports, blocked |-> {},
             allocation |-> [k \in Keys |-> 0], holder |-> [q \in Ports |-> NoKey]]
  /\ factory = [k \in Keys |-> 0]
  /\ made = 0
  /\ key = [p \in Procs |-> NoKey]
  /\ httpPort = [p \in Procs |-> 0]
  /\ status = [p \in Procs |-> "starting"]
  /\ process = [p \in Procs |-> "loading"]
  /\ armed = {}
  /\ creating = [k \in Keys |-> 0]
  /\ attempt = [k \in Keys |-> 0]
  /\ outside = {}
  /\ late = FALSE

InUse == outside \cup {httpPort[p] : p \in {r \in 1 .. made : process[r] = "listening"}}

ReadyInFactory == {p \in {factory[k] : k \in Keys} \ {0} : status[p] = "ready"}
InFactory == {factory[k] : k \in Keys} \ {0}

(* destroy() of several processors.  The first one of a processor sends    *)
(* SIGTERM and leaves the release for later.                               *)
Destroy(ps) ==
  /\ status' = [p \in Procs |-> IF p \in ps THEN "destroyed" ELSE status[p]]
  /\ armed' = armed \cup {p \in ps : status[p] # "destroyed"}

-----------------------------------------------------------------------------
(* The factory.                                                            *)

(* create() gives up, or never had a process to begin with.                *)
GiveUp(k, pl, fac) ==
  /\ pool' = Release(pl, {k})
  /\ factory' = [fac EXCEPT ![k] = 0]
  /\ creating' = [creating EXCEPT ![k] = 0]
  /\ attempt' = [attempt EXCEPT ![k] = 0]
  /\ UNCHANGED <<made, key, httpPort>>

(* One round of create()'s loop up to its await.                           *)
Construct(k, pl, fac, n) ==
  LET al == allocate(pl, k, InUse)
      p == made + 1
  IN  \/ GiveUp(k, al, fac)
      \/ /\ al.allocation[k] # 0
         /\ p \in Procs
         /\ pool' = al
         /\ factory' = [fac EXCEPT ![k] = p]
         /\ made' = p
         /\ key' = [key EXCEPT ![p] = k]
         /\ httpPort' = [httpPort EXCEPT ![p] = al.allocation[k]]
         /\ creating' = [creating EXCEPT ![k] = p]
         /\ attempt' = [attempt EXCEPT ![k] = n]

(* While the factory is full, idle processors of other keys are destroyed. *)
Evicted(k) ==
  LET others == {factory[j] : j \in Keys \ {k}} \ {0}
  IN  {ps \in SUBSET others :
         ps = {} \/ Cardinality(ps) + maxProcessors <= Cardinality(others) + 1}

(* A processor that is not ready is removed first.  Without admission that *)
(* is all.                                                                 *)
create(k) ==
  /\ creating[k] = 0
  /\ factory[k] # 0 => status[factory[k]] # "ready"
  /\ \E ps \in Evicted(k) :
       LET removed == ps \cup ({factory[k]} \ {0})
           fac == [j \in Keys |-> IF factory[j] \in removed THEN 0 ELSE factory[j]]
       IN  /\ Destroy(removed)
           /\ \/ Construct(k, pool, fac, 1)
              \/ factory' = fac /\ UNCHANGED <<pool, made, key, httpPort, creating, attempt>>
  /\ UNCHANGED <<process, outside, late>>

Ready(p) ==
  /\ p = creating[key[p]]
  /\ status[p] = "starting"
  /\ process[p] = "listening"
  /\ status' = [status EXCEPT ![p] = "ready"]
  /\ creating' = [creating EXCEPT ![key[p]] = 0]
  /\ attempt' = [attempt EXCEPT ![key[p]] = 0]
  /\ UNCHANGED <<pool, factory, made, key, httpPort, process, armed, outside, late>>

(* initialize() and create() both destroy the processor; the second one    *)
(* has no process any more and releases the port at once.                  *)
InitializeFails(p) ==
  /\ p = creating[key[p]]
  /\ GiveUp(key[p], pool, factory)
  /\ Destroy({p})
  /\ UNCHANGED <<process, outside, late>>

(* The port that the report of p blocks may be another key's by now.       *)
HasProcessor(k) == \E p \in 1 .. made : key[p] = k /\ status[p] # "destroyed"

PortInUse(p) ==
  LET k == key[p]
      pl == Release(pool, {k})
      holder == pl.holder[httpPort[p]]
      fac == [factory EXCEPT ![k] = 0]
  IN  /\ p = creating[k]
      /\ process[p] = "failed"
      /\ Destroy({p})
      /\ late' = (late \/ (status[p] = "destroyed" /\ HasProcessor(holder)))
      /\ IF attempt[k] < maxAttempts
         THEN Construct(k, blockPort(pl, httpPort[p]), fac, attempt[k] + 1)
         ELSE GiveUp(k, blockPort(pl, httpPort[p]), fac)
      /\ UNCHANGED <<process, outside>>

remove(k) ==
  /\ factory[k] # 0
  /\ Destroy({factory[k]})
  /\ factory' = [factory EXCEPT ![k] = 0]
  /\ UNCHANGED <<pool, made, creating, attempt, key, httpPort, process, outside, late>>

(* POST /cleanup: every processor, then the allocations that are not of    *)
(* the same millisecond.                                                   *)
cleanup ==
  /\ Destroy(InFactory)
  /\ factory' = [k \in Keys |-> IF factory[k] \in InFactory THEN 0 ELSE factory[k]]
  /\ \E stale \in SUBSET Keys : pool' = Release(pool, stale)
  /\ UNCHANGED <<made, creating, attempt, key, httpPort, process, outside, late>>

-----------------------------------------------------------------------------
(* The processes, the timers and other programs.                           *)

(* A process listens once it has loaded its trace.                         *)
Listen(p) ==
  /\ p \in 1 .. made
  /\ process[p] = "loading"
  /\ process' = [process EXCEPT ![p] =
       IF httpPort[p] \in InUse THEN "failed" ELSE "listening"]
  /\ UNCHANGED <<pool, createVars, key, httpPort, status, armed, outside, late>>

(* releasePortOnce.                                                        *)
LateRelease(p) ==
  /\ armed' = armed \ {p}
  /\ IF p \in armed
     THEN /\ pool' = Release(pool, {key[p]})
          /\ late' = (late \/ HasProcessor(key[p]))
     ELSE UNCHANGED <<pool, late>>

Close(p) ==
  /\ p \in 1 .. made
  /\ process[p] # "gone"
  /\ process' = [process EXCEPT ![p] = "gone"]
  /\ status' = [status EXCEPT ![p] = IF @ = "destroyed" THEN @ ELSE "error"]
  /\ LateRelease(p)
  /\ UNCHANGED <<createVars, key, httpPort, outside>>

KillTimerKeepsPort(p) ==
  /\ p \in armed
  /\ armed' = armed \ {p}
  /\ UNCHANGED <<pool, createVars, procVars, outside, late>>

KillTimer(p) ==
  /\ p \in armed
  /\ LateRelease(p)
  /\ UNCHANGED <<createVars, procVars, outside>>

OutsideListens(q) ==
  /\ q \notin InUse
  /\ Cardinality(outside) < MaxOutside
  /\ outside' = outside \cup {q}
  /\ UNCHANGED <<pool, createVars, procVars, armed, late>>

OutsideStops(q) ==
  /\ q \in outside
  /\ outside' = outside \ {q}
  /\ UNCHANGED <<pool, createVars, procVars, armed, late>>

Next ==
  \/ \E k \in Keys : create(k) \/ remove(k)
  \/ cleanup
  \/ \E p \in 1 .. made :
       \/ Ready(p) \/ InitializeFails(p) \/ PortInUse(p)
       \/ Listen(p) \/ Close(p) \/ KillTimer(p)
  \/ \E q \in Ports : OutsideListens(q) \/ OutsideStops(q)

Spec == Init /\ [][Next]_vars

-----------------------------------------------------------------------------
(* Properties.                                                             *)

(* No port leaks: whatever fails, crashes or is cleaned up on the way, a   *)
(* port is allocated to a key only while the factory has its processor or  *)
(* a destroyed one has its release to come.                                *)
AllocationsAreOwned ==
  \A k \in Keys :
    pool.allocation[k] # 0 => factory[k] # 0 \/ \E p \in armed : key[p] = k

(* A processor in use keeps the allocation of its port, and with it no     *)
(* other key has that port, until a destroyed processor takes it away: by  *)
(* its release after the key's next processor was made, or by its report   *)
(* that the port is in use.                                                *)
KeepsPortUnlessLate ==
  ~late => \A k \in Keys :
             factory[k] # 0 => pool.allocation[k] = httpPort[factory[k]]

(* So until then the processors of two traces never share a port: a query  *)
(* sent to the port of one does not reach the trace of another.            *)
DistinctPortsUnlessLate ==
  ~late => \A j, k \in Keys :
             j # k /\ factory[j] # 0 /\ factory[k] # 0 =>
               httpPort[factory[j]] # httpPort[factory[k]]

=============================================================================
