----------------------------- MODULE LeaseStore -----------------------------
(***************************************************************************)
(* The trace-processor lease store, src/backend/src/services/              *)
(* traceProcessorLeaseStore.ts, with the sweep that its supervisor runs    *)
(* every 30 seconds (traceProcessorLeaseSupervisor.ts).                    *)
(*                                                                         *)
(* A lease row gives one trace of one tenant and workspace a processor,    *)
(* which is shared or isolated; a holder row says who needs it (a browser  *)
(* window, an agent run, a report...).  A holder is kept alive by          *)
(* heartbeats and the lease by its holders.  Rows live in SQLite: only the *)
(* two acquire operations are transactions, every other operation is a     *)
(* sequence of statements that a crash of the backend can cut short.       *)
(*                                                                         *)
(* Abstractions.  A trace stands for a (tenant, workspace, trace) key.     *)
(* expires_at columns are kept as the time that is left before them, so    *)
(* that "expires_at <= now" is "nothing is left" and Tick is the passage   *)
(* of time.  window ids, metadata, rss_bytes and heartbeat_at are left     *)
(* out: heartbeat_at only orders the candidates of findAcquirable-         *)
(* TraceLease, and OneSharedLease shows that there is at most one.         *)
(***************************************************************************)
EXTENDS Naturals, FiniteSets

CONSTANTS
  Leases,     \* ids of lease rows; an id is used once (uuidv4)
  Traces,     \* the (tenant, workspace, trace) keys
  NoTrace,    \* the trace of a lease row that does not exist yet
  Holders,    \* (holder_type, holder_ref) pairs
  Policies,   \* the TTL pairs resolveHolderTtlPolicy returns
  MaxCrashes  \* bound on the backend crashes that cut an operation short

ASSUME LeaseAssumption ==
  /\ NoTrace \notin Traces
  /\ Policies \subseteq [heartbeat : Nat \ {0}, idle : Nat \ {0}]
  /\ \A p \in Policies : p.heartbeat <= p.idle
  /\ MaxCrashes \in Nat

VARIABLES
  state,       \* state of each lease row, "absent" before it is inserted
  mode,        \* its mode
  trace,       \* the trace it leases
  leaseLeft,   \* time left before its expires_at
  holders,     \* its holder rows
  holderLeft,  \* time left before the expires_at of a holder row
  crashes      \* how often the backend crashed inside an operation

vars == <<state, mode, trace, leaseLeft, holders, holderLeft, crashes>>

-----------------------------------------------------------------------------
(* States and the transition table.                                        *)
(*                                                                         *)
(* Here and below, a definition that no action uses and that stands just   *)
(* before one of similar name is that definition with a plausible bug: the *)
(* properties are tested by exchanging the two (README, "Mutants").        *)

LiveStates == {"pending", "starting", "ready", "idle", "active", "draining",
               "crashed", "restarting"}
Terminal == {"released", "failed"}
AcquirableHealthy == LiveStates \ {"draining", "crashed", "restarting"}
Acquirable == LiveStates \ {"draining"}
Serving == {"ready", "idle", "active"}
Modes == {"shared", "isolated"}

TypeOK ==
  /\ state \in [Leases -> LiveStates \cup Terminal \cup {"absent"}]
  /\ mode \in [Leases -> Modes]
  /\ trace \in [Leases -> Traces \cup {NoTrace}]
  /\ leaseLeft \in [Leases -> Nat]
  /\ holders \in [Leases -> SUBSET Holders]
  /\ holderLeft \in [Leases -> [Holders -> Nat]]
  /\ crashes \in 0..MaxCrashes

AllowedTransitions(from) ==
  CASE from = "pending"    -> {"starting", "draining", "released", "failed"}
    [] from = "starting"   -> {"ready", "draining", "crashed", "failed"}
    [] from = "ready"      -> {"idle", "active", "draining", "crashed", "failed"}
    [] from = "idle"       -> {"active", "draining", "released", "crashed", "failed"}
    [] from = "active"     -> {"idle", "draining", "crashed", "failed"}
    [] from = "draining"   -> {"released", "failed"}
    [] from = "crashed"    -> {"restarting", "draining", "failed"}
    [] from = "restarting" -> {"ready", "draining", "failed"}
    [] OTHER               -> {}

ValidTransition(from, to) == from = to \/ to \in AllowedTransitions(from)

Live(l) == state[l] \in LiveStates
LeasesOf(t) == {l \in Leases : state[l] # "absent" /\ trace[l] = t}
Longer(a, b) == IF a < b THEN b ELSE a
Sooner(n) == IF n = 0 THEN 0 ELSE n - 1

RefreshedDrained(s, hs) ==
  IF s = "draining" /\ hs = {} THEN "drained"
  ELSE IF s \in Serving THEN (IF hs = {} THEN "idle" ELSE "active")
  ELSE s

(* refreshLeaseActivityState: the state a row gets from its holder count.  *)
Refreshed(s, hs) ==
  IF s = "draining" /\ hs = {} THEN "released"
  ELSE IF s \in Serving THEN (IF hs = {} THEN "idle" ELSE "active")
  ELSE s

-----------------------------------------------------------------------------
Init ==
  /\ state = [l \in Leases |-> "absent"]
  /\ mode = [l \in Leases |-> "shared"]
  /\ trace = [l \in Leases |-> NoTrace]
  /\ leaseLeft = [l \in Leases |-> 0]
  /\ holders = [l \in Leases |-> {}]
  /\ holderLeft = [l \in Leases |-> [h \in Holders |-> 0]]
  /\ crashes = 0

(* A crash of the backend cuts the operation of this step short.           *)
Cut == crashes < MaxCrashes /\ crashes' = crashes + 1

(* The holder row of h is inserted or renewed (upsertHolder).              *)
RenewHolder(l, h, p) ==
  /\ holders' = [holders EXCEPT ![l] = @ \cup {h}]
  /\ holderLeft' = [holderLeft EXCEPT ![l][h] = p.heartbeat]

ExtendLeaseOnce(l, p) ==
  leaseLeft' = [leaseLeft EXCEPT ![l] = IF @ = 0 THEN p.idle ELSE @]

ExtendLease(l, p) ==
  leaseLeft' = [leaseLeft EXCEPT ![l] = Longer(@, p.idle)]

DropAllHolders(l, h) ==
  /\ holders' = [holders EXCEPT ![l] = {}]
  /\ holderLeft' = [holderLeft EXCEPT ![l][h] = 0]

DropHolder(l, h) ==
  /\ holders' = [holders EXCEPT ![l] = @ \ {h}]
  /\ holderLeft' = [holderLeft EXCEPT ![l][h] = 0]

(* acquireHolder, the shared lease that the trace already has.             *)
AcquireShared(t, h, p) ==
  /\ \E l \in LeasesOf(t) :
       /\ mode[l] = "shared"
       /\ state[l] \in Acquirable
       /\ RenewHolder(l, h, p)
       /\ ExtendLease(l, p)
       /\ state' = [state EXCEPT ![l] = Refreshed(@, holders'[l])]
  /\ UNCHANGED <<mode, trace, crashes>>

(* acquireHolder, a new row: always for an isolated lease, for a shared    *)
(* one when the trace has none to acquire.                                 *)
AcquireNew(t, m, h, p) ==
  /\ m = "shared" =>
       ~\E l \in LeasesOf(t) : mode[l] = "shared" /\ state[l] \in Acquirable
  /\ \E l \in Leases :
       /\ state[l] = "absent"
       /\ state' = [state EXCEPT ![l] = "pending"]
       /\ mode' = [mode EXCEPT ![l] = m]
       /\ trace' = [trace EXCEPT ![l] = t]
       /\ RenewHolder(l, h, p)
       /\ ExtendLease(l, p)
  /\ UNCHANGED crashes

NotDraining(t) == ~\E l \in LeasesOf(t) : state[l] = "draining"

AcquireHolder(t, m, h, p) ==
  /\ NotDraining(t)
  /\ \/ m = "shared" /\ AcquireShared(t, h, p)
     \/ AcquireNew(t, m, h, p)

AcquireHolderForLease(l, h, p) ==
  /\ state[l] \in Acquirable
  /\ RenewHolder(l, h, p)
  /\ ExtendLease(l, p)
  /\ state' = [state EXCEPT ![l] = Refreshed(@, holders'[l])]
  /\ UNCHANGED <<mode, trace, crashes>>

(* heartbeatHolder asks for the holder row, never for the lease's state.   *)
HeartbeatHolder(l, h, p) ==
  /\ state[l] # "absent"
  /\ h \in holders[l]
  /\ RenewHolder(l, h, p)
  /\ ExtendLease(l, p)
  /\ state' = [state EXCEPT ![l] = Refreshed(@, holders'[l])]
  /\ UNCHANGED <<mode, trace, crashes>>

(* ... cut after its first or its second statement.                        *)
HeartbeatHolderCut(l, h, p) ==
  /\ state[l] # "absent"
  /\ h \in holders[l]
  /\ RenewHolder(l, h, p)
  /\ ExtendLease(l, p) \/ UNCHANGED leaseLeft
  /\ Cut
  /\ UNCHANGED <<state, mode, trace>>

(* releaseHolder: a missing holder row is no error, the state is refreshed *)
(* all the same.                                                           *)
ReleaseHolder(l, h) ==
  /\ state[l] # "absent"
  /\ DropHolder(l, h)
  /\ state' = [state EXCEPT ![l] = Refreshed(@, holders'[l])]
  /\ UNCHANGED <<mode, trace, leaseLeft, crashes>>

ReleaseHolderCut(l, h) ==
  /\ state[l] # "absent"
  /\ DropHolder(l, h)
  /\ Cut
  /\ UNCHANGED <<state, mode, trace, leaseLeft>>

(* transition: markStarting, markCrashed, markRestarting, markFailed.      *)
Mark(l, s) ==
  /\ state[l] # "absent"
  /\ ValidTransition(state[l], s)
  /\ state' = [state EXCEPT ![l] = s]
  /\ UNCHANGED <<mode, trace, leaseLeft, holders, holderLeft>>

MarkStarting(l) == Mark(l, "starting") /\ UNCHANGED crashes
MarkCrashed(l) == Mark(l, "crashed") /\ UNCHANGED crashes
MarkRestarting(l) == Mark(l, "restarting") /\ UNCHANGED crashes
MarkFailed(l) == Mark(l, "failed") /\ UNCHANGED crashes

(* markReady and beginDraining: the transition, then a refresh.            *)
MarkAndRefresh(l, s) ==
  /\ state[l] # "absent"
  /\ ValidTransition(state[l], s)
  /\ state' = [state EXCEPT ![l] = Refreshed(s, holders[l])]
  /\ UNCHANGED <<mode, trace, leaseLeft, holders, holderLeft, crashes>>

MarkReady(l) == MarkAndRefresh(l, "ready")
BeginDraining(l) == MarkAndRefresh(l, "draining")
MarkReadyCut(l) == Mark(l, "ready") /\ Cut
BeginDrainingCut(l) == Mark(l, "draining") /\ Cut

-----------------------------------------------------------------------------
(* sweepExpired: expired holders go, an active lease that lost its last    *)
(* one becomes idle, then a lease without holders is released if it is     *)
(* isolated or expired itself, whatever its live state.                    *)

Unexpired(l) == {h \in holders[l] : holderLeft[l][h] > 0}

ReleasableUnlessDraining ==
  {l \in Leases : /\ Live(l) /\ state[l] # "draining"
                  /\ Unexpired(l) = {}
                  /\ mode[l] = "isolated" \/ leaseLeft[l] = 0}

ReleasableServing ==
  {l \in Leases : /\ state[l] \in Serving
                  /\ Unexpired(l) = {}
                  /\ mode[l] = "isolated" \/ leaseLeft[l] = 0}

Releasable ==
  {l \in Leases : /\ Live(l)
                  /\ Unexpired(l) = {}
                  /\ mode[l] = "isolated" \/ leaseLeft[l] = 0}

NotDemoted(l) == state[l]

Demoted(l) ==
  IF state[l] = "active" /\ Unexpired(l) = {} THEN "idle" ELSE state[l]

(* The rows after the first delete, the demotions and the release of R.    *)
SweepWrites(R) ==
  /\ holders' = [l \in Leases |-> Unexpired(l)]
  /\ state' = [l \in Leases |-> IF l \in R THEN "released" ELSE Demoted(l)]
  /\ UNCHANGED <<mode, trace, leaseLeft, holderLeft>>

SweepExpired == SweepWrites(Releasable) /\ UNCHANGED crashes

SweepCutEarly ==
  /\ holders' = [l \in Leases |-> Unexpired(l)]
  /\ Cut
  /\ UNCHANGED <<state, mode, trace, leaseLeft, holderLeft>>

SweepCutLate == \E R \in SUBSET Releasable : SweepWrites(R) /\ Cut

Tick ==
  /\ leaseLeft' = [l \in Leases |-> Sooner(leaseLeft[l])]
  /\ holderLeft' = [l \in Leases |-> [h \in Holders |-> Sooner(holderLeft[l][h])]]
  /\ UNCHANGED <<state, mode, trace, holders, crashes>>

-----------------------------------------------------------------------------
Supervision == SweepExpired \/ Tick

HolderCall ==
  \E h \in Holders, p \in Policies :
    \/ \E t \in Traces, m \in Modes : AcquireHolder(t, m, h, p)
    \/ \E l \in Leases :
         \/ AcquireHolderForLease(l, h, p)
         \/ HeartbeatHolder(l, h, p)
         \/ HeartbeatHolderCut(l, h, p)

LeaseCall ==
  \E l \in Leases :
    \/ \E h \in Holders : ReleaseHolder(l, h) \/ ReleaseHolderCut(l, h)
    \/ MarkStarting(l) \/ MarkCrashed(l) \/ MarkRestarting(l) \/ MarkFailed(l)
    \/ MarkReady(l) \/ MarkReadyCut(l)
    \/ BeginDraining(l) \/ BeginDrainingCut(l)

Next == HolderCall \/ LeaseCall \/ Supervision \/ SweepCutEarly \/ SweepCutLate

Spec == Init /\ [][Next]_vars

(* The supervisor's interval timer and the clock never stop; nothing       *)
(* obliges a client to call.                                               *)
FairSpec == Spec /\ WF_vars(SweepExpired) /\ WF_vars(Tick)

-----------------------------------------------------------------------------
(* A trace has at most one live shared lease: two acquirers of a trace in  *)
(* shared mode can never be given two processors.                          *)
OneSharedLease ==
  \A l, k \in Leases :
    /\ Live(l) /\ Live(k)
    /\ mode[l] = "shared" /\ mode[k] = "shared"
    /\ trace[l] = trace[k]
    => l = k

(* A released lease has no holder left, crashes included: whoever holds a  *)
(* lease still has its row in a state that can serve or fail it.           *)
ReleasedHasNoHolder ==
  \A l \in Leases : state[l] = "released" => holders[l] = {}

(* Outside a crash, active and idle say exactly whether there are holders  *)
(* and 'ready' is never the state at rest (it is always refreshed).        *)
ActivityMatchesHolders ==
  crashes = 0 =>
    \A l \in Leases :
      /\ state[l] # "ready"
      /\ state[l] = "active" => holders[l] # {}
      /\ state[l] = "idle" => holders[l] = {}

(* Outside a crash, a lease never expires before a holder of it does: the  *)
(* lease's TTL is extended by the same call that renews the holder.        *)
LeaseOutlivesHolder ==
  crashes = 0 =>
    \A l \in Leases : \A h \in holders[l] : holderLeft[l][h] <= leaseLeft[l]

(* While a lease drains no step gives it a holder it did not have, and the *)
(* only way on is to be released or failed.                                *)
DrainStep ==
  \A l \in Leases : state[l] = "draining" =>
    /\ holders'[l] \subseteq holders[l]
    /\ state'[l] \in {"draining"} \cup Terminal

DrainOnlyShrinks == [][DrainStep]_vars

(* A terminal row never changes again, and a lease starts serving only     *)
(* from starting or restarting: no operation resurrects a crashed one.     *)
LifeStep ==
  \A l \in Leases :
    /\ state[l] \in Terminal => state'[l] = state[l]
    /\ state'[l] \in Serving /\ state[l] \notin Serving =>
         state[l] \in {"starting", "restarting"}

NoResurrection == [][LifeStep]_vars

(* A lease is only released when each of its holders is gone of its own    *)
(* accord: it had expired, or it is the one released by this very step.    *)
ReleaseStep ==
  \A l \in Leases : Live(l) /\ state'[l] = "released" =>
    \/ Unexpired(l) = {}
    \/ \E h \in Holders : holders[l] = {h} /\ ReleaseHolder(l, h)

ReleaseEvictsNobody == [][ReleaseStep]_vars

(* A drained lease whose holders are gone does not block its trace for     *)
(* ever (acquireHolder refuses a trace that has a draining lease).         *)
DrainTerminates ==
  \A l \in Leases :
    (state[l] = "draining" /\ holders[l] = {}) ~> state[l] \in Terminal

(* Once every client has stopped calling, clock and supervisor retire each *)
(* lease from whatever state it was left in, starting, crashed and         *)
(* restarting included.                                                    *)
AbandonedLeasesRetire ==
  <>[][Supervision]_vars => <>[](\A l \in Leases : ~Live(l))

(* The phase of the contract that a state of a row stands for.             *)
Phase(s) ==
  CASE s = "absent" -> "unused"
    [] s \in Terminal \cup {"draining"} -> s
    [] OTHER -> "open"

Contract == INSTANCE LeaseContract WITH
  phase <- [l \in Leases |-> Phase(state[l])],
  members <- holders,
  late <- [l \in Leases |-> holders[l] \ Unexpired(l)]

(* The store keeps its promise to holders: through all interleavings of    *)
(* calls, sweeps and crashes, nobody who holds a lease and is in time      *)
(* loses it but by its own release, and the health of the processor        *)
(* never takes a drained or released lease back into service.              *)
ImplementsContract == Contract!Spec

=============================================================================
