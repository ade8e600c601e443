--------------------------- MODULE ToolConcurrency ---------------------------
(***************************************************************************)
(* FairRuntimeToolConcurrencyCoordinator of                                *)
(* src/backend/src/agentRuntime/runtimeToolConcurrency.ts: the scheduler   *)
(* that the tools of one agent request share.  Read-only tools may overlap *)
(* up to a cap, every other tool runs alone, and the queue is served in    *)
(* order.                                                                  *)
(*                                                                         *)
(* Everything runs on one event loop, so a step is what happens between    *)
(* two turns of it: a body starts in a later microtask than the start()    *)
(* that took its slot, and the promise of a call is settled (its caller    *)
(* goes on and may call again) before the slot is given back.              *)
(*                                                                         *)
(* The async context of a call is kept as the set of calls whose execution *)
(* tokens it carries.  start() takes it from whoever runs drain(): the     *)
(* caller, the code that aborts a signal, or the start() of the call that  *)
(* gives its slot back.                                                    *)
(***************************************************************************)
EXTENDS Integers, SequencesExt

CONSTANTS
  Writers,  \* calls of tools whose policy is exclusive
  Reads,    \* calls of tools whose policy is commutative_read
  Callers,  \* calls whose bodies make calls, or abort their signals
  NoCall,   \* the caller of a call made outside of any tool body
  ReadCap   \* maxParallel of the reads

Calls == Writers \cup Reads

ASSUME CallAssumption ==
  /\ Writers \cap Reads = {}
  /\ Callers \subseteq Calls
  /\ NoCall \notin Calls
  /\ IsFiniteSet(Calls)
  /\ ReadCap \in Nat \ {0}

VARIABLES
  status,       \* where each call is
  caller,       \* the call whose body made this call
  context,      \* the calls whose tokens a started call inherited
  queue,        \* calls that wait for a slot
  activeReads,  \* number of slots that reads have
  activeWriter  \* whether a writer has the slot

vars == <<status, caller, context, queue, activeReads, activeWriter>>

Statuses == {"new", "queued", "scheduled", "running", "returned", "done",
             "aborted", "reentrant"}
Holding == {"scheduled", "running", "returned"}  \* has a slot
Active == {"scheduled", "running"}               \* its token is active

Holders(C) == {c \in C : status[c] \in Holding}

TypeOK ==
  /\ status \in [Calls -> Statuses]
  /\ caller \in [Calls -> Calls \cup {NoCall}]
  /\ context \in [Calls -> SUBSET Calls]
  /\ queue \in Seq(Calls)
  /\ activeReads \in Nat
  /\ activeWriter \in BOOLEAN

Init ==
  /\ status = [c \in Calls |-> "new"]
  /\ caller = [c \in Calls |-> NoCall]
  /\ context = [c \in Calls |-> {}]
  /\ queue = <<>>
  /\ activeReads = 0
  /\ activeWriter = FALSE

-----------------------------------------------------------------------------
(* drain(): the calls at the front of q that start one after the other.    *)

MayStartOverReads(q, i, reads) ==
  /\ \A j \in 1..(i - 1) : q[j] \in Reads
  /\ q[i] \in Reads => reads + (i - 1) < ReadCap

(* The i-th call of q starts, after the i - 1 before it did.               *)
MayStart(q, i, reads) ==
  /\ \A j \in 1..(i - 1) : q[j] \in Reads
  /\ IF q[i] \in Writers THEN reads + (i - 1) = 0 ELSE reads + (i - 1) < ReadCap

Admitted(q, reads, writer) ==
  IF writer THEN 0
  ELSE CHOOSE n \in 0..Len(q) :
         /\ \A i \in 1..n : MayStart(q, i, reads)
         /\ n < Len(q) => ~MayStart(q, n + 1, reads)

DrainPastWriters(q, reads, writer, st, ctx) ==
  LET S == IF writer THEN {}
           ELSE {q[i] : i \in {j \in DOMAIN q : q[j] \in Reads /\ reads + j <= ReadCap}}
  IN  /\ queue' = SelectSeq(q, LAMBDA c : c \notin S)
      /\ status' = [c \in Calls |-> IF c \in S THEN "scheduled" ELSE st[c]]
      /\ context' = [c \in Calls |-> IF c \in S THEN ctx ELSE context[c]]
      /\ activeReads' = reads + Cardinality(S)
      /\ activeWriter' = writer

(* drain() and start(), when the queue is q, the slots taken are reads and *)
(* writer, and the code that drains runs in the context ctx.               *)
Drain(q, reads, writer, st, ctx) ==
  LET n == Admitted(q, reads, writer)
      S == {q[i] : i \in 1..n}
  IN  /\ queue' = SubSeq(q, n + 1, Len(q))
      /\ status' = [c \in Calls |-> IF c \in S THEN "scheduled" ELSE st[c]]
      /\ context' = [c \in Calls |-> IF c \in S THEN ctx ELSE context[c]]
      /\ activeReads' = reads + Cardinality(S \cap Reads)
      /\ activeWriter' = (writer \/ S \cap Writers # {})

(* The context of code in (or detached from) the body of b.                *)
Context(b) == IF b = NoCall THEN {} ELSE context[b] \cup {b}
Began(b) == b # NoCall => status[b] \in {"running", "returned", "done"}

NeverReentrant(b) == FALSE
Reentrant(b) == \E t \in Context(b) : status[t] \in Active

(* run(): refused inside a body that still runs, else queued and drained.  *)
RunRefused(c, b) ==
  /\ status[c] = "new" /\ Began(b)
  /\ Reentrant(b)
  /\ status' = [status EXCEPT ![c] = "reentrant"]
  /\ UNCHANGED <<caller, context, queue, activeReads, activeWriter>>

Run(c, b) ==
  /\ status[c] = "new" /\ Began(b)
  /\ ~Reentrant(b)
  /\ caller' = [caller EXCEPT ![c] = b]
  /\ Drain(Append(queue, c), activeReads, activeWriter,
           [status EXCEPT ![c] = "queued"], Context(b))

(* The signal of c is aborted before the call ...                          *)
RunAborted(c, b) ==
  /\ status[c] = "new" /\ Began(b)
  /\ ~Reentrant(b)
  /\ status' = [status EXCEPT ![c] = "aborted"]
  /\ UNCHANGED <<caller, context, queue, activeReads, activeWriter>>

AbortWithoutDrain(c, b) ==
  /\ Began(b)
  /\ \E i \in 1..Len(queue) : queue[i] = c /\ queue' = RemoveAt(queue, i)
  /\ status' = [status EXCEPT ![c] = "aborted"]
  /\ UNCHANGED <<caller, context, activeReads, activeWriter>>

(* ... or while it is queued, by code in the body of b.  The listener of a *)
(* started call is gone.                                                   *)
Abort(c, b) ==
  /\ Began(b)
  /\ \E i \in 1..Len(queue) :
       /\ queue[i] = c
       /\ Drain(RemoveAt(queue, i), activeReads, activeWriter,
                [status EXCEPT ![c] = "aborted"], Context(b))
  /\ UNCHANGED caller

(* execute() begins in a later microtask.                                  *)
Execute(c) ==
  /\ status[c] = "scheduled"
  /\ status' = [status EXCEPT ![c] = "running"]
  /\ UNCHANGED <<caller, context, queue, activeReads, activeWriter>>

(* execute() settles, with a value or an error; it has awaited the calls   *)
(* it made.  The token is no longer active and the promise is settled.     *)
Return(c) ==
  /\ status[c] = "running"
  /\ \A d \in Calls : caller[d] = c => status[d] \notin {"queued"} \cup Active
  /\ status' = [status EXCEPT ![c] = "returned"]
  /\ UNCHANGED <<caller, context, queue, activeReads, activeWriter>>

ReleaseAlwaysARead(c) ==
  /\ status[c] = "returned"
  /\ Drain(queue, activeReads - 1,
           IF c \in Writers THEN FALSE ELSE activeWriter,
           [status EXCEPT ![c] = "done"], context[c])
  /\ UNCHANGED caller

(* The finally of start(): the slot is given back and the queue drained.   *)
Release(c) ==
  /\ status[c] = "returned"
  /\ Drain(queue,
           IF c \in Reads THEN activeReads - 1 ELSE activeReads,
           IF c \in Writers THEN FALSE ELSE activeWriter,
           [status EXCEPT ![c] = "done"], context[c])
  /\ UNCHANGED caller

Next ==
  \E c \in Calls :
    \/ \E b \in (Callers \ {c}) \cup {NoCall} :
         Run(c, b) \/ RunRefused(c, b) \/ RunAborted(c, b) \/ Abort(c, b)
    \/ Execute(c) \/ Return(c) \/ Release(c)

Spec == Init /\ [][Next]_vars

(* Microtasks run; a body that awaits nothing unsettled settles.  Nobody   *)
(* has to call or to abort.                                                *)
FairSpec ==
  Spec /\ \A c \in Calls : WF_vars(Execute(c)) /\ WF_vars(Return(c)) /\ WF_vars(Release(c))

-----------------------------------------------------------------------------
(* An exclusive tool runs alone, and no more reads overlap than the cap:   *)
(* what the coordinator is for.                                            *)
WriterAlone ==
  /\ \A w \in Holders(Writers) : Holders(Calls) = {w}
  /\ Cardinality(Holders(Reads)) <= ReadCap

(* The counters that admit calls are exactly the slots that calls have: a  *)
(* slot is neither lost nor given back twice, whatever settles or aborts.  *)
SlotsMatch ==
  /\ activeReads = Cardinality(Holders(Reads))
  /\ activeWriter = (Holders(Writers) # {})

(* No slot is idle while the call at the head of the queue could take it,  *)
(* in particular after a waiting writer in front of it was aborted.        *)
NoIdleSlot ==
  (~activeWriter /\ queue # <<>>) => ~MayStart(queue, 1, activeReads)

(* No call starts before one that was queued ahead of it: reads do not     *)
(* overtake a writer that waits for a slot.                                *)
FifoStep ==
  \A i, j \in 1..Len(queue) :
    i < j /\ status'[queue[j]] = "scheduled" => status'[queue[i]] # "queued"

NoOvertaking == [][FifoStep]_vars

(* While calls wait, a call has a slot, and it can give it back: a call    *)
(* from inside a body that runs is refused, so that the body that holds    *)
(* the slot never waits for a call that needs it.                          *)
QueueMoves ==
  /\ queue # <<>> => Holders(Calls) # {}
  /\ \A c, d \in Calls : status[c] \in Active => caller[d] # c

(* A call that was accepted settles, if bodies settle: no body waits for a *)
(* call that waits for the slot of the body.                               *)
EveryCallSettles ==
  \A c \in Calls : status[c] = "queued" ~> status[c] \in {"done", "aborted"}
=============================================================================
