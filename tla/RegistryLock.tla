---------------------------- MODULE RegistryLock ----------------------------
(***************************************************************************)
(* withFilesystemRegistryLock of                                           *)
(* src/backend/src/services/filesystemRegistryLock.ts: the directory lock  *)
(* under which backend processes update a registry file that they share    *)
(* (codebaseRegistry.ts, localSecretStore.ts, ragStore.ts).                *)
(*                                                                         *)
(* A step of a process is one system call on the lock path or on the file; *)
(* between two of them another process may take any number.  A process may *)
(* crash anywhere and start again; what it left on disk stays.             *)
(*                                                                         *)
(* Abstractions.  The lock directory goes stale (mtime older than 60 s)    *)
(* only while no process is inside the lock: every operation is shorter    *)
(* than that.  The removal of a directory is one step.  The registry is    *)
(* kept as how many updates of each process it holds.                      *)
(***************************************************************************)
EXTENDS Naturals

CONSTANTS
  Procs,       \* backend processes
  NoProc,      \* the owner of a lock directory without owner.json
  MaxUpdates,  \* bound on the updates that a process makes
  MaxFailures  \* bound on crashes and on operations that throw

ASSUME ProcAssumption ==
  NoProc \notin Procs /\ MaxUpdates \in Nat /\ MaxFailures \in Nat

VARIABLES
  pc,        \* the next system call of each process
  attempt,   \* its attempt to take the lock, of two
  dir,       \* whether the lock directory exists
  owner,     \* the process named in its owner.json
  stale,     \* whether its mtime is older than the limit
  registry,  \* how many updates of each process the file holds
  snapshot,  \* what a process read from the file
  updates,   \* how many updates of each process were persisted
  failures,  \* crashes and throwing operations so far
  stolen     \* whether a process ever renamed a lock that was not stale

lockVars == <<dir, owner, stale, stolen>>
fileVars == <<registry, snapshot, updates>>
vars == <<pc, attempt, lockVars, fileVars, failures>>

Inside == {"write", "undo", "load", "persist", "check", "remove"}
Trying == {"mkdir", "stat", "rename"}
Counts == [Procs -> Nat]

TypeOK ==
  /\ pc \in [Procs -> Inside \cup Trying \cup {"idle"}]
  /\ attempt \in [Procs -> 0..1]
  /\ dir \in BOOLEAN
  /\ owner \in Procs \cup {NoProc}
  /\ stale \in BOOLEAN
  /\ registry \in Counts
  /\ snapshot \in [Procs -> Counts]
  /\ updates \in Counts
  /\ failures \in 0..MaxFailures
  /\ stolen \in BOOLEAN

Init ==
  /\ pc = [p \in Procs |-> "idle"]
  /\ attempt = [p \in Procs |-> 0]
  /\ dir = FALSE
  /\ owner = NoProc
  /\ stale = FALSE
  /\ registry = [p \in Procs |-> 0]
  /\ snapshot = [p \in Procs |-> registry]
  /\ updates = [p \in Procs |-> 0]
  /\ failures = 0
  /\ stolen = FALSE

Goto(p, next) == pc' = [pc EXCEPT ![p] = next]

(* The lock path no longer names a directory.                              *)
Unlocked == dir' = FALSE /\ owner' = NoProc /\ stale' = FALSE

RetryUnbounded(p) ==
  Goto(p, "mkdir") /\ attempt' = [attempt EXCEPT ![p] = @ + 1]

(* The loop of acquireFilesystemLock goes round once; after that the lock  *)
(* is busy and the operation fails.                                        *)
Retry(p) ==
  IF attempt[p] = 0
  THEN Goto(p, "mkdir") /\ attempt' = [attempt EXCEPT ![p] = 1]
  ELSE Goto(p, "idle") /\ UNCHANGED attempt

Busy(p) == Goto(p, "idle") /\ UNCHANGED attempt

-----------------------------------------------------------------------------
Begin(p) ==
  /\ pc[p] = "idle" /\ updates[p] < MaxUpdates
  /\ Goto(p, "mkdir")
  /\ attempt' = [attempt EXCEPT ![p] = 0]
  /\ UNCHANGED <<lockVars, fileVars, failures>>

MkdirRecursive(p) ==
  /\ pc[p] = "mkdir"
  /\ dir' = TRUE
  /\ Goto(p, "write")
  /\ UNCHANGED <<attempt, owner, stale, stolen, fileVars, failures>>

Mkdir(p) ==
  /\ pc[p] = "mkdir"
  /\ \/ /\ ~dir
        /\ dir' = TRUE /\ owner' = NoProc /\ stale' = FALSE
        /\ Goto(p, "write")
        /\ UNCHANGED stolen
     \/ dir /\ Goto(p, "stat") /\ UNCHANGED lockVars
  /\ UNCHANGED <<attempt, fileVars, failures>>

(* owner.json is written with flag wx: it must not exist, its directory    *)
(* must.                                                                   *)
WriteOwner(p) ==
  /\ pc[p] = "write"
  /\ \/ dir /\ owner = NoProc /\ owner' = p /\ Goto(p, "load")
     \/ (~dir \/ owner # NoProc) /\ Goto(p, "undo") /\ UNCHANGED owner
  /\ UNCHANGED <<attempt, dir, stale, stolen, fileVars, failures>>

(* The failed writer removes what is at the lock path and gives up.        *)
Undo(p) ==
  /\ pc[p] = "undo"
  /\ Unlocked
  /\ Busy(p)
  /\ UNCHANGED <<stolen, fileVars, failures>>

StatNeverStale(p) ==
  /\ pc[p] = "stat"
  /\ \/ ~dir /\ Retry(p)
     \/ dir /\ Busy(p)
  /\ UNCHANGED <<lockVars, fileVars, failures>>

Stat(p) ==
  /\ pc[p] = "stat"
  /\ \/ ~dir /\ Retry(p)
     \/ dir /\ ~stale /\ Busy(p)
     \/ dir /\ stale /\ Goto(p, "rename") /\ UNCHANGED attempt
  /\ UNCHANGED <<lockVars, fileVars, failures>>

(* The lock is moved away, whatever is at its path by now.                 *)
Rename(p) ==
  /\ pc[p] = "rename"
  /\ \/ ~dir /\ Busy(p) /\ UNCHANGED lockVars
     \/ /\ dir
        /\ Unlocked
        /\ stolen' = (stolen \/ ~stale)
        /\ Retry(p)
  /\ UNCHANGED <<fileVars, failures>>

(* The operation: the file is read, changed and written back.              *)
Load(p) ==
  /\ pc[p] = "load"
  /\ snapshot' = [snapshot EXCEPT ![p] = registry]
  /\ Goto(p, "persist")
  /\ UNCHANGED <<attempt, lockVars, registry, updates, failures>>

Persist(p) ==
  /\ pc[p] = "persist"
  /\ registry' = [snapshot[p] EXCEPT ![p] = @ + 1]
  /\ updates' = [updates EXCEPT ![p] = @ + 1]
  /\ Goto(p, "check")
  /\ UNCHANGED <<attempt, lockVars, snapshot, failures>>

(* The operation may throw before it has written; finally releases.        *)
OperationThrows(p) ==
  /\ pc[p] \in {"load", "persist"} /\ failures < MaxFailures
  /\ Goto(p, "check")
  /\ failures' = failures + 1
  /\ UNCHANGED <<attempt, lockVars, fileVars>>

(* release(): the directory is removed if owner.json still names us.       *)
Release(p) ==
  /\ pc[p] = "check"
  /\ IF owner = p THEN Goto(p, "remove") ELSE Goto(p, "idle")
  /\ UNCHANGED <<attempt, lockVars, fileVars, failures>>

Remove(p) ==
  /\ pc[p] = "remove"
  /\ Unlocked
  /\ Goto(p, "idle")
  /\ UNCHANGED <<attempt, stolen, fileVars, failures>>

Crash(p) ==
  /\ pc[p] # "idle" /\ failures < MaxFailures
  /\ Goto(p, "idle")
  /\ failures' = failures + 1
  /\ UNCHANGED <<attempt, lockVars, fileVars>>

(* Time passes while a lock that nobody is inside lies around.             *)
GrowStale ==
  /\ dir /\ ~stale
  /\ \A p \in Procs : pc[p] \notin Inside
  /\ stale' = TRUE
  /\ UNCHANGED <<pc, attempt, dir, owner, stolen, fileVars, failures>>

Step(p) ==
  \/ Mkdir(p) \/ WriteOwner(p) \/ Undo(p) \/ Stat(p) \/ Rename(p)
  \/ Load(p) \/ Persist(p) \/ OperationThrows(p) \/ Release(p) \/ Remove(p)

Next == (\E p \in Procs : Begin(p) \/ Step(p) \/ Crash(p)) \/ GrowStale

Spec == Init /\ [][Next]_vars

(* A running process goes on and time passes; that a process makes a next  *)
(* update, or tries again after it found the lock busy, is not assumed.    *)
FairSpec == Spec /\ (\A p \in Procs : WF_vars(Step(p))) /\ WF_vars(GrowStale)

-----------------------------------------------------------------------------
(* No update of a process is overwritten by another one, as the comment on *)
(* withFilesystemRegistryLock says.  It does not hold: of two processes    *)
(* that saw the lock of a crashed one as stale, the second renames the     *)
(* fresh lock that the first has taken in the meantime.                    *)
NoLostUpdate == registry = updates

(* That rename is the only way: as long as no process has moved away a     *)
(* lock that was not stale, there is one process inside the lock, and the  *)
(* file holds every update, through crashes at any system call.             *)
SerializedUnlessStolen ==
  ~stolen =>
    /\ registry = updates
    /\ \A p, q \in Procs : pc[p] \in Inside /\ pc[q] \in Inside => p = q

(* It takes a crash for a lock to go stale, and so for any of this: while  *)
(* every process lives, no lock is ever moved away, and no update is lost. *)
SerializedUnlessFailure ==
  failures = 0 =>
    /\ ~stolen /\ registry = updates
    /\ \A p, q \in Procs : pc[p] \in Inside /\ pc[q] \in Inside => p = q

(* The release of a lock, or the cleanup after a failed acquisition, never *)
(* removes a lock that another process holds, unless locks were stolen.    *)
RemoveStep ==
  \A p \in Procs :
    ~stolen /\ (Remove(p) \/ Undo(p)) => owner \in {p, NoProc}

RemovesOwnLock == [][RemoveStep]_vars

(* Nobody finds the lock busy for ever, in particular not because of a     *)
(* process that crashed inside it (updates and failures are bounded here). *)
(* After a theft it can happen: two processes may go on removing each      *)
(* other's directory between mkdir and the write of owner.json.            *)
NobodyTriesForEver ==
  []~stolen => \A p \in Procs : <>[](pc[p] \notin Trying)
=============================================================================
