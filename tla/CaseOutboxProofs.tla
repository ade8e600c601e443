-------------------------- MODULE CaseOutboxProofs --------------------------
(***************************************************************************)
(* Proofs about CaseOutbox, for any candidates, keys, workers, attempts,   *)
(* limits, and any number of crashes, feedbacks, projections and rederives.*)
(***************************************************************************)
EXTENDS CaseOutbox, TLAPS

(* A lease is of the row's last attempt; only pending rows are leased.     *)
RowSound(c) ==
  /\ leaseToken[c] \in {0, attempts[c]}
  /\ leaseToken[c] # 0 => state[c] = "pending_review" /\ c \notin rejected
  /\ c \in expired => leaseToken[c] # 0
  /\ state[c] \in {"absent", "skipped"} => attempts[c] = 0

(* A worker reviews a candidate under one of the attempts it has had; from *)
(* the ingest on the case is in the library.                               *)
WorkerSound(w) ==
  /\ pc[w] = "idle" => job[w] = 0 /\ token[w] = 0
  /\ pc[w] # "idle" =>
       /\ job[w] \in Candidates
       /\ token[w] # 0
       /\ token[w] <= attempts[job[w]]
  /\ pc[w] = "ingested" => library[job[w]] # "none"

(* No two workers have the same attempt.                                   *)
TokensDiffer ==
  \A v, w \in Workers :
    v # w /\ job[v] # 0 /\ job[v] = job[w] => token[v] # token[w]

(* A projection is of a revision its target has had.                       *)
RunSound(p) ==
  step[p] # "ready" => target[p] \in Candidates /\ listed[p] <= revision[target[p]]

IInv ==
  /\ TypeOK
  /\ \A p \in Projections : RunSound(p)
  /\ \A c \in Candidates : RowSound(c)
  /\ \A w \in Workers : WorkerSound(w)
  /\ TokensDiffer
  /\ ReviewedCaseExists

LEMMA CandidateFacts == 0 \notin Candidates
BY DEF Candidates

USE CaseAssumption, CandidateFacts DEF States, Steps, runVars, projectionVars

-----------------------------------------------------------------------------
LEMMA InitIInv == Init => IInv
<1> SUFFICES ASSUME Init PROVE IInv
  OBVIOUS
<1>1. TypeOK
  <2>1. /\ feedback \in [Candidates -> BOOLEAN]
        /\ revision \in [Candidates -> Nat] /\ applied \in [Candidates -> Nat]
        /\ \A c \in Candidates : applied[c] <= revision[c]
        /\ step \in [Projections -> {"ready", "read", "row", "case"}]
        /\ target \in [Projections -> Candidates \cup {0}]
        /\ listed \in [Projections -> Nat] /\ negative \in [Projections -> BOOLEAN]
    BY DEF Init
  <2>2. /\ state \in [Candidates -> States] /\ pc \in [Workers -> Steps]
        /\ attempts \in [Candidates -> 0 .. maxAttempts]
        /\ leaseToken \in [Candidates -> 0 .. maxAttempts]
        /\ library \in [Candidates -> {"none", "draft", "private"}]
        /\ job \in [Workers -> Candidates \cup {0}] /\ token \in [Workers -> 0 .. maxAttempts]
    BY DEF Init
  <2> QED BY <2>1, <2>2 DEF Init, TypeOK
<1>2. TokensDiffer /\ ReviewedCaseExists /\ \A w \in Workers : WorkerSound(w)
  BY DEF Init, TokensDiffer, ReviewedCaseExists, WorkerSound
<1>3. (\A c \in Candidates : RowSound(c)) /\ \A p \in Projections : RunSound(p)
  BY DEF Init, RowSound, RunSound
<1> QED BY <1>1, <1>2, <1>3 DEF IInv

(* The parts of IInv speak of these variables only.                        *)
LEMMA RowsKept ==
  ASSUME \A c \in Candidates : RowSound(c),
         UNCHANGED <<state, attempts, leaseToken, expired, rejected>>
  PROVE  (\A c \in Candidates : RowSound(c))'
BY DEF RowSound

LEMMA WorkersKept ==
  ASSUME \A w \in Workers : WorkerSound(w), TokensDiffer,
         UNCHANGED <<workerVars, attempts, library>>
  PROVE  (\A w \in Workers : WorkerSound(w))' /\ TokensDiffer'
BY DEF WorkerSound, TokensDiffer, workerVars

LEMMA RunsKept ==
  ASSUME \A p \in Projections : RunSound(p), UNCHANGED projectionVars
  PROVE  (\A p \in Projections : RunSound(p))'
BY DEF RunSound

(* A worker that becomes idle has no claim on anything.                    *)
LEMMA IdleSound ==
  ASSUME TypeOK, \A v \in Workers : WorkerSound(v), TokensDiffer,
         NEW w \in Workers, Idle(w), UNCHANGED <<attempts, library>>
  PROVE  (\A v \in Workers : WorkerSound(v))' /\ TokensDiffer'
<1>1. \A v \in Workers :
        /\ pc'[v] = IF v = w THEN "idle" ELSE pc[v]
        /\ job'[v] = IF v = w THEN 0 ELSE job[v]
        /\ token'[v] = IF v = w THEN 0 ELSE token[v]
  BY DEF TypeOK, Idle
<1> QED BY <1>1 DEF WorkerSound, TokensDiffer

(* A worker that goes on with its job, with its case saved if it says so.  *)
LEMMA AdvanceSound ==
  ASSUME TypeOK, \A v \in Workers : WorkerSound(v), TokensDiffer,
         NEW w \in Workers, NEW to \in Steps \ {"idle"}, pc[w] # "idle",
         pc' = [pc EXCEPT ![w] = to], UNCHANGED <<job, token, attempts>>,
         \A c \in Candidates : library[c] # "none" => library'[c] # "none",
         to = "ingested" => library'[job[w]] # "none"
  PROVE  (\A v \in Workers : WorkerSound(v))' /\ TokensDiffer'
<1>1. \A v \in Workers : pc'[v] = IF v = w THEN to ELSE pc[v]
  BY DEF TypeOK
<1> QED BY <1>1 DEF WorkerSound, TokensDiffer

-----------------------------------------------------------------------------
(* One lemma for each action that changes a row, a worker or the library.  *)
LEMMA EnqueueStep ==
  ASSUME IInv, NEW c \in Candidates, enqueue(c)
  PROVE  IInv'
<1> USE DEF IInv, enqueue, workerVars, caseVars, cliVars
<1>1. state'[c] \in {"skipped", "pending_review"} /\ state' \in [Candidates -> States]
      /\ \A d \in Candidates : d # c => state'[d] = state[d]
  BY DEF TypeOK
<1>2. TypeOK'
  BY <1>1 DEF TypeOK
<1>3. (\A d \in Candidates : RowSound(d))'
  BY <1>1 DEF TypeOK, RowSound
<1>4. ReviewedCaseExists'
  BY <1>1 DEF ReviewedCaseExists
<1> QED BY <1>2, <1>3, <1>4, WorkersKept, RunsKept

LEMMA ClaimStep ==
  ASSUME IInv, NEW w \in Workers, claimLease(w)
  PROVE  IInv'
<1> USE DEF IInv
<1>1. PICK c \in Candidates :
        /\ Claimable(c)
        /\ attempts' = [attempts EXCEPT ![c] = @ + 1]
        /\ leaseToken' = [leaseToken EXCEPT ![c] = attempts[c] + 1]
        /\ token' = [token EXCEPT ![w] = attempts[c] + 1]
        /\ job' = [job EXCEPT ![w] = c]
  BY DEF claimLease
<1>2. /\ pc[w] = "idle" /\ pc' = [pc EXCEPT ![w] = "reviewing"]
      /\ UNCHANGED <<state, expired, rejected, learned, recent, library, suspended,
                     overtaken, rederiving, kept, projectionVars, events>>
  BY DEF claimLease, caseVars, cliVars
<1>3. /\ state[c] = "pending_review" /\ c \notin rejected /\ leaseToken[c] = 0
      /\ attempts[c] < maxAttempts /\ attempts[c] \in Nat
  BY <1>1 DEF Claimable, Pending, TypeOK
<1>4. TypeOK'
  BY <1>1, <1>2, <1>3 DEF TypeOK
<1>5. (\A d \in Candidates : RowSound(d))'
  <2>1. \A d \in Candidates :
          /\ attempts'[d] = IF d = c THEN attempts[c] + 1 ELSE attempts[d]
          /\ leaseToken'[d] = IF d = c THEN attempts[c] + 1 ELSE leaseToken[d]
    BY <1>1 DEF TypeOK
  <2> QED BY <1>2, <1>3, <2>1 DEF RowSound
<1>6. \A v \in Workers :
        /\ pc'[v] = IF v = w THEN "reviewing" ELSE pc[v]
        /\ job'[v] = IF v = w THEN c ELSE job[v]
        /\ token'[v] = IF v = w THEN attempts[c] + 1 ELSE token[v]
  BY <1>1, <1>2 DEF TypeOK
<1>7. \A d \in Candidates : attempts'[d] \in Nat /\ attempts[d] \in Nat /\ attempts[d] <= attempts'[d]
  BY <1>1 DEF TypeOK
<1>8. \A v \in Workers : WorkerSound(v)'
  <2> SUFFICES ASSUME NEW v \in Workers PROVE WorkerSound(v)'
    OBVIOUS
  <2>1. CASE v = w
    BY <1>1, <1>3, <1>6, <2>1 DEF WorkerSound, TypeOK
  <2>2. CASE v # w
    BY <1>2, <1>6, <1>7, <2>2 DEF WorkerSound, TypeOK
  <2> QED BY <2>1, <2>2
<1>9. TokensDiffer'
  <2>1. \A v \in Workers : job[v] = c => token[v] <= attempts[c] /\ token[v] \in Nat
    BY DEF WorkerSound, TypeOK
  <2> QED BY <1>3, <1>6, <2>1 DEF TokensDiffer
<1>10. ReviewedCaseExists'
  BY <1>2 DEF ReviewedCaseExists
<1> QED BY <1>2, <1>4, <1>5, <1>8, <1>9, <1>10, RunsKept

(* Ending a lease, whatever becomes of the row.                            *)
LEMMA SettleStep ==
  ASSUME IInv, NEW w \in Workers, pc[w] # "idle",
         NEW s \in {"pending_review", "reviewed", "rejected"}, Settle(w, s),
         learned' \subseteq Candidates,
         s = "reviewed" /\ ingestEnabled => library[job[w]] # "none"
  PROVE  IInv'
<1> USE DEF IInv, Settle, caseVars, cliVars
<1>1. job[w] \in Candidates
  BY DEF WorkerSound
<1>2. TypeOK'
  BY <1>1 DEF TypeOK, Unleased, Idle
<1>3. (\A d \in Candidates : RowSound(d))'
  <2>1. \A d \in Candidates :
          /\ leaseToken'[d] = IF d = job[w] THEN 0 ELSE leaseToken[d]
          /\ state'[d] = IF d = job[w] THEN s ELSE state[d]
    BY DEF TypeOK, Unleased
  <2> QED BY <2>1 DEF RowSound, Unleased
<1>4. ReviewedCaseExists'
  BY <1>1 DEF ReviewedCaseExists, TypeOK
<1> QED BY <1>2, <1>3, <1>4, IdleSound, RunsKept

LEMMA IngestStep ==
  ASSUME IInv, NEW w \in Workers, Ingest(w)
  PROVE  IInv'
<1> USE DEF IInv, Ingest, rowVars, cliVars
<1>1. job[w] \in Candidates
  BY DEF WorkerSound
<1>2. /\ \A c \in Candidates : library[c] # "none" => library'[c] # "none"
      /\ library'[job[w]] # "none"
  BY <1>1 DEF Saved
<1>3. TypeOK'
  BY DEF TypeOK, Saved
<1>4. ReviewedCaseExists'
  BY <1>2 DEF ReviewedCaseExists
<1>5. (\A v \in Workers : WorkerSound(v))' /\ TokensDiffer'
  BY <1>2, AdvanceSound
<1> QED BY <1>3, <1>4, <1>5, RowsKept, RunsKept

(* The row, the case and the mark of a projection, and its end.            *)
LEMMA RunAdvances ==
  ASSUME IInv, NEW p \in Projections,
         NEW from \in {"read", "row"}, NEW to \in {"row", "case"}, Projects(p, from, to)
  PROVE  /\ target[p] \in Candidates
         /\ \A q \in Projections : RunSound(q)'
         /\ step' \in [Projections -> {"ready", "read", "row", "case"}]
         /\ overtaken' \subseteq Candidates
BY DEF IInv, TypeOK, RunSound, Projects

LEMMA RowWriteStep ==
  ASSUME IInv, NEW p \in Projections, applyFeedbackProjection(p)
  PROVE  IInv'
<1> DEFINE c == target[p]
<1>1. /\ c \in Candidates
      /\ (\A q \in Projections : RunSound(q))'
      /\ step' \in [Projections -> {"ready", "read", "row", "case"}]
      /\ overtaken' \subseteq Candidates
  BY RunAdvances DEF applyFeedbackProjection
<1> USE DEF IInv, applyFeedbackProjection, Projects, workerVars, cliVars
<1>2. TypeOK'
  <2>1. /\ rejected' \subseteq Candidates /\ recent' \subseteq Candidates
        /\ expired' \subseteq Candidates /\ leaseToken' \in [Candidates -> 0 .. maxAttempts]
    BY <1>1 DEF TypeOK, Unleased
  <2> QED BY <1>1, <2>1 DEF TypeOK
<1>3. (\A d \in Candidates : RowSound(d))'
  <2>1. CASE negative[p]
    <3>1. \A d \in Candidates : leaseToken'[d] = IF d = c THEN 0 ELSE leaseToken[d]
      BY <2>1 DEF TypeOK, Unleased
    <3> QED BY <2>1, <3>1 DEF RowSound, Unleased
  <2>2. CASE ~negative[p]
    BY <2>2 DEF RowSound
  <2> QED BY <2>1, <2>2
<1>4. (\A v \in Workers : WorkerSound(v))' /\ TokensDiffer'
  BY WorkersKept
<1>5. ReviewedCaseExists'
  BY DEF ReviewedCaseExists
<1> QED BY <1>1, <1>2, <1>3, <1>4, <1>5

LEMMA CaseWriteStep ==
  ASSUME IInv, NEW p \in Projections, applyCaseEvolutionFeedbackProjection(p)
  PROVE  IInv'
<1>1. /\ target[p] \in Candidates
      /\ (\A q \in Projections : RunSound(q))'
      /\ step' \in [Projections -> {"ready", "read", "row", "case"}]
      /\ overtaken' \subseteq Candidates
  BY RunAdvances DEF applyCaseEvolutionFeedbackProjection
<1> USE DEF IInv, applyCaseEvolutionFeedbackProjection, Projects, rowVars, workerVars, cliVars
<1>2. /\ library' \in [Candidates -> {"none", "draft", "private"}]
      /\ suspended' \subseteq Candidates
      /\ \A d \in Candidates : library[d] # "none" => library'[d] # "none"
  BY <1>1 DEF TypeOK, Hide, Restore
<1>3. TypeOK'
  BY <1>1, <1>2 DEF TypeOK
<1>4. (\A v \in Workers : WorkerSound(v))' /\ TokensDiffer' /\ ReviewedCaseExists'
  BY <1>2 DEF WorkerSound, TokensDiffer, ReviewedCaseExists
<1> QED BY <1>1, <1>3, <1>4, RowsKept

LEMMA ProjectionEndStep ==
  ASSUME IInv, NEW p \in Projections, markTargetApplied(p) \/ ProjectionFails(p)
  PROVE  IInv'
<1> USE DEF IInv, ProjectionEnds
<1>1. /\ ProjectionEnds(p)
      /\ UNCHANGED <<rowVars, caseVars, workerVars, cliVars, events, feedback, revision>>
  BY DEF markTargetApplied, ProjectionFails
<1>2. applied' \in [Candidates -> Nat] /\ \A c \in Candidates : applied'[c] <= revision[c]
  BY DEF markTargetApplied, ProjectionFails, TypeOK, RunSound
<1>3. TypeOK' /\ (\A q \in Projections : RunSound(q))'
  BY <1>1, <1>2 DEF TypeOK, RunSound, rowVars, caseVars, workerVars, cliVars
<1> QED BY <1>1, <1>3, RowsKept, WorkersKept DEF ReviewedCaseExists, rowVars, caseVars

LEMMA ListedStep ==
  ASSUME IInv, NEW p \in Projections, NEW c \in Candidates, getEffectiveForTarget(p, c)
  PROVE  IInv'
<1> USE DEF IInv, getEffectiveForTarget, Event
<1>1. TypeOK'
  BY DEF TypeOK, rowVars, caseVars, workerVars, cliVars
<1>2. (\A q \in Projections : RunSound(q))'
  BY DEF TypeOK, RunSound
<1> QED BY <1>1, <1>2, RowsKept, WorkersKept DEF ReviewedCaseExists, rowVars, caseVars

LEMMA AppendStep ==
  ASSUME IInv, NEW c \in Candidates, NEW verdict \in BOOLEAN, append(c, verdict)
  PROVE  IInv'
<1> USE DEF IInv, append, Event
<1>1. TypeOK'
  BY DEF TypeOK, rowVars, workerVars, cliVars
<1>2. (\A q \in Projections : RunSound(q))'
  BY DEF TypeOK, RunSound
<1> QED BY <1>1, <1>2, RowsKept, WorkersKept DEF ReviewedCaseExists, rowVars

-----------------------------------------------------------------------------
(* IInv is inductive.                                                      *)
LEMMA NextIInv == IInv /\ [Next]_vars => IInv'
<1> SUFFICES ASSUME IInv, [Next]_vars PROVE IInv'
  OBVIOUS
<1> USE DEF IInv
<1>1. CASE UNCHANGED vars
  BY <1>1 DEF vars, rowVars, caseVars, workerVars, cliVars, TypeOK, RowSound, WorkerSound,
     TokensDiffer, ReviewedCaseExists, RunSound
<1>2. ASSUME NEW c \in Candidates, LeaseExpires(c) PROVE IInv'
  BY <1>2, RunsKept DEF LeaseExpires, TypeOK, RowSound, WorkerSound, TokensDiffer,
     ReviewedCaseExists, caseVars, workerVars, cliVars
<1>3. CASE expireStaleLeases
  <2>1. TypeOK' /\ ReviewedCaseExists'
    BY <1>3 DEF expireStaleLeases, TypeOK, ReviewedCaseExists, caseVars, workerVars, cliVars
  <2>2. (\A c \in Candidates : RowSound(c))'
    BY <1>3 DEF expireStaleLeases, Stale, RowSound
  <2> QED BY <1>3, <2>1, <2>2, WorkersKept, RunsKept DEF expireStaleLeases, caseVars, workerVars
<1>4. CASE DayPasses \/ RederiveRead \/ RederiveCrash
  <2>1. TypeOK'
    <3>1. CASE DayPasses
      BY <3>1 DEF DayPasses, TypeOK, caseVars, workerVars, cliVars
    <3>2. CASE RederiveRead
      BY <3>2 DEF RederiveRead, Event, TypeOK, caseVars, workerVars
    <3>3. CASE RederiveCrash
      BY <3>3 DEF RederiveCrash, TypeOK, rowVars, caseVars, workerVars
    <3> QED BY <1>4, <3>1, <3>2, <3>3
  <2>2. UNCHANGED <<state, attempts, leaseToken, expired, rejected, workerVars, library,
                    projectionVars>>
    BY <1>4 DEF DayPasses, RederiveRead, RederiveCrash, rowVars, caseVars
  <2> QED BY <2>1, <2>2, RowsKept, WorkersKept, RunsKept DEF ReviewedCaseExists
<1>5. CASE RederiveWrite
  <2>1. TypeOK' /\ \A c \in Candidates : library[c] # "none" => library'[c] # "none"
    BY <1>5 DEF RederiveWrite, TypeOK, rowVars, workerVars
  <2> QED BY <1>5, <2>1, RowsKept, RunsKept DEF RederiveWrite, rowVars, workerVars, WorkerSound,
             TokensDiffer, ReviewedCaseExists
<1>6. ASSUME NEW c \in Candidates, rejectReviewedForGovernance(c) PROVE IInv'
  <2>1. TypeOK' /\ ReviewedCaseExists' /\ (\A d \in Candidates : RowSound(d))'
    BY <1>6 DEF rejectReviewedForGovernance, TypeOK, ReviewedCaseExists, RowSound, caseVars,
       workerVars, cliVars
  <2> QED BY <1>6, <2>1, WorkersKept, RunsKept DEF rejectReviewedForGovernance, caseVars
<1>7. ASSUME NEW w \in Workers, StartIngest(w) PROVE IInv'
  <2>1. TypeOK' /\ ReviewedCaseExists'
    BY <1>7 DEF StartIngest, TypeOK, ReviewedCaseExists, rowVars, caseVars, cliVars
  <2>2. (\A v \in Workers : WorkerSound(v))' /\ TokensDiffer'
    BY <1>7, AdvanceSound DEF StartIngest, rowVars, caseVars
  <2> QED BY <1>7, <2>1, <2>2, RowsKept, RunsKept DEF StartIngest, rowVars
<1>8. ASSUME NEW w \in Workers, rejectLease(w) \/ failLease(w) \/ completeReviewedLease(w)
      PROVE  IInv'
  <2>1. job[w] \in Candidates /\ pc[w] # "idle"
    BY <1>8 DEF rejectLease, failLease, completeReviewedLease, CompletesFrom, WorkerSound
  <2>2. CASE rejectLease(w) \/ failLease(w)
    BY <2>1, <2>2, SettleStep DEF rejectLease, failLease, TypeOK
  <2>3. CASE completeReviewedLease(w)
    <3>1. learned' \subseteq Candidates
      BY <2>1, <2>3 DEF completeReviewedLease, TypeOK
    <3>2. ingestEnabled => library[job[w]] # "none"
      BY <2>3 DEF completeReviewedLease, CompletesFrom, WorkerSound
    <3> QED BY <2>1, <2>3, <3>1, <3>2, SettleStep DEF completeReviewedLease
  <2> QED BY <1>8, <2>2, <2>3
<1>9. ASSUME NEW w \in Workers, LeaseLost(w) \/ Crash(w) PROVE IInv'
  <2>1. Idle(w) /\ UNCHANGED <<rowVars, caseVars, cliVars, projectionVars, events>>
    BY <1>9 DEF LeaseLost, Crash
  <2>2. TypeOK' /\ ReviewedCaseExists'
    BY <2>1 DEF Idle, TypeOK, ReviewedCaseExists, rowVars, caseVars, cliVars
  <2> QED BY <2>1, <2>2, RowsKept, IdleSound, RunsKept DEF rowVars, caseVars
<1>10. ASSUME NEW w \in Workers, processJob(w) PROVE IInv'
  BY <1>7, <1>8, <1>9, <1>10, IngestStep DEF processJob
<1>11. ASSUME NEW p \in Projections, projectTarget(p) PROVE IInv'
  BY <1>11, RowWriteStep, CaseWriteStep, ProjectionEndStep, ListedStep DEF projectTarget
<1> QED BY <1>1, <1>2, <1>3, <1>4, <1>5, <1>6, <1>9, <1>10, <1>11, EnqueueStep, ClaimStep,
           AppendStep DEF Next

LEMMA Inductive == Spec => []IInv
BY InitIInv, NextIInv, PTL DEF Spec

-----------------------------------------------------------------------------
(* The types of rows, workers and cases; for one, no row has more attempts *)
(* than maxAttempts.                                                       *)
THEOREM TypeCorrect == Spec => []TypeOK
BY Inductive, PTL DEF IInv

(* No candidate is reviewed without its case in the library, whichever     *)
(* worker crashed, came late or raced with feedback and rederive.          *)
THEOREM ReviewedCaseExistsTheorem == Spec => []ReviewedCaseExists
BY Inductive, PTL DEF IInv

(* At most one worker can renew or settle a candidate at any time.         *)
SoleReviewer ==
  \A v, w \in Workers : v # w /\ job[v] # 0 /\ job[v] = job[w] => ~(Fenced(v) /\ Fenced(w))

THEOREM SoleReviewerTheorem == Spec => []SoleReviewer
<1>1. IInv => SoleReviewer
  BY DEF IInv, TokensDiffer, SoleReviewer, Fenced
<1> QED BY <1>1, Inductive, PTL

-----------------------------------------------------------------------------
(* Who may change a row whose attempts are used up: nobody.                *)
LEMMA ExhaustedStep ==
  ASSUME IInv, Next, NEW c \in Candidates, Exhausted(c)
  PROVE  Exhausted(c)'
<1> USE DEF IInv, Exhausted
<1>1. \A d \in Candidates : enqueue(d) \/ rejectReviewedForGovernance(d) => Exhausted(c)'
  BY DEF enqueue, rejectReviewedForGovernance, TypeOK
<1>2. \A d \in Candidates : LeaseExpires(d) => Exhausted(c)'
  BY DEF LeaseExpires
<1>3. ASSUME NEW p \in Projections, projectTarget(p) PROVE Exhausted(c)'
  <2>1. CASE applyFeedbackProjection(p)
    BY <2>1 DEF applyFeedbackProjection, Unleased, TypeOK
  <2> QED BY <1>3, <2>1 DEF projectTarget, getEffectiveForTarget,
             applyCaseEvolutionFeedbackProjection, markTargetApplied, ProjectionFails,
             ProjectionEnds, rowVars
<1>4. ASSUME NEW w \in Workers, claimLease(w) PROVE Exhausted(c)'
  <2>1. PICK d \in Candidates :
          /\ Claimable(d)
          /\ attempts' = [attempts EXCEPT ![d] = @ + 1]
          /\ leaseToken' = [leaseToken EXCEPT ![d] = attempts[d] + 1]
    BY <1>4 DEF claimLease
  <2>2. d # c
    BY <2>1 DEF Claimable, TypeOK
  <2> QED BY <1>4, <2>1, <2>2 DEF claimLease, TypeOK
<1>5. ASSUME NEW w \in Workers, pc[w] # "idle", NEW s, Settle(w, s) PROVE Exhausted(c)'
  <2>1. job[w] # c
    BY <1>5 DEF Settle, Fenced, WorkerSound
  <2> QED BY <1>5, <2>1 DEF Settle, Unleased, TypeOK
<1>6. ASSUME NEW w \in Workers, processJob(w) PROVE Exhausted(c)'
  <2>1. UNCHANGED rowVars => Exhausted(c)'
    BY DEF rowVars
  <2>2. rejectLease(w) \/ failLease(w) \/ completeReviewedLease(w) => Exhausted(c)'
    BY <1>5 DEF rejectLease, failLease, completeReviewedLease, CompletesFrom
  <2> QED BY <1>6, <2>1, <2>2 DEF processJob, StartIngest, Ingest, LeaseLost
<1>7. ASSUME NEW w \in Workers, Crash(w) PROVE Exhausted(c)'
  BY <1>7 DEF Crash, rowVars
<1>8. expireStaleLeases \/ DayPasses \/ RederiveRead \/ RederiveWrite \/ RederiveCrash
        => Exhausted(c)'
  BY DEF expireStaleLeases, DayPasses, RederiveRead, RederiveWrite, RederiveCrash, rowVars
<1>9. \A d \in Candidates, n \in BOOLEAN : append(d, n) => Exhausted(c)'
  BY DEF append, rowVars
<1> QED BY <1>1, <1>2, <1>3, <1>4, <1>6, <1>7, <1>8, <1>9 DEF Next

(* Once the last attempt of a candidate is lost, it stays pending for good.*)
THEOREM ExhaustedIsTerminalTheorem == Spec => ExhaustedIsTerminal
<1>1. IInv /\ [Next]_vars => [\A c \in Candidates : Exhausted(c) => Exhausted(c)']_vars
  BY ExhaustedStep
<1> QED BY <1>1, Inductive, PTL DEF Spec, ExhaustedIsTerminal

(* When a projection speaks of the revision that counts, and nothing has   *)
(* been written since from older data, it has read the verdict that counts;*)
(* after its first write the row obeys it, after its second the case does. *)
RowObeys(c) == c \in rejected <=> feedback[c]

RunObeys(p) ==
  step[p] # "ready" /\ listed[p] = revision[target[p]] =>
    /\ negative[p] = feedback[target[p]]
    /\ step[p] \in {"row", "case"} /\ target[p] \notin overtaken => RowObeys(target[p])
    /\ step[p] = "case" /\ target[p] \notin overtaken => InForce(target[p])

FeedbackInv == AppliedFeedbackIsInForce /\ \A p \in Projections : RunObeys(p)

(* What holds for a candidate stays true until its next feedback, unless   *)
(* the step makes it overtaken.                                            *)
Keeps(c) ==
  /\ feedback'[c] = feedback[c]
  /\ revision'[c] = revision[c]
  /\ c \notin overtaken' =>
       /\ c \notin overtaken
       /\ RowObeys(c) => RowObeys(c)'
       /\ InForce(c) => InForce(c)'

LEMMA KeptStep ==
  ASSUME IInv, FeedbackInv, \A c \in Candidates : Keeps(c),
         UNCHANGED <<applied, runVars>>
  PROVE  FeedbackInv'
<1>1. AppliedFeedbackIsInForce'
  BY DEF FeedbackInv, AppliedFeedbackIsInForce, Keeps
<1>2. ASSUME NEW p \in Projections PROVE RunObeys(p)'
  <2>1. step[p] # "ready" => target[p] \in Candidates
    BY DEF IInv, RunSound
  <2> QED BY <2>1 DEF FeedbackInv, RunObeys, Keeps
<1> QED BY <1>1, <1>2 DEF FeedbackInv

LEMMA IngestKeeps ==
  ASSUME NEW w \in Workers, Ingest(w), NEW c \in Candidates
  PROVE  Keeps(c)
BY DEF Ingest, Saved, Keeps, RowObeys, InForce, Visible, rowVars

LEMMA RederiveKeeps ==
  ASSUME RederiveWrite, NEW c \in Candidates
  PROVE  Keeps(c)
BY DEF RederiveWrite, Keeps, RowObeys, InForce, Visible, rowVars

LEMMA RowWriteKeeps ==
  ASSUME IInv, NEW p \in Projections, applyFeedbackProjection(p), NEW c \in Candidates
  PROVE  Keeps(c)
BY DEF IInv, TypeOK, applyFeedbackProjection, Projects, Keeps, RowObeys, InForce, Visible

LEMMA CaseWriteKeeps ==
  ASSUME IInv, NEW p \in Projections, applyCaseEvolutionFeedbackProjection(p),
         NEW c \in Candidates
  PROVE  Keeps(c)
BY DEF IInv, TypeOK, applyCaseEvolutionFeedbackProjection, Projects, Hide, Restore, Keeps,
   RowObeys, InForce, Visible, rowVars

LEMMA InitFeedbackInv == Init => FeedbackInv
BY DEF Init, FeedbackInv, AppliedFeedbackIsInForce, InForce, Visible, RunObeys

(* The steps of a projection.                                              *)
LEMMA ProjectionKeepsInv ==
  ASSUME IInv, FeedbackInv, NEW p \in Projections, projectTarget(p)
  PROVE  FeedbackInv'
<1> USE DEF IInv, FeedbackInv
<1>1. ASSUME NEW c \in Candidates, getEffectiveForTarget(p, c) PROVE FeedbackInv'
  <2>1. \A q \in Projections : q # p =>
          /\ step'[q] = step[q] /\ target'[q] = target[q]
          /\ listed'[q] = listed[q] /\ negative'[q] = negative[q]
    BY <1>1 DEF getEffectiveForTarget, TypeOK
  <2>2. step'[p] = "read" /\ target'[p] = c /\ negative'[p] = feedback[c]
    BY <1>1 DEF getEffectiveForTarget, TypeOK
  <2>3. UNCHANGED <<rejected, library, suspended, overtaken, feedback, revision, applied>>
    BY <1>1 DEF getEffectiveForTarget, rowVars, caseVars
  <2> QED BY <2>1, <2>2, <2>3 DEF RunObeys, RowObeys, AppliedFeedbackIsInForce, InForce, Visible
<1>2. ASSUME NEW from \in {"read", "row"}, NEW to \in {"row", "case"},
             Projects(p, from, to), \A c \in Candidates : Keeps(c),
             LET c == target[p]
             IN  negative[p] = feedback[c] /\ c \notin overtaken =>
                   IF to = "row" THEN RowObeys(c)'
                   ELSE RowObeys(c) => RowObeys(c)' /\ InForce(c)',
             from = "row" <=> to = "case"
      PROVE  FeedbackInv'
  <2>1. AppliedFeedbackIsInForce'
    BY <1>2 DEF AppliedFeedbackIsInForce, Keeps, Projects
  <2>2. ASSUME NEW q \in Projections, q # p PROVE RunObeys(q)'
    <3>1. step[q] # "ready" => target[q] \in Candidates
      BY DEF RunSound
    <3>2. step'[q] = step[q] /\ UNCHANGED <<target, listed, negative>>
      BY <1>2, <2>2 DEF Projects, TypeOK
    <3> QED BY <1>2, <3>1, <3>2 DEF RunObeys, Keeps
  <2>3. RunObeys(p)'
    <3>1. step'[p] = to /\ step[p] = from /\ UNCHANGED <<target, listed, negative>>
      BY <1>2 DEF Projects, TypeOK
    <3>2. target[p] \in Candidates
      BY <1>2, <3>1 DEF RunSound
    <3> QED BY <1>2, <3>1, <3>2 DEF RunObeys, Keeps
  <2> QED BY <2>1, <2>2, <2>3
<1>3. CASE applyFeedbackProjection(p)
  <2>1. target[p] \in Candidates
    BY <1>3 DEF applyFeedbackProjection, Projects, RunSound
  <2>2. negative[p] = feedback[target[p]] => RowObeys(target[p])'
    BY <1>3, <2>1 DEF applyFeedbackProjection, Projects, RowObeys, TypeOK
  <2>3. Projects(p, "read", "row") /\ \A c \in Candidates : Keeps(c)
    BY <1>3, RowWriteKeeps DEF applyFeedbackProjection
  <2> QED BY <1>2, <2>2, <2>3
<1>4. CASE applyCaseEvolutionFeedbackProjection(p)
  <2>1. target[p] \in Candidates
    BY <1>4 DEF applyCaseEvolutionFeedbackProjection, Projects, RunSound
  <2>2. ASSUME negative[p] = feedback[target[p]], RowObeys(target[p])
        PROVE  RowObeys(target[p])' /\ InForce(target[p])'
    BY <1>4, <2>1, <2>2 DEF applyCaseEvolutionFeedbackProjection, Projects, Hide, Restore,
       RowObeys, InForce, Visible, TypeOK, rowVars
  <2>3. Projects(p, "row", "case") /\ \A c \in Candidates : Keeps(c)
    BY <1>4, CaseWriteKeeps DEF applyCaseEvolutionFeedbackProjection
  <2> QED BY <1>2, <2>2, <2>3
<1>5. CASE markTargetApplied(p) \/ ProjectionFails(p)
  <2>1. ProjectionEnds(p)
    BY <1>5 DEF markTargetApplied, ProjectionFails
  <2>2. UNCHANGED <<rejected, library, suspended, overtaken, feedback, revision>>
    BY <2>1 DEF ProjectionEnds, rowVars, caseVars
  <2>3. \A q \in Projections :
          IF q = p THEN step'[q] = "ready"
          ELSE /\ step'[q] = step[q] /\ target'[q] = target[q]
               /\ listed'[q] = listed[q] /\ negative'[q] = negative[q]
    BY <2>1 DEF ProjectionEnds, TypeOK
  <2>4. \A q \in Projections : RunObeys(q)'
    BY <2>2, <2>3 DEF RunObeys, RowObeys, InForce, Visible
  <2>5. AppliedFeedbackIsInForce'
    <3>1. \A c \in Candidates : InForce(c) => InForce(c)'
      BY <2>2 DEF InForce, Visible
    <3>2. CASE markTargetApplied(p)
      <4>1. step[p] = "case" /\ listed[p] = revision[target[p]]
        BY <3>2 DEF markTargetApplied
      <4>2. target[p] \notin overtaken => InForce(target[p])
        BY <4>1 DEF RunObeys
      <4>3. \A c \in Candidates : c # target[p] => applied'[c] = applied[c]
        BY <3>2 DEF markTargetApplied, TypeOK
      <4> QED BY <2>2, <3>1, <4>2, <4>3 DEF AppliedFeedbackIsInForce
    <3>3. CASE ProjectionFails(p)
      BY <2>2, <3>1, <3>3 DEF ProjectionFails, AppliedFeedbackIsInForce
    <3> QED BY <1>5, <3>2, <3>3
  <2> QED BY <2>4, <2>5
<1> QED BY <1>1, <1>3, <1>4, <1>5 DEF projectTarget

LEMMA AppendKeepsInv ==
  ASSUME IInv, FeedbackInv, NEW c \in Candidates, NEW verdict \in BOOLEAN, append(c, verdict)
  PROVE  FeedbackInv'
<1> USE DEF IInv, FeedbackInv, append
<1>1. \A d \in Candidates :
        IF d = c THEN revision'[d] = revision[d] + 1
        ELSE revision'[d] = revision[d] /\ feedback'[d] = feedback[d]
             /\ (d \notin overtaken' => d \notin overtaken)
  BY DEF TypeOK
<1>2. UNCHANGED <<rejected, library, suspended, applied, runVars>>
  BY DEF rowVars
<1>3. \A d \in Candidates : d # c => Keeps(d)
  BY <1>1, <1>2 DEF Keeps, RowObeys, InForce, Visible
<1>4. AppliedFeedbackIsInForce'
  <2> SUFFICES ASSUME NEW d \in Candidates, d \notin overtaken', applied'[d] = revision'[d]
               PROVE  InForce(d)'
    BY DEF AppliedFeedbackIsInForce
  <2>1. d # c
    <3>1. applied[c] \in Nat /\ revision[c] \in Nat /\ applied[c] <= revision[c]
      BY DEF TypeOK
    <3> QED BY <1>1, <1>2, <3>1
  <2> QED BY <1>1, <1>2, <1>3, <2>1 DEF AppliedFeedbackIsInForce, Keeps
<1>5. ASSUME NEW p \in Projections PROVE RunObeys(p)'
  <2> SUFFICES ASSUME step[p] # "ready", listed[p] = revision'[target[p]] PROVE RunObeys(p)'
    BY <1>2 DEF RunObeys
  <2>1. target[p] \in Candidates /\ listed[p] <= revision[target[p]]
    BY DEF RunSound
  <2>2. target[p] # c
    <3>1. listed[p] \in Nat /\ revision[c] \in Nat
      BY DEF TypeOK
    <3> QED BY <1>1, <2>1, <3>1
  <2> QED BY <1>1, <1>2, <1>3, <2>1, <2>2 DEF RunObeys, Keeps
<1> QED BY <1>4, <1>5

LEMMA NextFeedbackInv == IInv /\ FeedbackInv /\ [Next]_vars => FeedbackInv'
<1> SUFFICES ASSUME IInv, FeedbackInv, [Next]_vars PROVE FeedbackInv'
  OBVIOUS
<1>1. CASE UNCHANGED <<rejected, library, suspended, overtaken, projectionVars>>
  BY <1>1, KeptStep DEF Keeps, RowObeys, InForce, Visible
<1>2. ASSUME NEW w \in Workers, Ingest(w) PROVE FeedbackInv'
  BY <1>2, IngestKeeps, KeptStep DEF Ingest
<1>3. CASE RederiveWrite
  BY <1>3, RederiveKeeps, KeptStep DEF RederiveWrite
<1>4. \A w \in Workers :
        claimLease(w) \/ Crash(w) \/ (processJob(w) /\ ~Ingest(w))
          => UNCHANGED <<rejected, library, suspended, overtaken, projectionVars>>
  BY DEF claimLease, Crash, processJob, StartIngest, rejectLease, failLease,
     completeReviewedLease, Settle, LeaseLost, rowVars, caseVars
<1>5. \A c \in Candidates :
        enqueue(c) \/ LeaseExpires(c) \/ rejectReviewedForGovernance(c)
          => UNCHANGED <<rejected, library, suspended, overtaken, projectionVars>>
  BY DEF enqueue, LeaseExpires, rejectReviewedForGovernance, caseVars
<1>6. expireStaleLeases \/ DayPasses \/ RederiveRead \/ RederiveCrash \/ UNCHANGED vars
        => UNCHANGED <<rejected, library, suspended, overtaken, projectionVars>>
  BY DEF expireStaleLeases, DayPasses, RederiveRead, RederiveCrash, rowVars, caseVars, vars
<1> QED BY <1>1, <1>2, <1>3, <1>4, <1>5, <1>6, ProjectionKeepsInv, AppendKeepsInv DEF Next

(* Feedback that is marked as applied is in force in the row and in the    *)
(* case, however projections, workers and rederives interleave, unless one *)
(* of them has written since from older data.                              *)
THEOREM AppliedFeedbackTheorem == Spec => []AppliedFeedbackIsInForce
<1>1. IInv /\ FeedbackInv /\ [Next]_vars => FeedbackInv'
  BY NextFeedbackInv
<1>2. FeedbackInv => AppliedFeedbackIsInForce
  BY DEF FeedbackInv
<1> QED BY <1>1, <1>2, InitFeedbackInv, Inductive, PTL DEF Spec

-----------------------------------------------------------------------------
(* The contract: each step of the outbox is one of its steps, or none.     *)
StatusOf == [c \in Candidates |-> Status(state[c])]
LiveOf == [c \in Candidates |-> IF c \in expired THEN 0 ELSE leaseToken[c]]

LEMMA StatusFacts ==
  /\ Status("absent") = "absent" /\ Status("skipped") = "absent"
  /\ Status("pending_review") = "open"
  /\ Status("reviewed") = "accepted" /\ Status("rejected") = "refused"
BY DEF Status

LEMMA StatusUpdate ==
  ASSUME TypeOK, NEW c \in Candidates, NEW s, state' = [state EXCEPT ![c] = s]
  PROVE  StatusOf' = [StatusOf EXCEPT ![c] = Status(s)]
<1>1. \A d \in Candidates : state'[d] = IF d = c THEN s ELSE state[d]
  BY DEF TypeOK
<1>2. \A d \in Candidates : StatusOf'[d] = [StatusOf EXCEPT ![c] = Status(s)][d]
  BY <1>1 DEF StatusOf
<1> QED BY <1>2 DEF StatusOf

LEMMA ContractStutter ==
  ASSUME UNCHANGED <<StatusOf, attempts, LiveOf, job, token>>
  PROVE  UNCHANGED Contract!vars
BY DEF Contract!vars, StatusOf, LiveOf

(* A lease that ends, by whatever means.                                   *)
LEMMA UnleasedLive ==
  ASSUME TypeOK, NEW c \in Candidates, Unleased(c)
  PROVE  LiveOf' = [LiveOf EXCEPT ![c] = 0]
<1>1. \A d \in Candidates : LiveOf'[d] = [LiveOf EXCEPT ![c] = 0][d]
  BY DEF Unleased, LiveOf, TypeOK
<1> QED BY <1>1 DEF LiveOf

LEMMA RevokeStep ==
  ASSUME NEW c \in Candidates, LiveOf' = [LiveOf EXCEPT ![c] = 0],
         UNCHANGED <<StatusOf, attempts, job, token>>
  PROVE  Contract!Revoke(c) \/ UNCHANGED Contract!vars
<1>1. CASE LiveOf[c] = 0
  <2>1. LiveOf' = LiveOf
    BY <1>1 DEF LiveOf
  <2> QED BY <2>1, ContractStutter
<1>2. CASE LiveOf[c] # 0
  BY <1>2 DEF Contract!Revoke, LiveOf, StatusOf
<1> QED BY <1>1, <1>2

LEMMA AddStep ==
  ASSUME IInv, NEW c \in Candidates, enqueue(c)
  PROVE  Contract!Add(c) \/ UNCHANGED Contract!vars
<1> USE DEF IInv, enqueue, workerVars
<1>1. PICK s \in {"skipped", "pending_review"} : state' = [state EXCEPT ![c] = s]
  OBVIOUS
<1>2. StatusOf' = [StatusOf EXCEPT ![c] = Status(s)] /\ StatusOf[c] = "absent"
  BY <1>1, StatusUpdate, StatusFacts DEF StatusOf
<1>3. UNCHANGED <<attempts, LiveOf, job, token>>
  BY DEF LiveOf
<1>4. CASE s = "skipped"
  <2>1. StatusOf' = StatusOf
    BY <1>2, <1>4, StatusFacts DEF StatusOf
  <2> QED BY <1>3, <2>1, ContractStutter
<1>5. CASE s = "pending_review"
  BY <1>2, <1>3, <1>5, StatusFacts DEF Contract!Add, StatusOf, LiveOf
<1> QED BY <1>4, <1>5

LEMMA ClaimRefines ==
  ASSUME IInv, NEW w \in Workers, claimLease(w)
  PROVE  Contract!Next
<1> USE DEF IInv
<1>1. PICK c \in Candidates :
        /\ Claimable(c)
        /\ attempts' = [attempts EXCEPT ![c] = @ + 1]
        /\ leaseToken' = [leaseToken EXCEPT ![c] = attempts[c] + 1]
        /\ token' = [token EXCEPT ![w] = attempts[c] + 1]
        /\ job' = [job EXCEPT ![w] = c]
  BY DEF claimLease
<1>2. pc[w] = "idle" /\ UNCHANGED <<state, expired>>
  BY DEF claimLease
<1>3. /\ job[w] = 0 /\ state[c] = "pending_review" /\ c \notin expired /\ leaseToken[c] = 0
      /\ attempts[c] < maxAttempts
  BY <1>1, <1>2 DEF Claimable, Pending, WorkerSound, RowSound
<1>4. LiveOf' = [LiveOf EXCEPT ![c] = attempts[c] + 1]
  <2>1. \A d \in Candidates : LiveOf'[d] = [LiveOf EXCEPT ![c] = attempts[c] + 1][d]
    BY <1>1, <1>2, <1>3 DEF LiveOf, TypeOK
  <2> QED BY <2>1 DEF LiveOf
<1>5. StatusOf' = StatusOf /\ StatusOf[c] = "open" /\ LiveOf[c] = 0
  BY <1>2, <1>3, StatusFacts DEF StatusOf, LiveOf
<1>6. Contract!Claim(w, c)
  BY <1>1, <1>3, <1>4, <1>5 DEF Contract!Claim, StatusOf, LiveOf
<1> QED BY <1>6 DEF Contract!Next

LEMMA DecideStep ==
  ASSUME IInv, NEW w \in Workers, pc[w] # "idle",
         NEW s \in {"pending_review", "reviewed", "rejected"}, Settle(w, s),
         s = "pending_review" => attempts[job[w]] < maxAttempts
  PROVE  Contract!Next
<1> USE DEF IInv, Settle
<1>1. job[w] \in Candidates /\ job[w] # 0
  BY DEF WorkerSound
<1>2. StatusOf' = [StatusOf EXCEPT ![job[w]] = Status(s)]
  BY <1>1, StatusUpdate
<1>3. LiveOf' = [LiveOf EXCEPT ![job[w]] = 0] /\ LiveOf[job[w]] = token[w]
  BY <1>1, UnleasedLive DEF Fenced, LiveOf
<1>4. /\ Status(s) \in {"accepted", "refused", "open"}
      /\ Status(s) = "open" => attempts[job[w]] < maxAttempts
  BY StatusFacts
<1>5. Contract!Forgets(w)
  BY DEF Idle, Contract!Forgets
<1>6. Contract!Decide(w)
  BY <1>1, <1>2, <1>3, <1>4, <1>5 DEF Contract!Decide, StatusOf, LiveOf
<1> QED BY <1>6 DEF Contract!Next

LEMMA ContractInit == Init => Contract!Init
BY StatusFacts DEF Init, Contract!Init

LEMMA ContractNext == IInv /\ [Next]_vars => [Contract!Next]_(Contract!vars)
<1> SUFFICES ASSUME IInv, [Next]_vars PROVE Contract!Next \/ UNCHANGED Contract!vars
  OBVIOUS
<1> USE DEF IInv
<1>1. CASE UNCHANGED <<state, attempts, leaseToken, expired, job, token>>
  BY <1>1, ContractStutter DEF StatusOf, LiveOf
<1>2. ASSUME NEW c \in Candidates, enqueue(c)
      PROVE  Contract!Next \/ UNCHANGED Contract!vars
  BY <1>2, AddStep DEF Contract!Next
<1>3. ASSUME NEW c \in Candidates, LeaseExpires(c)
      PROVE  Contract!Next \/ UNCHANGED Contract!vars
  <2>1. \A d \in Candidates : LiveOf'[d] = [LiveOf EXCEPT ![c] = 0][d]
    BY <1>3 DEF LeaseExpires, LiveOf
  <2>2. LiveOf' = [LiveOf EXCEPT ![c] = 0] /\ StatusOf' = StatusOf
    BY <1>3, <2>1 DEF LeaseExpires, LiveOf, StatusOf
  <2> QED BY <1>3, <2>2, RevokeStep DEF Contract!Next, LeaseExpires, workerVars
<1>4. ASSUME NEW p \in Projections, applyFeedbackProjection(p)
      PROVE  Contract!Next \/ UNCHANGED Contract!vars
  <2>1. UNCHANGED <<StatusOf, attempts, job, token>> /\ target[p] \in Candidates
    BY <1>4 DEF applyFeedbackProjection, Projects, StatusOf, workerVars, RunSound
  <2>2. CASE negative[p]
    BY <1>4, <2>1, <2>2, UnleasedLive, RevokeStep DEF applyFeedbackProjection, Contract!Next
  <2>3. CASE ~negative[p]
    BY <1>1, <1>4, <2>3 DEF applyFeedbackProjection, Projects, workerVars
  <2> QED BY <2>2, <2>3
<1>5. ASSUME NEW c \in Candidates, rejectReviewedForGovernance(c)
      PROVE  Contract!Next \/ UNCHANGED Contract!vars
  <2>1. /\ StatusOf' = [StatusOf EXCEPT ![c] = "refused"] /\ StatusOf[c] = "accepted"
        /\ LiveOf' = LiveOf
    BY <1>5, StatusUpdate, StatusFacts DEF rejectReviewedForGovernance, StatusOf, LiveOf
  <2>2. Contract!Overrule(c)
    BY <1>5, <2>1 DEF Contract!Overrule, rejectReviewedForGovernance, workerVars, StatusOf, LiveOf
  <2> QED BY <2>2 DEF Contract!Next
<1>6. CASE expireStaleLeases
  <2>1. \A c \in Candidates : LiveOf'[c] = LiveOf[c]
    BY <1>6 DEF expireStaleLeases, Stale, LiveOf, RowSound
  <2>2. LiveOf' = LiveOf
    BY <2>1 DEF LiveOf
  <2> QED BY <1>6, <2>2, ContractStutter DEF expireStaleLeases, StatusOf, workerVars
<1>7. ASSUME NEW w \in Workers, LeaseLost(w) \/ Crash(w) PROVE Contract!Next
  <2>1. job[w] # 0
    BY <1>7 DEF LeaseLost, Crash, WorkerSound
  <2>2. Contract!Forget(w)
    BY <1>7, <2>1 DEF LeaseLost, Crash, Idle, rowVars, Contract!Forget, Contract!Forgets
  <2> QED BY <2>2 DEF Contract!Next
<1>8. ASSUME NEW w \in Workers, processJob(w)
      PROVE  Contract!Next \/ UNCHANGED Contract!vars
  <2>1. CASE StartIngest(w) \/ Ingest(w)
    BY <1>1, <2>1 DEF StartIngest, Ingest, rowVars
  <2>2. CASE rejectLease(w) \/ completeReviewedLease(w)
    BY <2>2, DecideStep DEF rejectLease, completeReviewedLease, CompletesFrom
  <2>3. CASE failLease(w)
    <3>1. attempts[job[w]] \in Nat
      BY <2>3 DEF failLease, WorkerSound, TypeOK
    <3> QED BY <2>3, <3>1, DecideStep DEF failLease
  <2> QED BY <1>7, <1>8, <2>1, <2>2, <2>3 DEF processJob
<1>9. CASE DayPasses \/ RederiveRead \/ RederiveWrite \/ RederiveCrash
  BY <1>1, <1>9 DEF DayPasses, RederiveRead, RederiveWrite, RederiveCrash, rowVars, workerVars
<1>10. ASSUME NEW p \in Projections, projectTarget(p)
       PROVE  Contract!Next \/ UNCHANGED Contract!vars
  BY <1>1, <1>4, <1>10 DEF projectTarget, getEffectiveForTarget, Projects,
     applyCaseEvolutionFeedbackProjection, markTargetApplied, ProjectionFails, ProjectionEnds,
     rowVars, workerVars
<1>11. ASSUME NEW c \in Candidates, NEW n \in BOOLEAN, append(c, n)
       PROVE  UNCHANGED Contract!vars
  BY <1>11, ContractStutter DEF append, rowVars, workerVars, StatusOf, LiveOf
<1> QED BY <1>1, <1>2, <1>3, <1>5, <1>6, <1>7, <1>8, <1>9, <1>10, <1>11, ClaimRefines
    DEF Next, vars, rowVars, workerVars

(* The outbox implements the contract of its leases.                       *)
THEOREM ContractTheorem == Spec => ImplementsFencedOutbox
<1>1. Init => Contract!Init
  BY ContractInit
<1>2. IInv /\ [Next]_vars => [Contract!Next]_(Contract!vars)
  BY ContractNext
<1> QED BY <1>1, <1>2, Inductive, PTL DEF Spec, ImplementsFencedOutbox, Contract!Spec

=============================================================================
