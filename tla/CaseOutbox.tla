----------------------------- MODULE CaseOutbox -----------------------------
(***************************************************************************)
(* The outbox of case candidates and the workers that review them:         *)
(* services/caseEvolution/caseCandidateOutbox.ts (one SQLite table), the   *)
(* fenced leases of services/evolutionLifecycle/scopedOutbox.ts, the jobs  *)
(* of caseEvolutionWorker.ts, and the learned cases that                   *)
(* caseCandidateIngester.ts derives from reviewed candidates.  Feedback on *)
(* a candidate is kept in a store of its own, selfEvolution/               *)
(* feedbackEventStore.ts, and projected on the row and then on the case by *)
(* feedbackProjectionService.ts: three stores, no common transaction.      *)
(*                                                                         *)
(* Several processes share the table and the case library (backends, the   *)
(* CLIs), so every statement is an action and any two may be interleaved.  *)
(* A worker is one run of processJob; a process may have several, also     *)
(* from ticks that overlap.  A run has no name of its own: it gets a fixed *)
(* one of those that are free.                                             *)
(*                                                                         *)
(* Abstractions.  A candidate's id is its place in the order of            *)
(* created_at (nobody sets a priority).  The random token of a lease is    *)
(* the number of the attempt, which no other lease of the row has; time is *)
(* the set of leases that have run out, and a renewal keeps a lease out of *)
(* it.  A learned case is its status in the library; edges and chunks are  *)
(* written with it.  Of the renewals, which change nothing here, only the  *)
(* last before the ingest counts: what ends a lease is fenced itself.      *)
(* Of the feedback on a candidate only its verdict counts, so an append    *)
(* stands for all those up to one that is projected.  A run of             *)
(* projectTarget has no name of its own, like a worker.  It lists a target *)
(* and reads its feedback in one step: if the revision moves in between,   *)
(* the target is not marked, like by a run that lists later and fails.     *)
(***************************************************************************)
EXTENDS Naturals, FiniteSets

CONSTANTS
  NumCandidates,
  key,            \* dedupe_key of a candidate
  Workers,
  maxAttempts,
  queueMax,
  dailyBudget,
  ingestEnabled,
  MaxEvents,      \* bound on the events once c candidates have been saved
  Projections     \* runs of projectTarget at a time

Candidates == 1 .. NumCandidates

ASSUME CaseAssumption ==
  /\ NumCandidates \in Nat
  /\ maxAttempts \in Nat \ {0}
  /\ queueMax \in Nat \ {0}
  /\ dailyBudget \in Nat \ {0}
  /\ ingestEnabled \in BOOLEAN
  /\ MaxEvents \in [Candidates -> Nat]

VARIABLES
  state,       \* of the row; "absent" before and "skipped" if never stored
  attempts,
  leaseToken,  \* 0 if the row is not leased
  expired,     \* rows whose lease_until has passed
  rejected,    \* rows with feedback_projection_rejected
  learned,     \* rows with a learned_case_id
  recent,      \* settled or rejected rows updated in the last 24 hours
  library,     \* status of the learned case of a candidate
  suspended,   \* cases with a statusBeforeFeedbackProjection
  pc,          \* what a worker does next
  job,         \* the candidate a worker reviews, 0 for none
  token,       \* the token of its fence
  rederiving,  \* whether the rederive CLI has read the rows
  kept,        \* the rows it found reviewed
  feedback,    \* whether the effective feedback on a candidate rejects it
  revision,    \* its revision, 0 for none
  applied,     \* its applied_revision, 0 for none
  step,        \* what a run of projectTarget has done
  target,      \* its candidate, 0 for none
  listed,      \* the revision it listed
  negative,    \* the verdict it read
  overtaken,   \* candidates written to from data that was no longer true:
               \* an outdated verdict, or a row not yet rejected
  events       \* appends, projections and rederives so far

rowVars == <<state, attempts, leaseToken, expired, rejected, learned, recent>>
caseVars == <<library, suspended, overtaken>>
workerVars == <<pc, job, token>>
cliVars == <<rederiving, kept>>
runVars == <<step, target, listed, negative>>
projectionVars == <<feedback, revision, applied, runVars>>
vars == <<rowVars, caseVars, workerVars, cliVars, projectionVars, events>>

States == {"absent", "skipped", "pending_review", "reviewed", "rejected"}
Steps == {"idle", "reviewing", "ingesting", "ingested"}

TypeOK ==
  /\ state \in [Candidates -> States]
  /\ attempts \in [Candidates -> 0 .. maxAttempts]
  /\ leaseToken \in [Candidates -> 0 .. maxAttempts]
  /\ expired \subseteq Candidates
  /\ rejected \subseteq Candidates
  /\ learned \subseteq Candidates
  /\ recent \subseteq Candidates
  /\ library \in [Candidates -> {"none", "draft", "private"}]
  /\ suspended \subseteq Candidates
  /\ pc \in [Workers -> Steps]
  /\ job \in [Workers -> Candidates \cup {0}]
  /\ token \in [Workers -> 0 .. maxAttempts]
  /\ rederiving \in BOOLEAN
  /\ kept \subseteq Candidates
  /\ feedback \in [Candidates -> BOOLEAN]
  /\ revision \in [Candidates -> Nat]
  /\ applied \in [Candidates -> Nat]
  /\ \A c \in Candidates : applied[c] <= revision[c]
  /\ step \in [Projections -> {"ready", "read", "row", "case"}]
  /\ target \in [Projections -> Candidates \cup {0}]
  /\ listed \in [Projections -> Nat]
  /\ negative \in [Projections -> BOOLEAN]
  /\ overtaken \subseteq Candidates
  /\ events \in Nat

Init ==
  /\ state = [c \in Candidates |-> "absent"]
  /\ attempts = [c \in Candidates |-> 0]
  /\ leaseToken = [c \in Candidates |-> 0]
  /\ expired = {}
  /\ rejected = {}
  /\ learned = {}
  /\ recent = {}
  /\ library = [c \in Candidates |-> "none"]
  /\ suspended = {}
  /\ pc = [w \in Workers |-> "idle"]
  /\ job = [w \in Workers |-> 0]
  /\ token = [w \in Workers |-> 0]
  /\ rederiving = FALSE
  /\ kept = {}
  /\ feedback = [c \in Candidates |-> FALSE]
  /\ revision = [c \in Candidates |-> 0]
  /\ applied = [c \in Candidates |-> 0]
  /\ step = [p \in Projections |-> "ready"]
  /\ target = [p \in Projections |-> 0]
  /\ listed = [p \in Projections |-> 0]
  /\ negative = [p \in Projections |-> FALSE]
  /\ overtaken = {}
  /\ events = 0

-----------------------------------------------------------------------------
(* The rows.                                                               *)

Pending(c) == state[c] = "pending_review" /\ c \notin rejected

pendingCount ==
  Cardinality({c \in Candidates : Pending(c) /\ leaseToken[c] = 0})

(* The unique index on dedupe_key holds pending and reviewed rows, those   *)
(* that a feedback rejects among them.                                     *)
Duplicate(c) ==
  \E d \in Candidates :
    key[d] = key[c] /\ state[d] \in {"pending_review", "reviewed"}

(* saveCaseCandidates: stored, or dropped for good.                        *)
enqueue(c) ==
  /\ state[c] = "absent"
  /\ \A d \in 1 .. c - 1 : state[d] # "absent"
  /\ events <= MaxEvents[c]
  /\ state' = [state EXCEPT ![c] =
       IF pendingCount >= queueMax \/ Duplicate(c) THEN "skipped"
       ELSE "pending_review"]
  /\ UNCHANGED <<attempts, leaseToken, expired, rejected, learned, recent,
                 caseVars, workerVars, cliVars, projectionVars, events>>

(* todayReviewed + todayFailed; a reviewed row that a feedback rejects     *)
(* counts twice.                                                           *)
dailyBudgetUsed ==
  Cardinality({c \in recent : state[c] = "reviewed"})
    + Cardinality({c \in recent : state[c] = "rejected" \/ c \in rejected})

DayPasses ==
  /\ recent # {}
  /\ recent' = {}
  /\ UNCHANGED <<state, attempts, leaseToken, expired, rejected, learned,
                 caseVars, workerVars, cliVars, projectionVars, events>>

Unleased(c) ==
  /\ leaseToken' = [leaseToken EXCEPT ![c] = 0]
  /\ expired' = expired \ {c}

LeaseExpires(c) ==
  /\ leaseToken[c] # 0
  /\ c \notin expired
  /\ expired' = expired \cup {c}
  /\ UNCHANGED <<state, attempts, leaseToken, rejected, learned, recent,
                 caseVars, workerVars, cliVars, projectionVars, events>>

(* The first statement of every tick.  An attempt that was lost is not     *)
(* given back.                                                             *)
StaleWithRetries(c) ==
  state[c] = "pending_review" /\ c \in expired /\ attempts[c] < maxAttempts
Stale(c) == state[c] = "pending_review" /\ leaseToken[c] # 0 /\ c \in expired

expireStaleLeases ==
  /\ \E c \in Candidates : Stale(c)
  /\ leaseToken' = [c \in Candidates |-> IF Stale(c) THEN 0 ELSE leaseToken[c]]
  /\ expired' = {c \in expired : ~Stale(c)}
  /\ UNCHANGED <<state, attempts, rejected, learned, recent,
                 caseVars, workerVars, cliVars, projectionVars, events>>

ClaimableAnyTime(c) == Pending(c) /\ leaseToken[c] = 0
Claimable(c) == Pending(c) /\ leaseToken[c] = 0 /\ attempts[c] < maxAttempts

-----------------------------------------------------------------------------
(* The workers.                                                            *)

Idle(w) ==
  /\ pc' = [pc EXCEPT ![w] = "idle"]
  /\ job' = [job EXCEPT ![w] = 0]
  /\ token' = [token EXCEPT ![w] = 0]

claimLease(w) ==
  /\ pc[w] = "idle"
  /\ w = CHOOSE v \in Workers : pc[v] = "idle"
  /\ dailyBudgetUsed < dailyBudget
  /\ \E c \in Candidates :
       /\ Claimable(c)
       /\ \A d \in 1 .. c - 1 : ~Claimable(d)
       /\ attempts' = [attempts EXCEPT ![c] = @ + 1]
       /\ leaseToken' = [leaseToken EXCEPT ![c] = attempts[c] + 1]
       /\ token' = [token EXCEPT ![w] = attempts[c] + 1]
       /\ job' = [job EXCEPT ![w] = c]
  /\ pc' = [pc EXCEPT ![w] = "reviewing"]
  /\ UNCHANGED <<state, expired, rejected, learned, recent,
                 caseVars, cliVars, projectionVars, events>>

(* The condition of every statement of the fence: changes = 1.             *)
FencedUnnumbered(w) ==
  Pending(job[w]) /\ leaseToken[job[w]] # 0 /\ job[w] \notin expired

Fenced(w) ==
  /\ Pending(job[w])
  /\ leaseToken[job[w]] = token[w]
  /\ job[w] \notin expired

(* renewForSideEffect.                                                     *)
StartIngest(w) ==
  /\ ingestEnabled
  /\ pc[w] = "reviewing"
  /\ Fenced(w)
  /\ pc' = [pc EXCEPT ![w] = "ingesting"]
  /\ UNCHANGED <<rowVars, caseVars, job, token, cliVars, projectionVars,
                 events>>

(* The lease ends with the row in state s.                                 *)
Settle(w, s) ==
  /\ Fenced(w)
  /\ state' = [state EXCEPT ![job[w]] = s]
  /\ Unleased(job[w])
  /\ recent' = IF s = "pending_review" THEN recent ELSE recent \cup {job[w]}
  /\ Idle(w)
  /\ UNCHANGED <<attempts, rejected, caseVars, cliVars, projectionVars,
                 events>>

(* A candidate without a scope, a review that does not hold up, a note     *)
(* that cannot be written, a decision other than to promote.               *)
rejectLease(w) ==
  /\ pc[w] = "reviewing"
  /\ Settle(w, "rejected")
  /\ UNCHANGED learned

(* markTransientFailure, also for every error nobody expects: the ingest   *)
(* may throw before or after the case is saved.                            *)
failLease(w) ==
  /\ pc[w] # "idle"
  /\ Settle(w, IF attempts[job[w]] >= maxAttempts THEN "rejected"
               ELSE "pending_review")
  /\ UNCHANGED learned

CompletesUningested == IF ingestEnabled THEN "ingesting" ELSE "reviewing"
CompletesFrom == IF ingestEnabled THEN "ingested" ELSE "reviewing"

completeReviewedLease(w) ==
  /\ pc[w] = CompletesFrom
  /\ Settle(w, "reviewed")
  /\ learned' = IF ingestEnabled THEN learned \cup {job[w]}
                ELSE learned \ {job[w]}

(* ScopedLeaseLostError: the worker drops the job.                         *)
LeaseLost(w) ==
  /\ pc[w] # "idle"
  /\ ~Fenced(w)
  /\ Idle(w)
  /\ UNCHANGED <<rowVars, caseVars, cliVars, projectionVars, events>>

(* saveCase writes the node anew.                                          *)
Saved(cs) ==
  /\ library' = [c \in Candidates |-> IF c \in cs THEN "draft" ELSE library[c]]
  /\ suspended' = suspended \ cs
  /\ overtaken' = overtaken \cup (cs \cap rejected)

(* ingestReviewedCaseCandidate looks at no row.                            *)
Ingest(w) ==
  /\ pc[w] = "ingesting"
  /\ Saved({job[w]})
  /\ pc' = [pc EXCEPT ![w] = "ingested"]
  /\ UNCHANGED <<rowVars, job, token, cliVars, projectionVars, events>>

Crash(w) ==
  /\ pc[w] # "idle"
  /\ Idle(w)
  /\ UNCHANGED <<rowVars, caseVars, cliVars, projectionVars, events>>

-----------------------------------------------------------------------------
(* Feedback, governance and the rederive CLI.                              *)

(* A learned case that feedback rejects is private and remembers what it   *)
(* was.  It is found without learned_case_id too, by its marker.           *)
Hide(c) ==
  /\ library' = [library EXCEPT ![c] = IF @ = "none" THEN @ ELSE "private"]
  /\ suspended' = IF library[c] = "draft" THEN suspended \cup {c}
                  ELSE suspended

Restore(c) ==
  /\ library' = [library EXCEPT ![c] = IF c \in suspended THEN "draft" ELSE @]
  /\ suspended' = suspended \ {c}

(* Appends, projections and rederives come from outside.  Their number is  *)
(* bounded, the more so the more candidates there are.                     *)
Event ==
  /\ \E c \in Candidates :
       /\ \A d \in Candidates : state[d] # "absent" <=> d <= c
       /\ events < MaxEvents[c]
  /\ events' = events + 1

(* Feedback is appended, and its target is dirty until a projection of this*)
(* revision is marked as applied.                                          *)
append(c, verdict) ==
  /\ Event
  /\ state[c] \notin {"absent", "skipped"}
  /\ feedback' = [feedback EXCEPT ![c] = verdict]
  /\ revision' = [revision EXCEPT ![c] = @ + 1]
  /\ overtaken' = overtaken \ {c}
  /\ UNCHANGED <<rowVars, library, suspended, workerVars, cliVars, applied,
                 runVars>>

(* projectTarget for a dirty target, after an append or from the migration *)
(* CLI.                                                                    *)
getEffectiveForTarget(p, c) ==
  /\ step[p] = "ready"
  /\ p = CHOOSE q \in Projections : step[q] = "ready"
  /\ applied[c] < revision[c]
  /\ Event
  /\ step' = [step EXCEPT ![p] = "read"]
  /\ target' = [target EXCEPT ![p] = c]
  /\ listed' = [listed EXCEPT ![p] = revision[c]]
  /\ negative' = [negative EXCEPT ![p] = feedback[c]]
  /\ UNCHANGED <<rowVars, caseVars, workerVars, cliVars, feedback, revision,
                 applied>>

Projects(p, from, to) ==
  /\ step[p] = from
  /\ step' = [step EXCEPT ![p] = to]
  /\ overtaken' = IF negative[p] = feedback[target[p]] THEN overtaken
                  ELSE overtaken \cup {target[p]}
  /\ UNCHANGED <<target, listed, negative, feedback, revision, applied,
                 workerVars, cliVars, events>>

(* syncCaseCandidateFeedbackProjection: a transaction on the row,          *)
applyFeedbackProjection(p) ==
  LET c == target[p]
  IN  /\ Projects(p, "read", "row")
      /\ rejected' = IF negative[p] THEN rejected \cup {c} ELSE rejected \ {c}
      /\ recent' = IF negative[p] \/ state[c] # "pending_review"
                   THEN recent \cup {c} ELSE recent \ {c}
      /\ IF negative[p] THEN Unleased(c) ELSE UNCHANGED <<leaseToken, expired>>
      /\ UNCHANGED <<state, attempts, learned, library, suspended>>

(* then, under the lock of the library, its learned case, if there is one. *)
applyCaseEvolutionFeedbackProjection(p) ==
  /\ Projects(p, "row", "case")
  /\ IF negative[p] THEN Hide(target[p]) ELSE Restore(target[p])
  /\ UNCHANGED rowVars

ProjectionEnds(p) ==
  /\ step' = [step EXCEPT ![p] = "ready"]
  /\ target' = [target EXCEPT ![p] = 0]
  /\ listed' = [listed EXCEPT ![p] = 0]
  /\ negative' = [negative EXCEPT ![p] = FALSE]
  /\ UNCHANGED <<rowVars, caseVars, workerVars, cliVars, events, feedback,
                 revision>>

markTargetUnfinished(p) ==
  /\ step[p] \in {"row", "case"}
  /\ listed[p] = revision[target[p]]
  /\ applied' = [applied EXCEPT ![target[p]] = listed[p]]
  /\ ProjectionEnds(p)

markTargetApplied(p) ==
  /\ step[p] = "case"
  /\ listed[p] = revision[target[p]]
  /\ applied' = [applied EXCEPT ![target[p]] = listed[p]]
  /\ ProjectionEnds(p)

(* case_library_busy, feedback_projection_revision_changed or a crash: what*)
(* was written stays, and the target stays dirty for the next run.         *)
ProjectionFails(p) ==
  /\ step[p] \in {"read", "row", "case"}
  /\ ProjectionEnds(p)
  /\ UNCHANGED applied

rejectForGovernance(c) ==
  /\ state[c] \in {"pending_review", "reviewed"}
  /\ leaseToken[c] = 0
  /\ state' = [state EXCEPT ![c] = "rejected"]
  /\ recent' = recent \cup {c}
  /\ UNCHANGED <<attempts, leaseToken, expired, rejected, learned,
                 caseVars, workerVars, cliVars, projectionVars, events>>

(* Only the tests call this so far.                                        *)
rejectReviewedForGovernance(c) ==
  /\ state[c] = "reviewed"
  /\ leaseToken[c] = 0
  /\ state' = [state EXCEPT ![c] = "rejected"]
  /\ recent' = recent \cup {c}
  /\ UNCHANGED <<attempts, leaseToken, expired, rejected, learned,
                 caseVars, workerVars, cliVars, projectionVars, events>>

(* rederiveLearnedCandidates reads the rows and sets learned_case_id where *)
(* it is missing (and does nothing in a scope without a row to report on), *)
RederiveRead ==
  /\ ~rederiving
  /\ \E c \in Candidates :
       state[c] \in {"reviewed", "rejected"} \/ c \in rejected
  /\ Event
  /\ rederiving' = TRUE
  /\ kept' = {c \in Candidates : state[c] = "reviewed" /\ c \notin rejected}
  /\ learned' = learned \cup kept'
  /\ recent' = recent \cup (kept' \ learned)
  /\ UNCHANGED <<state, attempts, leaseToken, expired, rejected,
                 caseVars, workerVars, projectionVars>>

(* then saves the cases of the rows it read and hides all others.          *)
RederiveWrite ==
  /\ rederiving
  /\ library' = [c \in Candidates |->
       IF c \in kept THEN "draft"
       ELSE IF library[c] = "draft" THEN "private" ELSE library[c]]
  /\ suspended' = suspended \ kept
  /\ overtaken' = overtaken \cup (kept \cap rejected)
  /\ rederiving' = FALSE
  /\ kept' = {}
  /\ UNCHANGED <<rowVars, workerVars, projectionVars, events>>

RederiveCrash ==
  /\ rederiving
  /\ rederiving' = FALSE
  /\ kept' = {}
  /\ UNCHANGED <<rowVars, caseVars, workerVars, projectionVars, events>>

-----------------------------------------------------------------------------
(* The steps of processJob once a candidate is claimed.                    *)
processJob(w) ==
  \/ StartIngest(w) \/ Ingest(w)
  \/ rejectLease(w) \/ failLease(w) \/ completeReviewedLease(w)
  \/ LeaseLost(w)

projectTarget(p) ==
  \/ \E c \in Candidates : getEffectiveForTarget(p, c)
  \/ applyFeedbackProjection(p) \/ applyCaseEvolutionFeedbackProjection(p)
  \/ markTargetApplied(p) \/ ProjectionFails(p)

Next ==
  \/ \E c \in Candidates :
       \/ enqueue(c) \/ LeaseExpires(c)
       \/ \E verdict \in BOOLEAN : append(c, verdict)
       \/ rejectReviewedForGovernance(c)
  \/ \E w \in Workers : claimLease(w) \/ processJob(w) \/ Crash(w)
  \/ \E p \in Projections : projectTarget(p)
  \/ expireStaleLeases \/ DayPasses
  \/ RederiveRead \/ RederiveWrite \/ RederiveCrash

Spec == Init /\ [][Next]_vars

(* Time passes, some backend ticks, and a review comes to an end (the SDK  *)
(* call has a timeout).  One of them in the end is enough: each of them    *)
(* uses up something that only feedback and the CLIs renew.                *)
Progress ==
  \/ \E c \in Candidates : LeaseExpires(c)
  \/ DayPasses
  \/ expireStaleLeases
  \/ \E w \in Workers : claimLease(w) \/ processJob(w)

FairSpec == Spec /\ WF_vars(Progress)

-----------------------------------------------------------------------------
(* Properties.                                                             *)

(* With ingest switched on, a candidate that is reviewed has its case in   *)
(* the library, whoever crashed or raced on the way: the case is saved     *)
(* before the row says reviewed, and no feedback or rederive removes it.   *)
ReviewedCaseExists ==
  ingestEnabled =>
    \A c \in Candidates : state[c] = "reviewed" => library[c] # "none"

(* A candidate whose last attempt was lost is pending, but nobody will     *)
(* ever claim, settle or reject it: it holds its dedupe key and its place  *)
(* in the queue for good (leaseNext asks for attempts < maxAttempts, and   *)
(* only failLease rejects).                                                *)
Exhausted(c) ==
  state[c] = "pending_review" /\ leaseToken[c] = 0 /\ attempts[c] = maxAttempts

ExhaustedIsTerminal ==
  [][\A c \in Candidates : Exhausted(c) => Exhausted(c)']_vars

(* A feedback that is marked as applied is in force in both stores: if it  *)
(* rejects its candidate the row is rejected and the case is not visible,  *)
(* and if it no longer does, the row is not and nothing of the case is left*)
(* to restore; whatever interleaves, is busy or dies on the way.  What can *)
(* undo it until the next append is a writer with old data: a projection of*)
(* an older verdict, a worker that saves the case of a row that feedback   *)
(* has rejected, or a rederive that read the row before.                   *)
Visible(c) == c \in rejected /\ library[c] = "draft"

InForce(c) ==
  /\ c \in rejected <=> feedback[c]
  /\ ~Visible(c)
  /\ ~feedback[c] => c \notin suspended

AppliedFeedbackIsInForce ==
  \A c \in Candidates \ overtaken : applied[c] = revision[c] => InForce(c)

(* A pending candidate is reviewed or rejected in the end, unless feedback *)
(* rejects it or its attempts were all lost: no lease is kept for ever, no *)
(* review is left undone for another candidate or for the daily budget.    *)
ReviewEnds ==
  \A c \in Candidates :
    state[c] = "pending_review" ~> ~Pending(c) \/ Exhausted(c)

(* The outbox keeps the contract of scopedOutbox.ts: a claim is live until *)
(* its time is up, not until a sweep finds it, and only its worker decides.*)
Status(s) ==
  CASE s \in {"absent", "skipped"} -> "absent"
    [] s = "pending_review" -> "open"
    [] s = "reviewed" -> "accepted"
    [] s = "rejected" -> "refused"

Contract == INSTANCE FencedOutbox WITH
  Jobs <- Candidates,
  MaxClaims <- maxAttempts,
  status <- [c \in Candidates |-> Status(state[c])],
  claims <- attempts,
  live <- [c \in Candidates |-> IF c \in expired THEN 0 ELSE leaseToken[c]],
  claim <- token

ImplementsFencedOutbox == Contract!Spec

=============================================================================
