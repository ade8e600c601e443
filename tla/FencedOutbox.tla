---------------------------- MODULE FencedOutbox ----------------------------
(***************************************************************************)
(* What an outbox with fenced leases (CaseOutbox) promises: a job is       *)
(* worked on under claims that are numbered, one claim at a time is live,  *)
(* and only the worker with the live claim decides what becomes of the     *)
(* job.  A claim may end at any time; its worker, who need not know, can   *)
(* do nothing more to the job.  How a claim ends (a deadline, a sweep, a   *)
(* feedback) is left open, and so is what the workers do outside.          *)
(***************************************************************************)
EXTENDS Naturals

CONSTANTS Jobs, Workers, MaxClaims

VARIABLES
  status,  \* "absent", "open", "accepted" or "refused"
  claims,  \* number of claims a job has had
  live,    \* the number of the live claim of a job, 0 if there is none
  job,     \* the job a worker believes to hold, 0 for none
  claim    \* and the number of its claim

vars == <<status, claims, live, job, claim>>

Init ==
  /\ status = [j \in Jobs |-> "absent"]
  /\ claims = [j \in Jobs |-> 0]
  /\ live = [j \in Jobs |-> 0]
  /\ job = [w \in Workers |-> 0]
  /\ claim = [w \in Workers |-> 0]

Add(j) ==
  /\ status[j] = "absent"
  /\ status' = [status EXCEPT ![j] = "open"]
  /\ UNCHANGED <<claims, live, job, claim>>

(* A claim gets a number no earlier claim of the job has had.              *)
Claim(w, j) ==
  /\ job[w] = 0
  /\ status[j] = "open"
  /\ live[j] = 0
  /\ claims[j] < MaxClaims
  /\ claims' = [claims EXCEPT ![j] = @ + 1]
  /\ live' = [live EXCEPT ![j] = claims[j] + 1]
  /\ job' = [job EXCEPT ![w] = j]
  /\ claim' = [claim EXCEPT ![w] = claims[j] + 1]
  /\ UNCHANGED status

Forgets(w) ==
  /\ job' = [job EXCEPT ![w] = 0]
  /\ claim' = [claim EXCEPT ![w] = 0]

(* The worker with the live claim decides; it hands the job back only when *)
(* there is a claim left to try it again with.                             *)
Decide(w) ==
  /\ job[w] # 0
  /\ live[job[w]] = claim[w]
  /\ \E s \in {"accepted", "refused", "open"} :
       /\ s = "open" => claims[job[w]] < MaxClaims
       /\ status' = [status EXCEPT ![job[w]] = s]
  /\ live' = [live EXCEPT ![job[w]] = 0]
  /\ Forgets(w)
  /\ UNCHANGED claims

(* A worker dies, or learns that its claim has ended.                      *)
Forget(w) ==
  /\ job[w] # 0
  /\ Forgets(w)
  /\ UNCHANGED <<status, claims, live>>

Revoke(j) ==
  /\ live[j] # 0
  /\ live' = [live EXCEPT ![j] = 0]
  /\ UNCHANGED <<status, claims, job, claim>>

(* Governance takes back what was accepted.                                *)
Overrule(j) ==
  /\ status[j] = "accepted"
  /\ status' = [status EXCEPT ![j] = "refused"]
  /\ UNCHANGED <<claims, live, job, claim>>

Next ==
  \/ \E j \in Jobs : Add(j) \/ Revoke(j) \/ Overrule(j)
  \/ \E w \in Workers :
       Decide(w) \/ Forget(w) \/ \E j \in Jobs : Claim(w, j)

Spec == Init /\ [][Next]_vars

=============================================================================
