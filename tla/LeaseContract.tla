---------------------------- MODULE LeaseContract ----------------------------
(***************************************************************************)
(* What the lease store (LeaseStore) promises to those who hold a lease,   *)
(* without rows, statements, TTLs or the health of processors.  A lease is *)
(* opened by its first member, others join, and each member stays until it *)
(* leaves or is late; a late one may be dropped at any time.  A lease that *)
(* drains takes no one in.  It is released with its last member gone, and  *)
(* only a failure ends it for members that are still there.                *)
(***************************************************************************)
EXTENDS Naturals

CONSTANTS Leases, Traces, NoTrace, Holders

VARIABLES
  phase,    \* "unused", "open", "draining", "released" or "failed"
  mode,     \* "shared" or "isolated"
  trace,
  members,  \* who holds the lease
  late      \* members that have not renewed in time

vars == <<phase, mode, trace, members, late>>

Init ==
  /\ phase = [l \in Leases |-> "unused"]
  /\ mode = [l \in Leases |-> "shared"]
  /\ trace = [l \in Leases |-> NoTrace]
  /\ members = [l \in Leases |-> {}]
  /\ late = [l \in Leases |-> {}]

Others(t, phases) == {l \in Leases : trace[l] = t /\ phase[l] \in phases}

(* h is a member, and in time.                                             *)
Renewed(l, h) ==
  /\ members' = [members EXCEPT ![l] = @ \cup {h}]
  /\ late' = [late EXCEPT ![l] = @ \ {h}]

(* A trace that is being drained gets no new lease, and one that has a     *)
(* shared lease no other shared one.                                       *)
Open(l, t, m, h) ==
  /\ phase[l] = "unused"
  /\ Others(t, {"draining"}) = {}
  /\ m = "shared" => \A k \in Others(t, {"open"}) : mode[k] # "shared"
  /\ phase' = [phase EXCEPT ![l] = "open"]
  /\ mode' = [mode EXCEPT ![l] = m]
  /\ trace' = [trace EXCEPT ![l] = t]
  /\ Renewed(l, h)

Join(l, h) ==
  /\ phase[l] = "open"
  /\ Renewed(l, h)
  /\ UNCHANGED <<phase, mode, trace>>

(* A member of a lease that drains, or that has failed, may stay.          *)
Renew(l, h) ==
  /\ h \in members[l]
  /\ Renewed(l, h)
  /\ UNCHANGED <<phase, mode, trace>>

(* A lease may be released when nobody holds it any more.                  *)
Ends(l, from) ==
  phase'[l] \in IF from = "draining" /\ members'[l] = {}
                THEN {"draining", "released"} ELSE {from}

Leave(l, h) ==
  /\ members' = [members EXCEPT ![l] = @ \ {h}]
  /\ late' = [late EXCEPT ![l] = @ \ {h}]
  /\ \E p \in {phase[l], "released"} : phase' = [phase EXCEPT ![l] = p]
  /\ Ends(l, phase[l])
  /\ UNCHANGED <<mode, trace>>

Drain(l) ==
  /\ phase[l] \in {"open", "draining"}
  /\ \E p \in {"draining", "released"} : phase' = [phase EXCEPT ![l] = p]
  /\ Ends(l, "draining")
  /\ UNCHANGED <<mode, trace, members, late>>

Fail(l) ==
  /\ phase[l] \in {"open", "draining"}
  /\ phase' = [phase EXCEPT ![l] = "failed"]
  /\ UNCHANGED <<mode, trace, members, late>>

(* Time passes for all members.                                            *)
TimePasses ==
  /\ late' \in [Leases -> SUBSET Holders]
  /\ \A l \in Leases : late[l] \subseteq late'[l] /\ late'[l] \subseteq members[l]
  /\ UNCHANGED <<phase, mode, trace, members>>

(* Late members are dropped, and leases without members are released.      *)
Expire ==
  /\ \E gone \in [Leases -> SUBSET Holders] :
       /\ \A l \in Leases : gone[l] \subseteq late[l]
       /\ members' = [l \in Leases |-> members[l] \ gone[l]]
       /\ late' = [l \in Leases |-> late[l] \ gone[l]]
  /\ \E R \in SUBSET Leases :
       /\ \A l \in R : phase[l] \in {"open", "draining"} /\ members'[l] = {}
       /\ phase' = [l \in Leases |-> IF l \in R THEN "released" ELSE phase[l]]
  /\ UNCHANGED <<mode, trace>>

Next ==
  \/ \E l \in Leases, h \in Holders :
       \/ \E t \in Traces, m \in {"shared", "isolated"} : Open(l, t, m, h)
       \/ Join(l, h) \/ Renew(l, h) \/ Leave(l, h)
  \/ \E l \in Leases : Drain(l) \/ Fail(l)
  \/ TimePasses
  \/ Expire

Spec == Init /\ [][Next]_vars

=============================================================================
