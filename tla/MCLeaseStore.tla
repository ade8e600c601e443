---------------------------- MODULE MCLeaseStore ----------------------------
(* Small instances of LeaseStore.  One unit of time is long enough for a   *)
(* heartbeat of a short policy to expire; the long policy outlives it, as  *)
(* the policies of a visible and of an offline browser window do.          *)
EXTENDS LeaseStore, TLC

Short == [heartbeat |-> 1, idle |-> 2]
Long == [heartbeat |-> 2, idle |-> 2]
MCPolicies == {Short, Long}
ShortOnly == {Short}

Symmetry == Permutations(Leases) \cup Permutations(Holders)
=============================================================================
