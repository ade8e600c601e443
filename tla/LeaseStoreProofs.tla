-------------------------- MODULE LeaseStoreProofs --------------------------
(***************************************************************************)
(* Proofs about LeaseStore for any set of leases, traces, holders and TTL  *)
(* policies.  Each safety property is inductive together with TypeOK, so   *)
(* each has a lemma "Next preserves it" with one step per operation; the   *)
(* theorems add Init and temporal logic.  The refinement of LeaseContract  *)
(* is at the end.                                                          *)
(***************************************************************************)
EXTENDS LeaseStore, TLAPS

(* The states an operation can read or write are closed under it.          *)
LEMMA RefreshedType ==
  ASSUME NEW s \in LiveStates \cup Terminal \cup {"absent"}, NEW hs
  PROVE  Refreshed(s, hs) \in LiveStates \cup Terminal \cup {"absent"}
BY DEF Refreshed, LiveStates, Terminal, Serving

(* Renewing a holder row keeps the holder table well typed.               *)
LEMMA RenewType ==
  ASSUME TypeOK, NEW l \in Leases, NEW h \in Holders, NEW p \in Policies,
         RenewHolder(l, h, p)
  PROVE  /\ holders' \in [Leases -> SUBSET Holders]
         /\ holderLeft' \in [Leases -> [Holders -> Nat]]
<1>1. p.heartbeat \in Nat
  BY LeaseAssumption
<1>2. holders' \in [Leases -> SUBSET Holders]
  BY DEF TypeOK, RenewHolder
<1>3. holderLeft' \in [Leases -> [Holders -> Nat]]
  BY <1>1 DEF TypeOK, RenewHolder
<1> QED BY <1>2, <1>3

(* Extending a lease keeps its remaining time a natural number.          *)
LEMMA ExtendType ==
  ASSUME TypeOK, NEW l \in Leases, NEW p \in Policies, ExtendLease(l, p)
  PROVE  leaseLeft' \in [Leases -> Nat]
<1>1. p.idle \in Nat
  BY LeaseAssumption
<1> QED BY <1>1 DEF TypeOK, ExtendLease, Longer

(* Deleting a holder row keeps the holder table well typed.               *)
LEMMA DropType ==
  ASSUME TypeOK, NEW l \in Leases, NEW h \in Holders, DropHolder(l, h)
  PROVE  /\ holders' \in [Leases -> SUBSET Holders]
         /\ holderLeft' \in [Leases -> [Holders -> Nat]]
BY DEF TypeOK, DropHolder

(* A crash keeps the crash counter within its bound.                      *)
LEMMA CutType ==
  ASSUME TypeOK, Cut
  PROVE  crashes' \in 0..MaxCrashes
BY LeaseAssumption DEF TypeOK, Cut

(* The empty tables are well typed.                                       *)
LEMMA TypeInit == Init => TypeOK
BY LeaseAssumption DEF Init, TypeOK, Modes

(* Every operation, complete or cut short, keeps the tables well typed.   *)
LEMMA TypeNext == TypeOK /\ [Next]_vars => TypeOK'
<1> SUFFICES ASSUME TypeOK, [Next]_vars PROVE TypeOK'
  OBVIOUS
<1> USE DEF Modes
<1>1. CASE UNCHANGED vars
  BY <1>1 DEF TypeOK, vars
<1>2. ASSUME NEW h \in Holders, NEW p \in Policies, NEW t \in Traces,
             NEW m \in Modes, AcquireHolder(t, m, h, p)
      PROVE  TypeOK'
  <2>1. CASE AcquireShared(t, h, p)
    <3>1. PICK l \in LeasesOf(t) :
            /\ RenewHolder(l, h, p)
            /\ ExtendLease(l, p)
            /\ state' = [state EXCEPT ![l] = Refreshed(@, holders'[l])]
      BY <2>1 DEF AcquireShared
    <3>2. l \in Leases
      BY DEF LeasesOf
    <3>3. state' \in [Leases -> LiveStates \cup Terminal \cup {"absent"}]
      BY <3>1, <3>2, RefreshedType DEF TypeOK
    <3> QED BY <2>1, <3>1, <3>2, <3>3, RenewType, ExtendType DEF TypeOK, AcquireShared
  <2>2. CASE AcquireNew(t, m, h, p)
    <3>1. PICK l \in Leases :
            /\ state' = [state EXCEPT ![l] = "pending"]
            /\ mode' = [mode EXCEPT ![l] = m]
            /\ trace' = [trace EXCEPT ![l] = t]
            /\ RenewHolder(l, h, p)
            /\ ExtendLease(l, p)
      BY <2>2 DEF AcquireNew
    <3>2. state' \in [Leases -> LiveStates \cup Terminal \cup {"absent"}]
      BY <3>1 DEF TypeOK, LiveStates
    <3>3. mode' \in [Leases -> Modes] /\ trace' \in [Leases -> Traces \cup {NoTrace}]
      BY <3>1 DEF TypeOK
    <3> QED BY <2>2, <3>1, <3>2, <3>3, RenewType, ExtendType DEF TypeOK, AcquireNew
  <2> QED BY <1>2, <2>1, <2>2 DEF AcquireHolder
<1>3. ASSUME NEW h \in Holders, NEW p \in Policies, NEW l \in Leases,
             \/ AcquireHolderForLease(l, h, p)
             \/ HeartbeatHolder(l, h, p)
      PROVE  TypeOK'
  <2>1. /\ RenewHolder(l, h, p)
        /\ ExtendLease(l, p)
        /\ state' = [state EXCEPT ![l] = Refreshed(@, holders'[l])]
        /\ UNCHANGED <<mode, trace, crashes>>
    BY <1>3 DEF AcquireHolderForLease, HeartbeatHolder
  <2>2. state' \in [Leases -> LiveStates \cup Terminal \cup {"absent"}]
    BY <2>1, RefreshedType DEF TypeOK
  <2> QED BY <2>1, <2>2, RenewType, ExtendType DEF TypeOK
<1>4. ASSUME NEW h \in Holders, NEW p \in Policies, NEW l \in Leases,
             HeartbeatHolderCut(l, h, p)
      PROVE  TypeOK'
  BY <1>4, RenewType, ExtendType, CutType DEF TypeOK, HeartbeatHolderCut
<1>5. ASSUME NEW l \in Leases, NEW h \in Holders,
             ReleaseHolder(l, h) \/ ReleaseHolderCut(l, h)
      PROVE  TypeOK'
  <2>1. CASE ReleaseHolder(l, h)
    <3>1. state' \in [Leases -> LiveStates \cup Terminal \cup {"absent"}]
      BY <2>1, RefreshedType DEF TypeOK, ReleaseHolder
    <3> QED BY <2>1, <3>1, DropType DEF TypeOK, ReleaseHolder
  <2>2. CASE ReleaseHolderCut(l, h)
    BY <2>2, DropType, CutType DEF TypeOK, ReleaseHolderCut
  <2> QED BY <1>5, <2>1, <2>2
<1>6. ASSUME NEW l \in Leases,
             \/ MarkStarting(l) \/ MarkCrashed(l) \/ MarkRestarting(l)
             \/ MarkFailed(l) \/ MarkReadyCut(l) \/ BeginDrainingCut(l)
      PROVE  TypeOK'
  <2>1. crashes' \in 0..MaxCrashes
    BY <1>6, CutType DEF MarkStarting, MarkCrashed, MarkRestarting, MarkFailed,
                         MarkReadyCut, BeginDrainingCut, TypeOK
  <2>2. PICK s \in LiveStates \cup Terminal : Mark(l, s)
    BY <1>6 DEF MarkStarting, MarkCrashed, MarkRestarting, MarkFailed,
                MarkReadyCut, BeginDrainingCut, LiveStates, Terminal
  <2> QED BY <2>1, <2>2 DEF Mark, TypeOK
<1>7. ASSUME NEW l \in Leases, MarkReady(l) \/ BeginDraining(l)
      PROVE  TypeOK'
  <2>1. PICK s \in LiveStates : MarkAndRefresh(l, s)
    BY <1>7 DEF MarkReady, BeginDraining, LiveStates
  <2> QED BY <2>1, RefreshedType DEF MarkAndRefresh, TypeOK
<1>8. ASSUME NEW R, SweepWrites(R), crashes' \in 0..MaxCrashes
      PROVE  TypeOK'
  <2>1. \A l \in Leases : Unexpired(l) \in SUBSET Holders
    BY DEF TypeOK, Unexpired
  <2>2. \A l \in Leases : Demoted(l) \in LiveStates \cup Terminal \cup {"absent"}
    BY DEF TypeOK, Demoted, LiveStates
  <2>3. state' \in [Leases -> LiveStates \cup Terminal \cup {"absent"}]
    BY <1>8, <2>2 DEF SweepWrites, Terminal
  <2> QED BY <1>8, <2>1, <2>3 DEF SweepWrites, TypeOK
<1>9. CASE SweepExpired
  BY <1>8, <1>9 DEF SweepExpired, TypeOK
<1>10. CASE SweepCutLate
  BY <1>8, <1>10, CutType DEF SweepCutLate
<1>11. CASE SweepCutEarly
  BY <1>11, CutType DEF SweepCutEarly, TypeOK, Unexpired
<1>12. CASE Tick
  <2>1. \A n \in Nat : Sooner(n) \in Nat
    BY DEF Sooner
  <2>2. leaseLeft' \in [Leases -> Nat]
    BY <1>12, <2>1 DEF Tick, TypeOK
  <2>3. holderLeft' \in [Leases -> [Holders -> Nat]]
    BY <1>12, <2>1 DEF Tick, TypeOK
  <2> QED BY <1>12, <2>2, <2>3 DEF Tick, TypeOK
<1> QED BY <1>1, <1>2, <1>3, <1>4, <1>5, <1>6, <1>7, <1>9, <1>10, <1>11, <1>12
        DEF Next, HolderCall, LeaseCall, Supervision

(* Every reachable state is well typed: in particular a lease row is       *)
(* always in one of the states of the transition table.                    *)
THEOREM TypeCorrect == Spec => []TypeOK
BY TypeInit, TypeNext, PTL DEF Spec

-----------------------------------------------------------------------------
(* What one step may do to the row of l, whichever operation takes it.     *)
RowRules(l) ==
  /\ state'[l] = "absent" => state[l] = "absent"
  /\ state[l] = "absent" => state'[l] \in {"absent", "pending"}
  /\ state[l] \in Terminal => state'[l] = state[l]
  /\ state[l] = "draining" => state'[l] \in {"draining"} \cup Terminal
  /\ state'[l] \in Serving => state[l] \in Serving \cup {"starting", "restarting"}
  /\ state'[l] = "released" => state[l] = "released" \/ holders'[l] = {}
  /\ state[l] \notin Acquirable \cup {"absent"} => holders'[l] \subseteq holders[l]

(* Rows other than a newly inserted one keep their mode and trace, and no  *)
(* row comes into being.                                                   *)
OldRowsOnly ==
  /\ UNCHANGED <<mode, trace>>
  /\ \A l \in Leases : state[l] = "absent" => state'[l] = "absent"

Inserts ==
  \E h \in Holders, p \in Policies, t \in Traces, m \in Modes :
    NotDraining(t) /\ AcquireNew(t, m, h, p)

(* An operation that upserts holder h of one row and refreshes it.         *)
LEMMA RenewRules ==
  ASSUME TypeOK, NEW k \in Leases, NEW h \in Holders, NEW p \in Policies,
         RenewHolder(k, h, p),
         state' = [state EXCEPT ![k] = Refreshed(@, holders'[k])],
         state[k] \in Acquirable \/ (h \in holders[k] /\ state[k] # "absent"),
         NEW l \in Leases
  PROVE  RowRules(l)
<1>1. holders' = [holders EXCEPT ![k] = @ \cup {h}]
  BY DEF RenewHolder
<1>2. holders'[k] # {} /\ state'[k] = Refreshed(state[k], holders'[k])
  BY <1>1 DEF TypeOK
<1>3. CASE l = k
  BY <1>1, <1>2, <1>3 DEF TypeOK, RowRules, Refreshed, Acquirable, LiveStates,
                          Terminal, Serving
<1>4. CASE l # k
  BY <1>1, <1>4 DEF TypeOK, RowRules, Serving
<1> QED BY <1>3, <1>4

(* Every operation obeys the row rules, and none but a first acquire      *)
(* brings a row into being.                                              *)
LEMMA StepRules ==
  ASSUME TypeOK, [Next]_vars
  PROVE  /\ \A l \in Leases : RowRules(l)
         /\ OldRowsOnly \/ Inserts
<1>0. ASSUME UNCHANGED state, \A l \in Leases : holders'[l] \subseteq holders[l],
             NEW l \in Leases
      PROVE  RowRules(l)
  BY <1>0 DEF RowRules, TypeOK, Serving
<1>1. CASE UNCHANGED vars
  BY <1>0, <1>1 DEF vars, OldRowsOnly
<1>2. ASSUME NEW h \in Holders, NEW p \in Policies, NEW t \in Traces,
             NEW m \in Modes, AcquireHolder(t, m, h, p)
      PROVE  (\A l \in Leases : RowRules(l)) /\ (OldRowsOnly \/ Inserts)
  <2>1. CASE AcquireShared(t, h, p)
    <3>1. PICK k \in Leases :
            /\ state[k] \in Acquirable
            /\ RenewHolder(k, h, p)
            /\ state' = [state EXCEPT ![k] = Refreshed(@, holders'[k])]
      BY <2>1 DEF AcquireShared, LeasesOf
    <3>2. ASSUME NEW l \in Leases PROVE RowRules(l)
      BY <3>1, RenewRules DEF Acquirable, LiveStates
    <3>3. OldRowsOnly
      BY <2>1, <3>1 DEF OldRowsOnly, AcquireShared, Acquirable, LiveStates, TypeOK
    <3> QED BY <3>2, <3>3
  <2>2. CASE AcquireNew(t, m, h, p)
    <3>1. PICK k \in Leases :
            /\ state[k] = "absent"
            /\ state' = [state EXCEPT ![k] = "pending"]
            /\ RenewHolder(k, h, p)
      BY <2>2 DEF AcquireNew
    <3>2. \A l \in Leases : RowRules(l)
      BY <3>1 DEF RowRules, RenewHolder, TypeOK, Serving, Terminal, Acquirable
    <3> QED BY <2>2, <3>2, <1>2 DEF Inserts, AcquireHolder
  <2> QED BY <1>2, <2>1, <2>2 DEF AcquireHolder
<1>3. ASSUME NEW h \in Holders, NEW p \in Policies, NEW k \in Leases,
             AcquireHolderForLease(k, h, p)
      PROVE  (\A l \in Leases : RowRules(l)) /\ OldRowsOnly
  BY <1>3, RenewRules DEF AcquireHolderForLease, OldRowsOnly, Acquirable,
                          LiveStates, TypeOK
<1>4. ASSUME NEW h \in Holders, NEW p \in Policies, NEW k \in Leases,
             HeartbeatHolder(k, h, p)
      PROVE  (\A l \in Leases : RowRules(l)) /\ OldRowsOnly
  BY <1>4, RenewRules DEF HeartbeatHolder, OldRowsOnly, TypeOK
<1>5. ASSUME NEW h \in Holders, NEW p \in Policies, NEW k \in Leases,
             HeartbeatHolderCut(k, h, p)
      PROVE  (\A l \in Leases : RowRules(l)) /\ OldRowsOnly
  BY <1>0, <1>5 DEF HeartbeatHolderCut, RenewHolder, OldRowsOnly, TypeOK
<1>6. ASSUME NEW k \in Leases, NEW h \in Holders, ReleaseHolder(k, h)
      PROVE  (\A l \in Leases : RowRules(l)) /\ OldRowsOnly
  <2>1. \A l \in Leases : holders'[l] \subseteq holders[l]
    BY <1>6 DEF ReleaseHolder, DropHolder, TypeOK
  <2>2. ASSUME NEW l \in Leases PROVE RowRules(l)
    BY <1>6, <2>1 DEF ReleaseHolder, RowRules, Refreshed, TypeOK, LiveStates,
                      Terminal, Serving
  <2>3. OldRowsOnly
    BY <1>6 DEF ReleaseHolder, OldRowsOnly, Refreshed, TypeOK, Serving
  <2> QED BY <2>2, <2>3
<1>7. ASSUME NEW k \in Leases, NEW h \in Holders, ReleaseHolderCut(k, h)
      PROVE  (\A l \in Leases : RowRules(l)) /\ OldRowsOnly
  BY <1>0, <1>7 DEF ReleaseHolderCut, DropHolder, OldRowsOnly, TypeOK
<1>8. ASSUME NEW k \in Leases, NEW s \in {"starting", "crashed", "restarting",
                                          "failed", "ready", "draining"},
             Mark(k, s)
      PROVE  (\A l \in Leases : RowRules(l)) /\ OldRowsOnly
  <2>1. ASSUME NEW l \in Leases PROVE RowRules(l)
    BY <1>8 DEF Mark, RowRules, ValidTransition, AllowedTransitions, TypeOK,
                LiveStates, Terminal, Serving
  <2>2. OldRowsOnly
    BY <1>8 DEF Mark, OldRowsOnly, TypeOK
  <2> QED BY <2>1, <2>2
<1>9. ASSUME NEW k \in Leases, NEW s \in {"ready", "draining"},
             MarkAndRefresh(k, s)
      PROVE  (\A l \in Leases : RowRules(l)) /\ OldRowsOnly
  <2>1. ASSUME NEW l \in Leases PROVE RowRules(l)
    BY <1>9 DEF MarkAndRefresh, RowRules, ValidTransition, AllowedTransitions,
                Refreshed, TypeOK, LiveStates, Terminal, Serving
  <2>2. OldRowsOnly
    BY <1>9 DEF MarkAndRefresh, OldRowsOnly, TypeOK
  <2> QED BY <2>1, <2>2
<1>10. ASSUME NEW R \in SUBSET Releasable, SweepWrites(R)
       PROVE  (\A l \in Leases : RowRules(l)) /\ OldRowsOnly
  <2>1. ASSUME NEW l \in Leases PROVE RowRules(l)
    BY <1>10 DEF SweepWrites, Releasable, Unexpired, Demoted, Live, RowRules,
                 TypeOK, LiveStates, Terminal, Serving
  <2>2. OldRowsOnly
    BY <1>10 DEF SweepWrites, Releasable, Demoted, Live, LiveStates, OldRowsOnly
  <2> QED BY <2>1, <2>2
<1>11. CASE SweepExpired \/ SweepCutLate
  BY <1>10, <1>11 DEF SweepExpired, SweepCutLate
<1>12. CASE SweepCutEarly
  BY <1>0, <1>12 DEF SweepCutEarly, Unexpired, OldRowsOnly
<1>13. CASE Tick
  BY <1>0, <1>13 DEF Tick, OldRowsOnly
<1>14. CASE HolderCall
  BY <1>2, <1>3, <1>4, <1>5, <1>14 DEF HolderCall
<1>15. CASE LeaseCall
  BY <1>6, <1>7, <1>8, <1>9, <1>15
     DEF LeaseCall, MarkStarting, MarkCrashed, MarkRestarting, MarkFailed,
         MarkReady, MarkReadyCut, BeginDraining, BeginDrainingCut
<1> QED BY <1>1, <1>11, <1>12, <1>13, <1>14, <1>15 DEF Next, Supervision

-----------------------------------------------------------------------------
(* A draining lease gets no new holder and ends released or failed.        *)
THEOREM DrainingTheorem == Spec => DrainOnlyShrinks
<1>1. TypeOK /\ [Next]_vars => [DrainStep]_vars
  BY StepRules DEF RowRules, DrainStep, Acquirable, LiveStates
<1> QED BY TypeCorrect, <1>1, PTL DEF Spec, DrainOnlyShrinks

(* Terminal rows are final and only starting or restarting leads to        *)
(* serving.                                                                *)
THEOREM LifecycleTheorem == Spec => NoResurrection
<1>1. TypeOK /\ [Next]_vars => [LifeStep]_vars
  BY StepRules DEF RowRules, LifeStep, Serving
<1> QED BY TypeCorrect, <1>1, PTL DEF Spec, NoResurrection

(* A released lease has no holder, in spite of operations cut by crashes.  *)
THEOREM ReleasedTheorem == Spec => []ReleasedHasNoHolder
<1>1. Init => ReleasedHasNoHolder
  BY DEF Init, ReleasedHasNoHolder
<1>2. TypeOK /\ ReleasedHasNoHolder /\ [Next]_vars => ReleasedHasNoHolder'
  <2> SUFFICES ASSUME TypeOK, ReleasedHasNoHolder, [Next]_vars,
                      NEW l \in Leases, state'[l] = "released"
               PROVE  holders'[l] = {}
    BY DEF ReleasedHasNoHolder
  <2>1. RowRules(l)
    BY StepRules
  <2>2. CASE state[l] = "released"
    BY <2>1, <2>2 DEF RowRules, ReleasedHasNoHolder, Acquirable, LiveStates
  <2>3. CASE state[l] # "released"
    BY <2>1, <2>3 DEF RowRules
  <2> QED BY <2>2, <2>3
<1> QED BY TypeCorrect, <1>1, <1>2, PTL DEF Spec

(* One live shared lease per trace.  A new shared row is only inserted for *)
(* a trace without an acquirable and without a draining lease, that is,    *)
(* without a live shared one; the other operations make no row live.       *)
THEOREM OneSharedTheorem == Spec => []OneSharedLease
<1>1. Init => OneSharedLease
  BY DEF Init, OneSharedLease, Live, LiveStates
<1>2. TypeOK /\ OneSharedLease /\ [Next]_vars => OneSharedLease'
  <2> SUFFICES ASSUME TypeOK, OneSharedLease, [Next]_vars
               PROVE  OneSharedLease'
    OBVIOUS
  <2>1. \A l \in Leases : RowRules(l)
    BY StepRules
  <2>2. CASE OldRowsOnly
    <3>1. ASSUME NEW l \in Leases, Live(l)' PROVE Live(l)
      BY <2>1, <2>2, <3>1 DEF OldRowsOnly, RowRules, Live, TypeOK, LiveStates,
                              Terminal
    <3> QED BY <2>2, <3>1 DEF OldRowsOnly, OneSharedLease
  <2>3. CASE Inserts
    <3>1. PICK t \in Traces, m \in Modes :
            NotDraining(t) /\ \E h \in Holders, p \in Policies : AcquireNew(t, m, h, p)
      BY <2>3 DEF Inserts
    <3>2. PICK n \in Leases : /\ state[n] = "absent"
                              /\ state' = [state EXCEPT ![n] = "pending"]
                              /\ mode' = [mode EXCEPT ![n] = m]
                              /\ trace' = [trace EXCEPT ![n] = t]
      BY <3>1 DEF AcquireNew
    <3>3. ASSUME NEW l \in Leases, Live(l), mode[l] = "shared", trace[l] = t
          PROVE  m # "shared"
      BY <3>1, <3>3 DEF AcquireNew, NotDraining, LeasesOf, Live, Acquirable,
                        LiveStates
    <3>4. ASSUME NEW l \in Leases, l # n
          PROVE  /\ Live(l)' = Live(l)
                 /\ mode'[l] = mode[l] /\ trace'[l] = trace[l]
      BY <3>2, <3>4 DEF TypeOK, Live
    <3>5. mode'[n] = m /\ trace'[n] = t
      BY <3>2 DEF TypeOK
    <3> QED BY <3>3, <3>4, <3>5 DEF OneSharedLease
  <2> QED BY <2>2, <2>3, StepRules
<1> QED BY TypeCorrect, <1>1, <1>2, PTL DEF Spec

-----------------------------------------------------------------------------
(* A crash is remembered, so a state without one was reached without one.  *)
LEMMA CutIsRemembered == ASSUME TypeOK, Cut PROVE crashes' # 0
BY LeaseAssumption DEF TypeOK, Cut

(* The rows of a refreshed lease agree with each other.                    *)
LEMMA RefreshedAgrees ==
  ASSUME NEW s, NEW hs
  PROVE  /\ Refreshed(s, hs) # "ready"
         /\ Refreshed(s, hs) = "active" => hs # {}
         /\ Refreshed(s, hs) = "idle" => hs = {}
BY DEF Refreshed, Serving

(* Without a crash, the state of a lease at rest tells whether it is held: *)
(* each operation ends in a refresh or leads to a state that says nothing. *)
THEOREM ActivityTheorem == Spec => []ActivityMatchesHolders
<1>1. Init => ActivityMatchesHolders
  BY DEF Init, ActivityMatchesHolders
<1>2. TypeOK /\ ActivityMatchesHolders /\ [Next]_vars => ActivityMatchesHolders'
  <2> SUFFICES ASSUME TypeOK, ActivityMatchesHolders, [Next]_vars
               PROVE  ActivityMatchesHolders'
    OBVIOUS
  <2> DEFINE Agrees(l) == /\ state[l] # "ready"
                          /\ state[l] = "active" => holders[l] # {}
                          /\ state[l] = "idle" => holders[l] = {}
  <2>0. ASSUME crashes' = 0, crashes = 0 => \A l \in Leases : Agrees(l)'
        PROVE  crashes = 0 => ActivityMatchesHolders'
    BY <2>0 DEF ActivityMatchesHolders
  <2>1. CASE UNCHANGED vars
    BY <2>1 DEF vars, ActivityMatchesHolders
  <2>2. ASSUME NEW k \in Leases, NEW s, NEW hs,
               state' = [state EXCEPT ![k] = Refreshed(s, hs)],
               holders'[k] = hs, crashes' = crashes,
               \A l \in Leases \ {k} : holders'[l] = holders[l]
        PROVE  ActivityMatchesHolders'
    <3> SUFFICES ASSUME crashes' = 0, NEW l \in Leases PROVE Agrees(l)'
      BY DEF ActivityMatchesHolders
    <3>1. CASE l = k
      BY <2>2, <3>1, RefreshedAgrees DEF TypeOK
    <3>2. CASE l # k
      BY <2>2, <3>2 DEF TypeOK, ActivityMatchesHolders
    <3> QED BY <3>1, <3>2
  <2>3. ASSUME NEW h \in Holders, NEW p \in Policies, NEW k \in Leases,
               state' = [state EXCEPT ![k] = Refreshed(@, holders'[k])],
               RenewHolder(k, h, p) \/ DropHolder(k, h), crashes' = crashes
        PROVE  ActivityMatchesHolders'
    BY <2>2, <2>3 DEF RenewHolder, DropHolder, TypeOK
  <2>4. CASE HolderCall
    <3>1. ASSUME NEW h \in Holders, NEW p \in Policies, NEW t \in Traces,
                 AcquireShared(t, h, p)
          PROVE  ActivityMatchesHolders'
      BY <2>3, <3>1 DEF AcquireShared, LeasesOf
    <3>2. ASSUME NEW h \in Holders, NEW p \in Policies, NEW t \in Traces,
                 NEW m \in Modes, AcquireNew(t, m, h, p)
          PROVE  ActivityMatchesHolders'
      BY <3>2 DEF AcquireNew, RenewHolder, ActivityMatchesHolders, TypeOK
    <3>3. ASSUME NEW h \in Holders, NEW p \in Policies, NEW k \in Leases,
                 AcquireHolderForLease(k, h, p) \/ HeartbeatHolder(k, h, p)
          PROVE  ActivityMatchesHolders'
      BY <2>3, <3>3 DEF AcquireHolderForLease, HeartbeatHolder
    <3>4. ASSUME NEW h \in Holders, NEW p \in Policies, NEW k \in Leases,
                 HeartbeatHolderCut(k, h, p)
          PROVE  ActivityMatchesHolders'
      BY <3>4, CutIsRemembered DEF HeartbeatHolderCut, ActivityMatchesHolders
    <3> QED BY <2>4, <3>1, <3>2, <3>3, <3>4 DEF HolderCall, AcquireHolder
  <2>5. CASE LeaseCall
    <3>1. ASSUME NEW k \in Leases, NEW h \in Holders, ReleaseHolder(k, h)
          PROVE  ActivityMatchesHolders'
      BY <2>2, <3>1 DEF ReleaseHolder, DropHolder, TypeOK
    <3>2. ASSUME NEW k \in Leases, Cut PROVE ActivityMatchesHolders'
      BY <3>2, CutIsRemembered DEF ActivityMatchesHolders
    <3>3. ASSUME NEW k \in Leases, NEW s \in {"starting", "crashed",
                                              "restarting", "failed"},
                 Mark(k, s), UNCHANGED crashes
          PROVE  ActivityMatchesHolders'
      BY <3>3 DEF Mark, ActivityMatchesHolders, TypeOK
    <3>4. ASSUME NEW k \in Leases, NEW s, MarkAndRefresh(k, s)
          PROVE  ActivityMatchesHolders'
      BY <2>2, <3>4 DEF MarkAndRefresh
    <3> QED BY <2>5, <3>1, <3>2, <3>3, <3>4
            DEF LeaseCall, MarkStarting, MarkCrashed, MarkRestarting, MarkFailed,
                MarkReady, MarkReadyCut, BeginDraining, BeginDrainingCut,
                ReleaseHolderCut
  <2>6. CASE SweepExpired
    BY <2>6 DEF SweepExpired, SweepWrites, Demoted, Unexpired,
                ActivityMatchesHolders, TypeOK
  <2>7. CASE SweepCutEarly \/ SweepCutLate
    BY <2>7, CutIsRemembered DEF SweepCutEarly, SweepCutLate, ActivityMatchesHolders
  <2>8. CASE Tick
    BY <2>8 DEF Tick, ActivityMatchesHolders
  <2> QED BY <2>1, <2>4, <2>5, <2>6, <2>7, <2>8 DEF Next, Supervision
<1> QED BY TypeCorrect, <1>1, <1>2, PTL DEF Spec

-----------------------------------------------------------------------------
(* Renewing a holder extends its lease by at least as much.                *)
LEMMA RenewOutlived ==
  ASSUME TypeOK, NEW k \in Leases, NEW h \in Holders, NEW p \in Policies,
         RenewHolder(k, h, p), ExtendLease(k, p),
         crashes = 0, LeaseOutlivesHolder,
         NEW l \in Leases, NEW g \in holders'[l]
  PROVE  holderLeft'[l][g] <= leaseLeft'[l]
<1>1. p.heartbeat \in Nat /\ p.idle \in Nat /\ p.heartbeat <= p.idle
  BY LeaseAssumption
<1>2. g \in Holders
  BY DEF TypeOK, RenewHolder
<1>3. /\ leaseLeft'[k] = Longer(leaseLeft[k], p.idle)
      /\ leaseLeft[k] \in Nat
  BY DEF TypeOK, ExtendLease
<1>4. leaseLeft[k] <= leaseLeft'[k] /\ p.idle <= leaseLeft'[k] /\ leaseLeft'[k] \in Nat
  BY <1>1, <1>3 DEF Longer
<1>5. CASE l = k /\ g = h
  BY <1>1, <1>4, <1>5 DEF TypeOK, RenewHolder
<1>6. CASE l = k /\ g # h
  <2>1. holderLeft'[l][g] = holderLeft[l][g] /\ g \in holders[l]
    BY <1>2, <1>6 DEF TypeOK, RenewHolder
  <2>2. holderLeft[l][g] <= leaseLeft[l]
    BY <2>1 DEF LeaseOutlivesHolder
  <2>3. holderLeft[l][g] \in Nat
    BY <1>2 DEF TypeOK
  <2> QED BY <1>3, <1>4, <1>6, <2>1, <2>2, <2>3
<1>7. CASE l # k
  BY <1>2, <1>7 DEF TypeOK, RenewHolder, ExtendLease, LeaseOutlivesHolder
<1> QED BY <1>5, <1>6, <1>7

(* Without a crash no holder row outlives the lease it is on.              *)
THEOREM OutlivesTheorem == Spec => []LeaseOutlivesHolder
<1>1. Init => LeaseOutlivesHolder
  BY DEF Init, LeaseOutlivesHolder
<1>2. TypeOK /\ LeaseOutlivesHolder /\ [Next]_vars => LeaseOutlivesHolder'
  <2> SUFFICES ASSUME TypeOK, LeaseOutlivesHolder, [Next]_vars, crashes' = 0,
                      NEW l \in Leases, NEW g \in holders'[l]
               PROVE  holderLeft'[l][g] <= leaseLeft'[l]
    BY DEF LeaseOutlivesHolder
  <2>0. ~Cut
    BY CutIsRemembered
  <2>1. ASSUME UNCHANGED <<leaseLeft, crashes>>, g \in holders[l],
               holderLeft'[l][g] = holderLeft[l][g]
        PROVE  holderLeft'[l][g] <= leaseLeft'[l]
    BY <2>1 DEF LeaseOutlivesHolder
  <2>2. CASE UNCHANGED vars
    BY <2>1, <2>2 DEF vars
  <2>3. CASE HolderCall
    <3>1. PICK k \in Leases, h \in Holders, p \in Policies :
            RenewHolder(k, h, p) /\ ExtendLease(k, p) /\ UNCHANGED crashes
      BY <2>0, <2>3 DEF HolderCall, AcquireHolder, AcquireShared, AcquireNew, LeasesOf,
                  AcquireHolderForLease, HeartbeatHolder, HeartbeatHolderCut
    <3> QED BY <3>1, RenewOutlived
  <2>4. CASE LeaseCall
    <3>1. ASSUME NEW k \in Leases, NEW h \in Holders, ReleaseHolder(k, h)
          PROVE  holderLeft'[l][g] <= leaseLeft'[l]
      BY <2>1, <3>1 DEF ReleaseHolder, DropHolder, TypeOK
    <3>2. ASSUME UNCHANGED <<holders, holderLeft, leaseLeft, crashes>>
          PROVE  holderLeft'[l][g] <= leaseLeft'[l]
      BY <2>1, <3>2
    <3> QED BY <2>0, <2>4, <3>1, <3>2
            DEF LeaseCall, MarkStarting, MarkCrashed, MarkRestarting, MarkFailed,
                MarkReady, MarkReadyCut, BeginDraining, BeginDrainingCut, Mark,
                MarkAndRefresh, ReleaseHolderCut
  <2>5. CASE SweepExpired
    BY <2>1, <2>5 DEF SweepExpired, SweepWrites, Unexpired
  <2>6. CASE Tick
    <3>1. /\ g \in Holders /\ g \in holders[l] /\ crashes = 0
          /\ holderLeft'[l][g] = Sooner(holderLeft[l][g])
          /\ leaseLeft'[l] = Sooner(leaseLeft[l])
      BY <2>6 DEF Tick, TypeOK
    <3>2. holderLeft[l][g] \in Nat /\ leaseLeft[l] \in Nat
      BY <3>1 DEF TypeOK
    <3>3. holderLeft[l][g] <= leaseLeft[l]
      BY <3>1 DEF LeaseOutlivesHolder
    <3> QED BY <3>1, <3>2, <3>3 DEF Sooner
  <2> QED BY <2>0, <2>2, <2>3, <2>4, <2>5, <2>6
          DEF Next, Supervision, SweepCutEarly, SweepCutLate
<1> QED BY TypeCorrect, <1>1, <1>2, PTL DEF Spec

(* No operation but the release of its last holder itself, or the expiry   *)
(* of all of them, takes a lease away from those who hold it.              *)
THEOREM EvictionTheorem == Spec => ReleaseEvictsNobody
<1>1. TypeOK /\ [Next]_vars => [ReleaseStep]_vars
  <2> SUFFICES ASSUME TypeOK, Next, NEW l \in Leases, Live(l),
                      state'[l] = "released", Unexpired(l) # {}
               PROVE  \E h \in Holders : holders[l] = {h} /\ ReleaseHolder(l, h)
    BY DEF ReleaseStep
  <2>1. state[l] # "released" /\ holders[l] # {}
    BY DEF Live, LiveStates, Unexpired
  <2>2. ~HolderCall
    <3>1. ASSUME NEW k \in Leases, NEW h \in Holders, NEW p \in Policies,
                 RenewHolder(k, h, p),
                 state' = [state EXCEPT ![k] = Refreshed(@, holders'[k])]
          PROVE  FALSE
      BY <2>1, <3>1 DEF RenewHolder, Refreshed, TypeOK
    <3>2. ASSUME NEW h \in Holders, NEW p \in Policies, NEW t \in Traces,
                 NEW m \in Modes, AcquireHolder(t, m, h, p)
          PROVE  FALSE
      BY <2>1, <3>1, <3>2 DEF AcquireHolder, AcquireShared, LeasesOf, AcquireNew, TypeOK
    <3> QED BY <2>1, <3>1, <3>2 DEF HolderCall, AcquireHolderForLease,
                                    HeartbeatHolder, HeartbeatHolderCut
  <2>3. ~(SweepExpired \/ SweepCutEarly \/ SweepCutLate)
    BY <2>1 DEF SweepExpired, SweepCutEarly, SweepCutLate, SweepWrites, Releasable,
                Demoted
  <2>4. ~Tick
    BY <2>1 DEF Tick
  <2>5. ASSUME NEW k \in Leases, NEW s \in {"starting", "crashed", "restarting",
                                            "failed", "ready", "draining"},
               Mark(k, s) \/ MarkAndRefresh(k, s)
        PROVE  FALSE
    BY <2>1, <2>5 DEF Mark, MarkAndRefresh, Refreshed, TypeOK
  <2>6. PICK k \in Leases, h \in Holders : ReleaseHolder(k, h)
    BY <2>1, <2>2, <2>3, <2>4, <2>5
       DEF Next, Supervision, LeaseCall, MarkStarting, MarkCrashed, MarkRestarting,
           MarkFailed, MarkReady, MarkReadyCut, BeginDraining, BeginDrainingCut,
           ReleaseHolderCut
  <2>7. k = l /\ holders'[l] = {}
    BY <2>1, <2>6 DEF ReleaseHolder, DropHolder, Refreshed, TypeOK
  <2>8. holders[l] = {h}
    BY <2>1, <2>6, <2>7 DEF ReleaseHolder, DropHolder, TypeOK
  <2> QED BY <2>6, <2>7, <2>8
<1> QED BY TypeCorrect, <1>1, PTL DEF Spec, ReleaseEvictsNobody

-----------------------------------------------------------------------------
(* The lease store implements LeaseContract.  Each operation of the store  *)
(* is one step of the contract, or none when only the health of a          *)
(* processor changes.                                                      *)
States == LiveStates \cup Terminal \cup {"absent"}

(* The two functions that the contract sees in place of its variables.     *)
PhaseOf == [l \in Leases |-> Phase(state[l])]
LateOf == [l \in Leases |-> holders[l] \ Unexpired(l)]

-----------------------------------------------------------------------------
(* Phases of single states.                                                *)
LEMMA PhaseFacts ==
  ASSUME NEW s \in States
  PROVE  /\ Phase(s) = "draining" <=> s = "draining"
         /\ Phase(s) = "unused" <=> s = "absent"
         /\ Phase(s) = "open" <=> s \in Acquirable
         /\ Phase(s) \in {"open", "draining"} <=> s \in LiveStates
BY DEF Phase, States, Acquirable, LiveStates, Terminal

(* A refresh changes the phase only of a drained lease without holders.    *)
LEMMA RefreshedPhase ==
  ASSUME NEW s \in States, NEW hs
  PROVE  Phase(Refreshed(s, hs)) =
           IF s = "draining" /\ hs = {} THEN "released" ELSE Phase(s)
BY DEF Phase, States, LiveStates, Terminal, Refreshed, Serving

(* An assignment to one row is one to its phase.                           *)
LEMMA PhaseUpdate ==
  ASSUME TypeOK, NEW l \in Leases, NEW s, state' = [state EXCEPT ![l] = s]
  PROVE  PhaseOf' = [PhaseOf EXCEPT ![l] = Phase(s)]
<1>1. \A k \in Leases : state'[k] = IF k = l THEN s ELSE state[k]
  BY DEF TypeOK
<1>2. \A k \in Leases : PhaseOf'[k] = [PhaseOf EXCEPT ![l] = Phase(s)][k]
  BY <1>1 DEF PhaseOf
<1> QED BY <1>2 DEF PhaseOf

(* The contract's view of holder rows that do not change.                  *)
LEMMA LateKept ==
  ASSUME UNCHANGED <<holders, holderLeft>>
  PROVE  UNCHANGED LateOf
BY DEF LateOf, Unexpired

(* A renewed holder is a member in time.                                   *)
LEMMA RenewLate ==
  ASSUME TypeOK, NEW l \in Leases, NEW h \in Holders, NEW p \in Policies,
         RenewHolder(l, h, p)
  PROVE  LateOf' = [LateOf EXCEPT ![l] = @ \ {h}]
<1>1. p.heartbeat \in Nat \ {0}
  BY LeaseAssumption
<1>2. \A k \in Leases : LateOf'[k] = [LateOf EXCEPT ![l] = @ \ {h}][k]
  BY <1>1 DEF TypeOK, LateOf, Unexpired, RenewHolder
<1> QED BY <1>2 DEF LateOf

(* A dropped holder is no late member either.                              *)
LEMMA DropLate ==
  ASSUME TypeOK, NEW l \in Leases, NEW h \in Holders, DropHolder(l, h)
  PROVE  LateOf' = [LateOf EXCEPT ![l] = @ \ {h}]
<1>1. \A k \in Leases : LateOf'[k] = [LateOf EXCEPT ![l] = @ \ {h}][k]
  BY DEF TypeOK, LateOf, Unexpired, DropHolder
<1> QED BY <1>1 DEF LateOf

-----------------------------------------------------------------------------
(* What does not change for the contract.                                  *)
LEMMA ContractStutter ==
  ASSUME UNCHANGED <<PhaseOf, LateOf, mode, trace, holders>>
  PROVE  UNCHANGED Contract!vars
BY DEF Contract!vars, PhaseOf, LateOf

(* A holder row is renewed for the contract as it is for the store.        *)
LEMMA ContractSteps ==
  \A l \in Leases, h \in Holders :
    Contract!Renewed(l, h) <=>
      /\ holders' = [holders EXCEPT ![l] = @ \cup {h}]
      /\ LateOf' = [LateOf EXCEPT ![l] = @ \ {h}]
BY DEF Contract!Renewed, LateOf

(* Joining a lease that exists.                                            *)
LEMMA JoinStep ==
  ASSUME TypeOK, NEW l \in Leases, NEW h \in Holders, NEW p \in Policies,
         state[l] \in Acquirable, RenewHolder(l, h, p),
         state' = [state EXCEPT ![l] = Refreshed(@, holders'[l])],
         UNCHANGED <<mode, trace>>
  PROVE  Contract!Join(l, h)
<1>1. Phase(Refreshed(state[l], holders'[l])) = PhaseOf[l] /\ PhaseOf[l] = "open"
  <2>1. state[l] \in States /\ state[l] # "draining"
    BY DEF TypeOK, States, Acquirable
  <2> QED BY <2>1, PhaseFacts, RefreshedPhase DEF PhaseOf
<1>2. PhaseOf' = PhaseOf
  <2>1. PhaseOf' = [PhaseOf EXCEPT ![l] = Phase(Refreshed(state[l], holders'[l]))]
    BY PhaseUpdate
  <2> QED BY <1>1, <2>1 DEF PhaseOf
<1>3. Contract!Renewed(l, h)
  BY ContractSteps, RenewLate DEF RenewHolder
<1> QED BY <1>1, <1>2, <1>3 DEF Contract!Join, PhaseOf

(* Renewing a holder row of any lease.                                     *)
LEMMA RenewStep ==
  ASSUME TypeOK, NEW l \in Leases, NEW h \in Holders, NEW p \in Policies,
         h \in holders[l], RenewHolder(l, h, p), UNCHANGED <<mode, trace>>,
         \/ state' = [state EXCEPT ![l] = Refreshed(@, holders'[l])]
         \/ UNCHANGED state
  PROVE  Contract!Renew(l, h)
<1>1. holders'[l] # {}
  BY DEF TypeOK, RenewHolder
<1>2. Phase(Refreshed(state[l], holders'[l])) = PhaseOf[l]
  BY <1>1, RefreshedPhase DEF TypeOK, PhaseOf, States
<1>3. PhaseOf' = PhaseOf
  <2>1. CASE state' = [state EXCEPT ![l] = Refreshed(@, holders'[l])]
    <3>1. PhaseOf' = [PhaseOf EXCEPT ![l] = Phase(Refreshed(state[l], holders'[l]))]
      BY <2>1, PhaseUpdate
    <3> QED BY <1>2, <3>1 DEF PhaseOf
  <2>2. CASE UNCHANGED state
    BY <2>2 DEF PhaseOf
  <2> QED BY <2>1, <2>2
<1>4. Contract!Renewed(l, h)
  BY ContractSteps, RenewLate DEF RenewHolder
<1> QED BY <1>3, <1>4 DEF Contract!Renew, PhaseOf

(* A new row.                                                              *)
LEMMA OpenStep ==
  ASSUME TypeOK, NEW t \in Traces, NEW m \in Modes, NEW h \in Holders,
         NEW p \in Policies, NotDraining(t), AcquireNew(t, m, h, p)
  PROVE  \E l \in Leases : Contract!Open(l, t, m, h)
<1>1. PICK l \in Leases :
        /\ state[l] = "absent"
        /\ state' = [state EXCEPT ![l] = "pending"]
        /\ mode' = [mode EXCEPT ![l] = m]
        /\ trace' = [trace EXCEPT ![l] = t]
        /\ RenewHolder(l, h, p)
  BY DEF AcquireNew
<1>2. PhaseOf' = [PhaseOf EXCEPT ![l] = "open"]
  <2>1. Phase("pending") = "open"
    BY DEF Phase, Terminal
  <2> QED BY <1>1, <2>1, PhaseUpdate
<1>3. PhaseOf[l] = "unused"
  BY <1>1, PhaseFacts DEF PhaseOf, States
<1>4. \A k \in Leases : PhaseOf[k] = "draining" => trace[k] # t
  BY PhaseFacts DEF TypeOK, States, PhaseOf, NotDraining, LeasesOf
<1>5. m = "shared" =>
        \A k \in Leases : trace[k] = t /\ PhaseOf[k] = "open" => mode[k] # "shared"
  BY PhaseFacts DEF TypeOK, States, PhaseOf, AcquireNew, LeasesOf, Acquirable, LiveStates
<1>6. Contract!Renewed(l, h)
  BY <1>1, ContractSteps, RenewLate DEF RenewHolder
<1>7. Contract!Others(t, {"draining"}) = {}
  BY <1>4 DEF Contract!Others, PhaseOf
<1>8. m = "shared" => \A k \in Contract!Others(t, {"open"}) : mode[k] # "shared"
  BY <1>5 DEF Contract!Others, PhaseOf
<1>9. Contract!Open(l, t, m, h)
  BY <1>1, <1>2, <1>3, <1>6, <1>7, <1>8 DEF Contract!Open, PhaseOf
<1> QED BY <1>9

(* The release of a holder row, refreshed or cut.                          *)
LEMMA LeaveStep ==
  ASSUME TypeOK, NEW l \in Leases, NEW h \in Holders,
         DropHolder(l, h), UNCHANGED <<mode, trace>>,
         \/ state' = [state EXCEPT ![l] = Refreshed(@, holders'[l])]
         \/ UNCHANGED state
  PROVE  Contract!Leave(l, h)
<1>1. CASE state' = [state EXCEPT ![l] = Refreshed(@, holders'[l])]
  <2>1. PhaseOf' = [PhaseOf EXCEPT ![l] = Phase(Refreshed(state[l], holders'[l]))]
    BY <1>1, PhaseUpdate
  <2>2. Phase(Refreshed(state[l], holders'[l])) =
          IF PhaseOf[l] = "draining" /\ holders'[l] = {} THEN "released" ELSE PhaseOf[l]
    BY RefreshedPhase, PhaseFacts DEF TypeOK, States, PhaseOf
  <2>3. PhaseOf'[l] = Phase(Refreshed(state[l], holders'[l]))
    BY <2>1 DEF PhaseOf
  <2>4. LateOf' = [LateOf EXCEPT ![l] = @ \ {h}]
    BY DropLate
  <2> QED BY <2>1, <2>2, <2>3, <2>4
          DEF Contract!Leave, Contract!Ends, PhaseOf, LateOf, DropHolder
<1>2. CASE UNCHANGED state
  <2>1. PhaseOf' = [PhaseOf EXCEPT ![l] = PhaseOf[l]]
    BY <1>2 DEF PhaseOf
  <2>2. LateOf' = [LateOf EXCEPT ![l] = @ \ {h}]
    BY DropLate
  <2>3. PhaseOf'[l] = PhaseOf[l]
    BY <2>1 DEF PhaseOf
  <2> QED BY <2>1, <2>2, <2>3
          DEF Contract!Leave, Contract!Ends, PhaseOf, LateOf, DropHolder
<1> QED BY <1>1, <1>2

(* A mark, refreshed or not: only draining and failed are news.            *)
LEMMA MarkStep ==
  ASSUME TypeOK, NEW l \in Leases,
         NEW s \in {"starting", "ready", "crashed", "restarting", "draining", "failed"},
         ValidTransition(state[l], s), state[l] # "absent",
         UNCHANGED <<mode, trace, holders, holderLeft>>,
         \/ state' = [state EXCEPT ![l] = s]
         \/ state' = [state EXCEPT ![l] = Refreshed(s, holders[l])]
  PROVE  Contract!Drain(l) \/ Contract!Fail(l) \/ UNCHANGED Contract!vars
<1>1. state[l] \in States /\ s \in States
  BY DEF TypeOK, States, LiveStates, Terminal
<1>2. LateOf' = LateOf
  BY LateKept
<1>3. PICK r \in {s, Refreshed(s, holders[l])} :
        PhaseOf' = [PhaseOf EXCEPT ![l] = Phase(r)]
  BY PhaseUpdate
<1>4. PhaseOf'[l] = Phase(r)
  BY <1>3 DEF PhaseOf
<1>5. CASE s = "draining"
  <2>1. /\ Phase(r) \in {"draining", "released"}
        /\ holders[l] # {} => Phase(r) = "draining"
    BY <1>1, <1>3, <1>5, RefreshedPhase, PhaseFacts
  <2>2. state[l] \in LiveStates
    BY <1>1, <1>5 DEF ValidTransition, AllowedTransitions, States, LiveStates, Terminal
  <2>3. PhaseOf[l] \in {"open", "draining"}
    BY <2>2, <1>1, PhaseFacts DEF PhaseOf
  <2>4. Contract!Drain(l)
    BY <1>2, <1>3, <1>4, <2>1, <2>3 DEF Contract!Drain, Contract!Ends, PhaseOf, LateOf
  <2> QED BY <2>4
<1>6. CASE s = "failed"
  <2>1. Refreshed(s, holders[l]) = "failed" /\ Phase("failed") = "failed"
    BY <1>6 DEF Refreshed, Serving, Phase, Terminal
  <2>2. PhaseOf' = [PhaseOf EXCEPT ![l] = "failed"]
    BY <1>3, <1>6, <2>1
  <2>3. CASE state[l] = "failed"
    <3>1. PhaseOf' = PhaseOf
      BY <2>1, <2>2, <2>3 DEF PhaseOf
    <3> QED BY <3>1, <1>2, ContractStutter
  <2>4. CASE state[l] # "failed"
    <3>1. state[l] \in LiveStates
      BY <1>1, <1>6, <2>4 DEF ValidTransition, AllowedTransitions, States, LiveStates, Terminal
    <3>2. PhaseOf[l] \in {"open", "draining"}
      BY <3>1, <1>1, PhaseFacts DEF PhaseOf
    <3>3. Contract!Fail(l)
      BY <1>2, <2>2, <3>2 DEF Contract!Fail, PhaseOf, LateOf
    <3> QED BY <3>3
  <2> QED BY <2>3, <2>4
<1>7. CASE s \notin {"draining", "failed"}
  <2>1. state[l] \in Acquirable /\ s \in Acquirable
    BY <1>1, <1>7 DEF ValidTransition, AllowedTransitions, States, LiveStates, Terminal,
                      Acquirable
  <2>2. Phase(s) = "open" /\ PhaseOf[l] = "open"
    BY <1>1, <2>1, PhaseFacts DEF PhaseOf
  <2>3. Phase(r) = "open"
    BY <1>1, <1>3, <1>7, <2>2, RefreshedPhase
  <2>4. PhaseOf' = PhaseOf
    BY <1>3, <2>2, <2>3 DEF PhaseOf
  <2> QED BY <2>4, <1>2, ContractStutter
<1> QED BY <1>5, <1>6, <1>7

(* A sweep, whole or cut, drops late members and releases empty leases.    *)
LEMMA ExpireStep ==
  ASSUME TypeOK, NEW R \in SUBSET Releasable,
         holders' = [l \in Leases |-> Unexpired(l)],
         \/ state' = [l \in Leases |-> IF l \in R THEN "released" ELSE Demoted(l)]
         \/ R = {} /\ UNCHANGED state,
         UNCHANGED <<mode, trace, holderLeft>>
  PROVE  Contract!Expire
<1>1. LateOf \in [Leases -> SUBSET Holders]
  BY DEF TypeOK, LateOf
<1>2. holders' = [l \in Leases |-> holders[l] \ LateOf[l]]
  BY DEF TypeOK, LateOf, Unexpired
<1>3. LateOf' = [l \in Leases |-> LateOf[l] \ LateOf[l]]
  BY DEF TypeOK, LateOf, Unexpired
<1>4. \A l \in Leases : Phase(Demoted(l)) = Phase(state[l])
  <2>1. Phase("active") = "open" /\ Phase("idle") = "open" /\ Phase("released") = "released"
    BY DEF Phase, Terminal
  <2> QED BY <2>1 DEF Demoted
<1>5. PhaseOf' = [l \in Leases |-> IF l \in R THEN "released" ELSE PhaseOf[l]]
  <2>1. Phase("released") = "released"
    BY DEF Phase, Terminal
  <2> QED BY <1>4, <2>1 DEF PhaseOf
<1>6. \A l \in R : /\ l \in Leases /\ holders'[l] = {}
                   /\ PhaseOf[l] \in {"open", "draining"}
  BY PhaseFacts DEF TypeOK, States, Releasable, Live, PhaseOf
<1> QED BY <1>1, <1>2, <1>3, <1>5, <1>6 DEF Contract!Expire, PhaseOf, LateOf

(* Time only makes members late.                                           *)
LEMMA TickStep ==
  ASSUME TypeOK, Tick
  PROVE  Contract!TimePasses
<1>1. PhaseOf' = PhaseOf
  BY DEF Tick, PhaseOf
<1>2. LateOf' \in [Leases -> SUBSET Holders]
  BY DEF TypeOK, Tick, LateOf
<1>3. \A l \in Leases : LateOf[l] \subseteq LateOf'[l] /\ LateOf'[l] \subseteq holders[l]
  <2> SUFFICES ASSUME NEW l \in Leases, NEW h \in Holders, h \in LateOf[l]
               PROVE  h \in LateOf'[l]
    BY DEF Tick, LateOf, TypeOK
  <2>1. h \in holders[l] /\ holderLeft[l][h] = 0
    BY DEF LateOf, Unexpired, TypeOK
  <2>2. holderLeft'[l][h] = 0
    BY <2>1 DEF Tick, Sooner
  <2> QED BY <2>1, <2>2 DEF Tick, LateOf, Unexpired
<1> QED BY <1>1, <1>2, <1>3 DEF Contract!TimePasses, Tick, PhaseOf, LateOf

-----------------------------------------------------------------------------
(* The empty tables are leases that nobody opened yet.                     *)
LEMMA ContractInit == Init => Contract!Init
<1> SUFFICES ASSUME Init PROVE Contract!Init
  OBVIOUS
<1>1. PhaseOf = [l \in Leases |-> "unused"]
  <2>1. Phase("absent") = "unused"
    BY DEF Phase, Terminal
  <2> QED BY <2>1 DEF Init, PhaseOf
<1>2. LateOf = [l \in Leases |-> {}]
  BY DEF Init, LateOf
<1> QED BY <1>1, <1>2 DEF Init, Contract!Init, PhaseOf, LateOf

(* Every operation of the store is a step of the contract or a stutter.    *)
LEMMA ContractNext ==
  TypeOK /\ [Next]_vars => [Contract!Next]_(Contract!vars)
<1> SUFFICES ASSUME TypeOK, [Next]_vars
             PROVE  Contract!Next \/ UNCHANGED Contract!vars
  OBVIOUS
<1>1. CASE UNCHANGED vars
  <2>1. UNCHANGED <<mode, trace, holders, holderLeft, state>>
    BY <1>1 DEF vars
  <2>2. PhaseOf' = PhaseOf /\ LateOf' = LateOf
    BY <2>1, LateKept DEF PhaseOf
  <2> QED BY <2>1, <2>2, ContractStutter
<1>2. ASSUME NEW h \in Holders, NEW p \in Policies, NEW t \in Traces, NEW m \in Modes,
             AcquireHolder(t, m, h, p)
      PROVE  Contract!Next
  <2>1. CASE m = "shared" /\ AcquireShared(t, h, p)
    <3>1. PICK l \in Leases :
            /\ state[l] \in Acquirable
            /\ RenewHolder(l, h, p)
            /\ state' = [state EXCEPT ![l] = Refreshed(@, holders'[l])]
      BY <2>1 DEF AcquireShared, LeasesOf
    <3>2. Contract!Join(l, h)
      BY <2>1, <3>1, JoinStep DEF AcquireShared
    <3> QED BY <3>2 DEF Contract!Next
  <2>2. CASE AcquireNew(t, m, h, p)
    <3>1. \E l \in Leases : Contract!Open(l, t, m, h)
      BY <1>2, <2>2, OpenStep DEF AcquireHolder
    <3> QED BY <3>1 DEF Contract!Next, Modes
  <2> QED BY <1>2, <2>1, <2>2 DEF AcquireHolder
<1>3. ASSUME NEW l \in Leases, NEW h \in Holders, NEW p \in Policies,
             AcquireHolderForLease(l, h, p)
      PROVE  Contract!Next
  <2>1. Contract!Join(l, h)
    BY <1>3, JoinStep DEF AcquireHolderForLease
  <2> QED BY <2>1 DEF Contract!Next
<1>4. ASSUME NEW l \in Leases, NEW h \in Holders, NEW p \in Policies,
             HeartbeatHolder(l, h, p) \/ HeartbeatHolderCut(l, h, p)
      PROVE  Contract!Next
  <2>1. Contract!Renew(l, h)
    BY <1>4, RenewStep DEF HeartbeatHolder, HeartbeatHolderCut
  <2> QED BY <2>1 DEF Contract!Next
<1>5. ASSUME NEW l \in Leases, NEW h \in Holders,
             ReleaseHolder(l, h) \/ ReleaseHolderCut(l, h)
      PROVE  Contract!Next
  <2>1. Contract!Leave(l, h)
    BY <1>5, LeaveStep DEF ReleaseHolder, ReleaseHolderCut
  <2> QED BY <2>1 DEF Contract!Next
<1>6. ASSUME NEW l \in Leases,
             NEW s \in {"starting", "ready", "crashed", "restarting", "draining", "failed"},
             Mark(l, s) \/ MarkAndRefresh(l, s)
      PROVE  Contract!Next \/ UNCHANGED Contract!vars
  <2>1. Contract!Drain(l) \/ Contract!Fail(l) \/ UNCHANGED Contract!vars
    BY <1>6, MarkStep DEF Mark, MarkAndRefresh
  <2> QED BY <2>1 DEF Contract!Next
<1>7. ASSUME NEW R \in SUBSET Releasable, SweepWrites(R) PROVE Contract!Next
  <2>1. Contract!Expire
    BY <1>7, ExpireStep DEF SweepWrites
  <2> QED BY <2>1 DEF Contract!Next
<1>8. CASE SweepCutEarly
  <2>1. Contract!Expire
    <3>1. {} \in SUBSET Releasable
      OBVIOUS
    <3> QED BY <1>8, <3>1, ExpireStep DEF SweepCutEarly
  <2> QED BY <2>1 DEF Contract!Next
<1>9. CASE Tick
  BY <1>9, TickStep DEF Contract!Next
<1>10. CASE HolderCall
  BY <1>10, <1>2, <1>3, <1>4 DEF HolderCall
<1>11. CASE LeaseCall
  BY <1>11, <1>5, <1>6 DEF LeaseCall, MarkStarting, MarkCrashed, MarkRestarting, MarkFailed,
     MarkReady, MarkReadyCut, BeginDraining, BeginDrainingCut
<1>12. CASE SweepExpired \/ SweepCutLate
  BY <1>12, <1>7 DEF SweepExpired, SweepCutLate
<1> QED BY <1>1, <1>8, <1>9, <1>10, <1>11, <1>12 DEF Next, Supervision

(* The store implements the contract: through every interleaving of calls, *)
(* sweeps and crashes, whoever holds a lease in time keeps it until it     *)
(* releases it, and an ended lease never serves again.                     *)
THEOREM ContractTheorem == Spec => ImplementsContract
<1>1. Init => Contract!Init
  BY ContractInit
<1>2. TypeOK /\ [Next]_vars => [Contract!Next]_(Contract!vars)
  BY ContractNext
<1> QED BY <1>1, <1>2, TypeCorrect, PTL DEF Spec, ImplementsContract, Contract!Spec

=============================================================================
