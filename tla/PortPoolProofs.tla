--------------------------- MODULE PortPoolProofs ---------------------------
(***************************************************************************)
(* Proofs about PortPool, for any keys, ports, processors, limits and      *)
(* other programs.                                                         *)
(***************************************************************************)
EXTENDS PortPool, DataLemmas

-----------------------------------------------------------------------------
(* The operations of the pool.                                             *)
LEMMA PortFacts ==
  /\ 0 \notin Ports /\ 0 \notin Procs
  /\ Ports \subseteq Nat /\ Procs \subseteq Nat
BY DEF Ports, Procs

USE PortAssumption, PortFacts

(* What a release leaves of a pool.                                        *)
LEMMA ReleaseFields ==
  ASSUME NEW pl \in Pools, NEW ks
  PROVE  LET rl == Release(pl, ks) IN
         /\ rl \in Pools
         /\ rl.blocked = pl.blocked
         /\ rl.available = pl.available
              \cup ({pl.allocation[k] : k \in ks \cap Keys} \ ({0} \cup pl.blocked))
         /\ \A k \in Keys : rl.allocation[k] = IF k \in ks THEN 0 ELSE pl.allocation[k]
         /\ \A q \in Ports : rl.holder[q] = IF pl.holder[q] \in ks THEN NoKey ELSE pl.holder[q]
<1> DEFINE free == {pl.allocation[k] : k \in ks \cap Keys} \ ({0} \cup pl.blocked)
           al == [k \in Keys |-> IF k \in ks THEN 0 ELSE pl.allocation[k]]
           ho == [q \in Ports |-> IF pl.holder[q] \in ks THEN NoKey ELSE pl.holder[q]]
<1>1. /\ pl = [available |-> pl.available, blocked |-> pl.blocked,
               allocation |-> pl.allocation, holder |-> pl.holder]
      /\ pl.available \subseteq Ports /\ pl.blocked \subseteq Ports
      /\ pl.allocation \in [Keys -> Ports \cup {0}]
      /\ pl.holder \in [Ports -> Keys \cup {NoKey}]
  BY DEF Pools
<1> DEFINE rl == Release(pl, ks)
<1>2. free \subseteq Ports /\ al \in [Keys -> Ports \cup {0}] /\ ho \in [Ports -> Keys \cup {NoKey}]
  BY <1>1
<1>3. rl = [pl EXCEPT !.available = pl.available \cup free, !.allocation = al, !.holder = ho]
  BY DEF Release
<1>4. /\ \A k \in Keys : al[k] = IF k \in ks THEN 0 ELSE pl.allocation[k]
      /\ \A q \in Ports : ho[q] = IF pl.holder[q] \in ks THEN NoKey ELSE pl.holder[q]
  OBVIOUS
<1> HIDE DEF rl, al, ho, free
<1>5. /\ rl \in Pools /\ rl.blocked = pl.blocked
      /\ rl.available = pl.available \cup free /\ rl.allocation = al /\ rl.holder = ho
  BY <1>1, <1>2, <1>3 DEF Pools
<1> QED BY <1>4, <1>5 DEF rl, free

LEMMA ReleaseKeepsPartition ==
  ASSUME NEW pl \in Pools, Partition(pl), NEW ks, NoKey \notin ks \/ ks = {NoKey}
  PROVE  Partition(Release(pl, ks))
<1> DEFINE rl == Release(pl, ks)
<1>0. /\ pl.available \subseteq Ports /\ pl.blocked \subseteq Ports
      /\ pl.allocation \in [Keys -> Ports \cup {0}]
      /\ pl.holder \in [Ports -> Keys \cup {NoKey}]
  BY DEF Pools
<1>1. /\ rl.blocked = pl.blocked
      /\ rl.available = pl.available
           \cup ({pl.allocation[k] : k \in ks \cap Keys} \ ({0} \cup pl.blocked))
      /\ \A k \in Keys : rl.allocation[k] = IF k \in ks THEN 0 ELSE pl.allocation[k]
      /\ \A q \in Ports : rl.holder[q] = IF pl.holder[q] \in ks THEN NoKey ELSE pl.holder[q]
  BY ReleaseFields
<1> HIDE DEF rl
<1>2. rl.available \cap rl.blocked = {}
  BY <1>1 DEF Partition
<1>3. ASSUME NEW k \in Keys, rl.allocation[k] # 0
      PROVE  /\ rl.allocation[k] \notin rl.available \cup rl.blocked
             /\ rl.holder[rl.allocation[k]] = k
  <2>1. k \notin ks /\ rl.allocation[k] = pl.allocation[k] /\ pl.allocation[k] \in Ports
    BY <1>0, <1>1, <1>3
  <2>2. pl.allocation[k] \notin pl.available \cup pl.blocked /\ pl.holder[pl.allocation[k]] = k
    BY <1>3, <2>1 DEF Partition
  <2>3. \A j \in ks \cap Keys : pl.allocation[j] # pl.allocation[k]
    BY <2>1, <2>2 DEF Partition
  <2> QED BY <1>1, <2>1, <2>2, <2>3
<1>4. ASSUME NEW q \in Ports
      PROVE  /\ rl.holder[q] # NoKey => rl.allocation[rl.holder[q]] = q
             /\ rl.holder[q] = NoKey => q \in rl.available \cup rl.blocked
  <2>1. CASE pl.holder[q] \in ks
    <3>1. rl.holder[q] = NoKey
      BY <1>1, <2>1
    <3>2. CASE pl.holder[q] = NoKey
      BY <1>1, <3>1, <3>2 DEF Partition
    <3>3. CASE pl.holder[q] # NoKey
      <4>1. pl.holder[q] \in ks \cap Keys /\ pl.allocation[pl.holder[q]] = q
        BY <1>0, <2>1, <3>3 DEF Partition
      <4> QED BY <1>1, <3>1, <4>1
    <3> QED BY <3>2, <3>3
  <2>2. CASE pl.holder[q] \notin ks
    <3>1. rl.holder[q] = pl.holder[q]
      BY <1>1, <2>2
    <3>2. rl.holder[q] # NoKey => rl.allocation[rl.holder[q]] = pl.allocation[pl.holder[q]]
      BY <1>0, <1>1, <2>2, <3>1
    <3> QED BY <1>1, <3>1, <3>2 DEF Partition
  <2> QED BY <2>1, <2>2
<1> QED BY <1>2, <1>3, <1>4 DEF Partition, rl

(* A blocked port is nobody's; all other allocations stay.                 *)
LEMMA BlockFacts ==
  ASSUME NEW pl \in Pools, Partition(pl), NEW q \in Ports
  PROVE  LET bl == blockPort(pl, q) IN
         /\ bl \in Pools /\ Partition(bl)
         /\ \A k \in Keys :
              bl.allocation[k] = IF k = pl.holder[q] THEN 0 ELSE pl.allocation[k]
<1> DEFINE rl == Release(pl, {pl.holder[q]})
           bl == blockPort(pl, q)
<1>1. rl \in Pools /\ Partition(rl)
  BY ReleaseFields, ReleaseKeepsPartition
<1>2. /\ \A k \in Keys : rl.allocation[k] = IF k = pl.holder[q] THEN 0 ELSE pl.allocation[k]
      /\ \A p \in Ports : rl.holder[p] = IF pl.holder[p] = pl.holder[q] THEN NoKey ELSE pl.holder[p]
  BY ReleaseFields
<1> HIDE DEF rl
<1>3. bl = [rl EXCEPT !.available = @ \ {q}, !.blocked = @ \cup {q}]
  BY DEF blockPort, rl
<1> HIDE DEF bl
<1>4. /\ bl \in Pools /\ bl.allocation = rl.allocation /\ bl.holder = rl.holder
      /\ bl.available = rl.available \ {q} /\ bl.blocked = rl.blocked \cup {q}
  BY <1>1, <1>3 DEF Pools
<1>5. \A k \in Keys : rl.allocation[k] # q
  <2>1. rl.holder[q] = NoKey
    BY <1>2
  <2> QED BY <1>1, <2>1 DEF Partition
<1>6. Partition(bl)
  BY <1>1, <1>4, <1>5 DEF Partition
<1> QED BY <1>2, <1>4, <1>6 DEF bl

(* An allocation touches no other key.                                     *)
LEMMA AllocateFacts ==
  ASSUME NEW pl \in Pools, Partition(pl), NEW k \in Keys, NEW inUse
  PROVE  LET al == allocate(pl, k, inUse) IN
         /\ al \in Pools /\ Partition(al)
         /\ \A j \in Keys : j # k => al.allocation[j] = pl.allocation[j]
<1> DEFINE free == pl.available \ inUse
           port == CHOOSE q \in free : \A r \in free : q <= r
           skipped == {q \in pl.available \cap inUse : \A r \in free : q < r}
           rest == [pl EXCEPT !.available = @ \ skipped, !.blocked = @ \cup skipped]
           al == allocate(pl, k, inUse)
<1>0. /\ pl.available \subseteq Ports /\ pl.blocked \subseteq Ports
      /\ pl.allocation \in [Keys -> Ports \cup {0}]
      /\ pl.holder \in [Ports -> Keys \cup {NoKey}]
      /\ pl = [available |-> pl.available, blocked |-> pl.blocked,
               allocation |-> pl.allocation, holder |-> pl.holder]
  BY DEF Pools
<1>1. CASE pl.allocation[k] # 0
  BY <1>1 DEF allocate
<1>2. /\ rest \in Pools /\ rest.allocation = pl.allocation /\ rest.holder = pl.holder
      /\ rest.available = pl.available \ skipped /\ rest.blocked = pl.blocked \cup skipped
  BY <1>0 DEF Pools
<1>3. Partition(rest)
  <2>1. skipped \subseteq pl.available
    OBVIOUS
  <2> HIDE DEF rest, skipped
  <2> QED BY <1>0, <1>2, <2>1 DEF Partition
<1>4. CASE pl.allocation[k] = 0 /\ free = {}
  <2>1. al = rest
    BY <1>4 DEF allocate
  <2> HIDE DEF rest, al
  <2> QED BY <1>2, <1>3, <2>1 DEF al
<1>5. CASE pl.allocation[k] = 0 /\ free # {}
  <2>1. port \in free
    <3>1. \E q \in free : \A r \in free : q <= r
      <4>1. free \subseteq Nat
        BY <1>0
      <4> HIDE DEF free
      <4> QED BY <1>5, <4>1, LeastOf
    <3> QED BY <3>1
  <2>2. al = [rest EXCEPT !.available = @ \ {port},
                          !.allocation = [@ EXCEPT ![k] = port],
                          !.holder = [@ EXCEPT ![port] = k]]
    BY <1>5 DEF allocate
  <2>3. port \in rest.available /\ port \in Ports
    BY <1>0, <1>2, <2>1
  <2> HIDE DEF rest, port, free, skipped, al
  <2>4. /\ al.available = rest.available \ {port} /\ al.blocked = rest.blocked
        /\ al.allocation = [rest.allocation EXCEPT ![k] = port]
        /\ al.holder = [rest.holder EXCEPT ![port] = k]
        /\ al \in Pools
    BY <1>2, <2>2, <2>3 DEF Pools
  <2>5. /\ \A j \in Keys : al.allocation[j] = IF j = k THEN port ELSE pl.allocation[j]
        /\ \A q \in Ports : al.holder[q] = IF q = port THEN k ELSE pl.holder[q]
    BY <1>0, <1>2, <2>4
  <2>6. Partition(al)
    BY <1>0, <1>2, <1>3, <1>5, <2>3, <2>4, <2>5 DEF Partition
  <2> QED BY <2>4, <2>5, <2>6 DEF al
<1> QED BY <1>1, <1>4, <1>5

-----------------------------------------------------------------------------
(* The inductive invariant.                                                *)

BornSound ==
  \A p \in Procs : /\ p <= made => key[p] \in Keys /\ httpPort[p] \in Ports
                   /\ p > made => key[p] = NoKey /\ status[p] = "starting"

(* The factory has exactly the processors that are not destroyed.          *)
FactorySound ==
  /\ \A k \in Keys : factory[k] # 0 => /\ factory[k] <= made
                                       /\ key[factory[k]] = k
                                       /\ status[factory[k]] # "destroyed"
  /\ \A p \in Procs : p <= made /\ status[p] # "destroyed" => factory[key[p]] = p

CreatingSound ==
  \A k \in Keys : creating[k] # 0 => /\ creating[k] <= made
                                     /\ key[creating[k]] = k
                                     /\ factory[k] \in {0, creating[k]}

ArmedSound == \A p \in armed : p <= made /\ status[p] = "destroyed"

IInv == /\ TypeOK /\ BornSound /\ FactorySound /\ CreatingSound /\ ArmedSound
        /\ AllocationsAreOwned /\ KeepsPortUnlessLate

LEMMA InitIInv == Init => IInv
<1> SUFFICES ASSUME Init PROVE IInv
  OBVIOUS
<1> USE DEF Init
<1>1. pool \in Pools /\ Partition(pool)
  BY DEF Pools, Partition
<1>2. made \in 0 .. MaxProcessors /\ attempt \in [Keys -> 0 .. maxAttempts]
  OBVIOUS
<1>3. /\ factory \in [Keys -> Procs \cup {0}] /\ creating \in [Keys -> Procs \cup {0}]
      /\ key \in [Procs -> Keys \cup {NoKey}] /\ httpPort \in [Procs -> Ports \cup {0}]
      /\ status \in [Procs -> Statuses] /\ process \in [Procs -> Processes]
  BY DEF Statuses, Processes
<1>4. armed \subseteq Procs /\ outside \subseteq Ports /\ late \in BOOLEAN
  OBVIOUS
<1>5. TypeOK
  BY <1>1, <1>2, <1>3, <1>4 DEF TypeOK
<1>6. \A p \in Procs : p > made /\ ~(p <= made)
  BY DEF Procs
<1> QED BY <1>5, <1>6 DEF IInv, BornSound, FactorySound, CreatingSound, ArmedSound,
           AllocationsAreOwned, KeepsPortUnlessLate

(* What create()'s loop does to its key, and that it touches no other.     *)
Outcome(k, pl, fac, n) == Construct(k, pl, fac, n) \/ GiveUp(k, pl, fac)

GivenUp(k) ==
  /\ factory'[k] = 0 /\ creating'[k] = 0
  /\ pool'.allocation[k] = 0
  /\ made' = made /\ key' = key /\ httpPort' = httpPort

Constructed(k, p) ==
  /\ p = made + 1 /\ p \in Procs /\ made' = p
  /\ factory'[k] = p /\ creating'[k] = p
  /\ key' = [key EXCEPT ![p] = k]
  /\ httpPort' = [httpPort EXCEPT ![p] = pool'.allocation[k]]
  /\ pool'.allocation[k] \in Ports

LEMMA OutcomeFacts ==
  ASSUME TypeOK, NEW k \in Keys, NEW pl \in Pools, Partition(pl),
         NEW fac \in [Keys -> Procs \cup {0}], NEW n \in 1 .. maxAttempts,
         Outcome(k, pl, fac, n)
  PROVE  /\ pool' \in Pools /\ Partition(pool')
         /\ factory' \in [Keys -> Procs \cup {0}]
         /\ creating' \in [Keys -> Procs \cup {0}]
         /\ attempt' \in [Keys -> 0 .. maxAttempts]
         /\ \A j \in Keys \ {k} : /\ factory'[j] = fac[j]
                                  /\ creating'[j] = creating[j]
                                  /\ pool'.allocation[j] = pl.allocation[j]
         /\ GivenUp(k) \/ Constructed(k, made + 1)
<1> DEFINE al == allocate(pl, k, InUse)
<1>0. /\ creating \in [Keys -> Procs \cup {0}] /\ attempt \in [Keys -> 0 .. maxAttempts]
      /\ 0 \in 0 .. maxAttempts /\ n \in 0 .. maxAttempts
  BY DEF TypeOK
<1>1. /\ al \in Pools /\ Partition(al)
      /\ \A j \in Keys : j # k => al.allocation[j] = pl.allocation[j]
  BY AllocateFacts
<1> HIDE DEF al
<1>2. ASSUME NEW pm \in Pools, Partition(pm), GiveUp(k, pm, fac),
             \A j \in Keys \ {k} : pm.allocation[j] = pl.allocation[j]
      PROVE  /\ pool' \in Pools /\ Partition(pool')
             /\ factory' \in [Keys -> Procs \cup {0}]
             /\ creating' \in [Keys -> Procs \cup {0}]
             /\ attempt' \in [Keys -> 0 .. maxAttempts]
             /\ \A j \in Keys \ {k} : /\ factory'[j] = fac[j]
                                      /\ creating'[j] = creating[j]
                                      /\ pool'.allocation[j] = pl.allocation[j]
             /\ GivenUp(k)
  <2>1. pool' = Release(pm, {k})
    BY <1>2 DEF GiveUp
  <2>2. /\ pool' \in Pools
        /\ \A j \in Keys : pool'.allocation[j] = IF j \in {k} THEN 0 ELSE pm.allocation[j]
    BY <2>1, ReleaseFields
  <2>3. Partition(pool')
    BY <2>1, ReleaseKeepsPartition, <1>2
  <2> QED BY <1>0, <1>2, <2>2, <2>3 DEF GiveUp, GivenUp
<1>3. CASE GiveUp(k, pl, fac)
  BY <1>2, <1>3
<1>4. CASE GiveUp(k, al, fac)
  BY <1>1, <1>2, <1>4
<1>5. CASE Construct(k, pl, fac, n) /\ ~GiveUp(k, al, fac)
  <2>1. /\ al.allocation[k] # 0 /\ made + 1 \in Procs /\ pool' = al
        /\ factory' = [fac EXCEPT ![k] = made + 1] /\ made' = made + 1
        /\ key' = [key EXCEPT ![made + 1] = k]
        /\ httpPort' = [httpPort EXCEPT ![made + 1] = al.allocation[k]]
        /\ creating' = [creating EXCEPT ![k] = made + 1]
        /\ attempt' = [attempt EXCEPT ![k] = n]
    BY <1>5 DEF Construct, al
  <2>2. al.allocation[k] \in Ports
    BY <1>1, <2>1 DEF Pools
  <2> QED BY <1>0, <1>1, <2>1, <2>2 DEF Constructed
<1> QED BY <1>3, <1>4, <1>5 DEF Outcome, Construct, al

(* A round of create()'s loop after the destruction of processors of the   *)
(* key and of other keys.                                                  *)
LEMMA OutcomeKeepsIInv ==
  ASSUME IInv, NEW k \in Keys, NEW ps \in SUBSET Procs,
         NEW pl \in Pools, Partition(pl), NEW fac \in [Keys -> Procs \cup {0}],
         NEW n \in 1 .. maxAttempts,
         \A p \in ps : p <= made,
         factory[k] \in ps \cup {0},
         \A j \in Keys \ {k} : fac[j] = IF factory[j] \in ps THEN 0 ELSE factory[j],
         \A j \in Keys \ {k} : pl.allocation[j] # 0 => pl.allocation[j] = pool.allocation[j],
         \A j \in Keys \ {k} : ~late' /\ fac[j] # 0 => pl.allocation[j] = pool.allocation[j],
         late' \in BOOLEAN, late => late',
         Destroy(ps), Outcome(k, pl, fac, n), UNCHANGED <<process, outside>>
  PROVE  IInv'
<1>0. TypeOK /\ BornSound /\ FactorySound /\ CreatingSound /\ ArmedSound
      /\ AllocationsAreOwned /\ KeepsPortUnlessLate
  BY DEF IInv
<1>t. /\ factory \in [Keys -> Procs \cup {0}] /\ made \in Nat /\ made <= MaxProcessors
      /\ key \in [Procs -> Keys \cup {NoKey}] /\ httpPort \in [Procs -> Ports \cup {0}]
      /\ status \in [Procs -> Statuses] /\ process \in [Procs -> Processes]
      /\ armed \subseteq Procs /\ outside \subseteq Ports
  BY <1>0 DEF TypeOK
<1>1. /\ pool' \in Pools /\ Partition(pool')
      /\ factory' \in [Keys -> Procs \cup {0}]
      /\ creating' \in [Keys -> Procs \cup {0}]
      /\ attempt' \in [Keys -> 0 .. maxAttempts]
      /\ \A j \in Keys \ {k} : /\ factory'[j] = fac[j]
                               /\ creating'[j] = creating[j]
                               /\ pool'.allocation[j] = pl.allocation[j]
      /\ GivenUp(k) \/ Constructed(k, made + 1)
  BY <1>0, OutcomeFacts
<1>2. /\ \A p \in Procs : status'[p] = IF p \in ps THEN "destroyed" ELSE status[p]
      /\ status' \in [Procs -> Statuses]
      /\ armed' = armed \cup {p \in ps : status[p] # "destroyed"}
      /\ armed' \subseteq Procs
  BY <1>t DEF Destroy, Statuses
(* The processors made before.                                             *)
<1>3. /\ made' \in 0 .. MaxProcessors /\ made <= made'
      /\ key' \in [Procs -> Keys \cup {NoKey}] /\ httpPort' \in [Procs -> Ports \cup {0}]
      /\ \A p \in Procs : p <= made => key'[p] = key[p] /\ httpPort'[p] = httpPort[p]
  <2>1. CASE GivenUp(k)
    BY <1>t, <2>1 DEF GivenUp
  <2>2. CASE Constructed(k, made + 1)
    BY <1>t, <2>2 DEF Constructed, Procs
  <2> QED BY <1>1, <2>1, <2>2
<1>4. TypeOK'
  BY <1>t, <1>1, <1>2, <1>3 DEF TypeOK
<1>5. BornSound'
  <2> SUFFICES ASSUME NEW p \in Procs
               PROVE  /\ p <= made' => key'[p] \in Keys /\ httpPort'[p] \in Ports
                      /\ p > made' => key'[p] = NoKey /\ status'[p] = "starting"
    BY DEF BornSound
  <2>1. CASE p <= made
    BY <1>0, <1>t, <1>3, <2>1 DEF BornSound, Procs
  <2>2. CASE p > made
    <3>1. p \notin ps
      BY <1>t, <2>2 DEF Procs
    <3>2. key[p] = NoKey /\ status'[p] = "starting"
      BY <1>0, <1>2, <2>2, <3>1 DEF BornSound
    <3>3. CASE GivenUp(k)
      BY <1>t, <2>2, <3>2, <3>3 DEF GivenUp, Procs
    <3>4. CASE Constructed(k, made + 1)
      <4>1. CASE p = made + 1
        BY <1>t, <3>4, <4>1 DEF Constructed, Procs
      <4>2. CASE p # made + 1
        BY <1>t, <2>2, <3>2, <3>4, <4>2 DEF Constructed, Procs
      <4> QED BY <4>1, <4>2
    <3> QED BY <1>1, <3>3, <3>4
  <2> QED BY <1>t, <2>1, <2>2 DEF Procs
<1>6. ASSUME NEW j \in Keys \ {k}, fac[j] # 0
      PROVE  /\ fac[j] = factory[j] /\ factory[j] \in Procs /\ factory[j] <= made
             /\ factory[j] \notin ps /\ key[factory[j]] = j
             /\ status[factory[j]] # "destroyed"
  BY <1>0, <1>t, <1>6 DEF FactorySound
<1>7. FactorySound'
  <2>1. ASSUME NEW j \in Keys, factory'[j] # 0
        PROVE  /\ factory'[j] <= made' /\ key'[factory'[j]] = j
               /\ status'[factory'[j]] # "destroyed"
    <3>1. CASE j # k
      BY <1>t, <1>1, <1>2, <1>3, <1>6, <2>1, <3>1 DEF Procs
    <3>2. CASE j = k
      <4>1. Constructed(k, made + 1)
        BY <1>1, <2>1, <3>2 DEF GivenUp
      <4>2. made + 1 \notin ps /\ status[made + 1] = "starting"
        BY <1>0, <1>t, <4>1 DEF Constructed, Procs, BornSound
      <4> QED BY <1>t, <1>2, <3>2, <4>1, <4>2 DEF Constructed, Procs
    <3> QED BY <3>1, <3>2
  <2>2. ASSUME NEW p \in Procs, p <= made', status'[p] # "destroyed"
        PROVE  factory'[key'[p]] = p
    <3>1. CASE p <= made
      <4>1. p \notin ps /\ status[p] # "destroyed" /\ key[p] \in Keys
        BY <1>0, <1>2, <2>2, <3>1 DEF BornSound
      <4>2. factory[key[p]] = p /\ p # 0
        BY <1>0, <3>1, <4>1 DEF FactorySound
      <4>3. key[p] # k
        BY <4>1, <4>2
      <4> QED BY <1>1, <1>3, <3>1, <4>1, <4>2, <4>3
    <3>2. CASE p > made
      <4>1. Constructed(k, made + 1)
        BY <1>t, <1>1, <2>2, <3>2 DEF GivenUp, Procs
      <4>2. p = made + 1
        BY <1>t, <2>2, <3>2, <4>1 DEF Constructed, Procs
      <4> QED BY <1>t, <4>1, <4>2 DEF Constructed
    <3> QED BY <1>t, <3>1, <3>2 DEF Procs
  <2> QED BY <2>1, <2>2 DEF FactorySound
<1>8. CreatingSound'
  <2> SUFFICES ASSUME NEW j \in Keys, creating'[j] # 0
               PROVE  /\ creating'[j] <= made' /\ key'[creating'[j]] = j
                      /\ factory'[j] \in {0, creating'[j]}
    BY DEF CreatingSound
  <2>1. CASE j # k
    <3>1. /\ creating'[j] = creating[j] /\ creating[j] \in Procs
          /\ creating[j] <= made /\ key[creating[j]] = j /\ factory[j] \in {0, creating[j]}
      BY <1>0, <1>1, <2>1 DEF CreatingSound
    <3> QED BY <1>t, <1>1, <1>3, <1>6, <2>1, <3>1 DEF Procs
  <2>2. CASE j = k
    BY <1>t, <1>1, <2>2 DEF GivenUp, Constructed, Procs
  <2> QED BY <2>1, <2>2
<1>9. ArmedSound'
  BY <1>0, <1>t, <1>2, <1>3 DEF ArmedSound, Procs
<1>10. AllocationsAreOwned'
  <2> SUFFICES ASSUME NEW j \in Keys, pool'.allocation[j] # 0, factory'[j] = 0
               PROVE  \E p \in armed' : key'[p] = j
    BY DEF AllocationsAreOwned
  <2>1. j # k
    BY <1>1 DEF GivenUp, Constructed, Procs
  <2>2. pool.allocation[j] # 0 /\ fac[j] = 0
    BY <1>1, <2>1
  <2>3. CASE factory[j] = 0
    <3>1. PICK p \in armed : key[p] = j
      BY <1>0, <2>2, <2>3 DEF AllocationsAreOwned
    <3> QED BY <1>0, <1>t, <1>2, <1>3, <3>1 DEF ArmedSound
  <2>4. CASE factory[j] # 0
    <3>1. factory[j] \in ps
      BY <2>1, <2>2, <2>4
    <3>2. /\ factory[j] <= made /\ key[factory[j]] = j
          /\ status[factory[j]] # "destroyed"
      BY <1>0, <2>4 DEF FactorySound
    <3> QED BY <1>2, <1>3, <3>1, <3>2
  <2> QED BY <2>3, <2>4
<1>11. KeepsPortUnlessLate'
  <2> SUFFICES ASSUME ~late', NEW j \in Keys, factory'[j] # 0
               PROVE  pool'.allocation[j] = httpPort'[factory'[j]]
    BY DEF KeepsPortUnlessLate
  <2>1. CASE j # k
    <3>1. /\ factory'[j] = factory[j] /\ factory[j] \in Procs /\ factory[j] <= made
          /\ fac[j] # 0 /\ factory[j] # 0
      BY <1>1, <1>6, <2>1
    <3>2. pool.allocation[j] = httpPort[factory[j]]
      BY <1>0, <3>1 DEF KeepsPortUnlessLate
    <3> QED BY <1>1, <1>3, <2>1, <3>1, <3>2
  <2>2. CASE j = k
    BY <1>t, <1>1, <2>2 DEF GivenUp, Constructed
  <2> QED BY <2>1, <2>2
<1> QED BY <1>4, <1>5, <1>7, <1>8, <1>9, <1>10, <1>11 DEF IInv

(* The destruction of processors that leave the factory.                   *)
LEMMA RemovalKeepsIInv ==
  ASSUME IInv, NEW ps \in SUBSET Procs,
         ps \subseteq InFactory, Destroy(ps),
         factory' = [j \in Keys |-> IF factory[j] \in ps THEN 0 ELSE factory[j]],
         pool' \in Pools, Partition(pool'),
         \A j \in Keys : pool'.allocation[j] # 0 => pool'.allocation[j] = pool.allocation[j],
         \A j \in Keys : factory'[j] # 0 => pool'.allocation[j] = pool.allocation[j],
         UNCHANGED <<made, creating, attempt, key, httpPort, process, outside, late>>
  PROVE  IInv'
<1>0. TypeOK /\ BornSound /\ FactorySound /\ CreatingSound /\ ArmedSound
      /\ AllocationsAreOwned /\ KeepsPortUnlessLate
  BY DEF IInv
<1>t. /\ factory \in [Keys -> Procs \cup {0}] /\ made \in Nat
      /\ status \in [Procs -> Statuses] /\ armed \subseteq Procs
  BY <1>0 DEF TypeOK
<1>1. /\ \A p \in Procs : status'[p] = IF p \in ps THEN "destroyed" ELSE status[p]
      /\ status' \in [Procs -> Statuses]
      /\ armed' = armed \cup {p \in ps : status[p] # "destroyed"}
      /\ \A j \in Keys : factory'[j] = IF factory[j] \in ps THEN 0 ELSE factory[j]
      /\ factory' \in [Keys -> Procs \cup {0}]
  BY <1>t DEF Destroy, Statuses
<1>2. \A p \in ps : /\ p <= made /\ key[p] \in Keys /\ factory[key[p]] = p
                    /\ status[p] # "destroyed"
  BY <1>0, <1>t DEF InFactory, FactorySound
<1>3. TypeOK'
  BY <1>0, <1>1 DEF TypeOK
<1>4. BornSound'
  BY <1>0, <1>t, <1>1, <1>2 DEF BornSound, Procs
<1>5. FactorySound'
  <2>1. ASSUME NEW j \in Keys, factory'[j] # 0
        PROVE  /\ factory'[j] <= made' /\ key'[factory'[j]] = j
               /\ status'[factory'[j]] # "destroyed"
    <3>1. factory'[j] = factory[j] /\ factory[j] \notin ps /\ factory[j] \in Procs
      BY <1>t, <1>1, <2>1
    <3>2. factory[j] <= made /\ key[factory[j]] = j /\ status[factory[j]] # "destroyed"
      BY <1>0, <2>1, <3>1 DEF FactorySound
    <3> QED BY <1>1, <3>1, <3>2
  <2>2. ASSUME NEW p \in Procs, p <= made', status'[p] # "destroyed"
        PROVE  factory'[key'[p]] = p
    <3>1. p \notin ps /\ status[p] # "destroyed" /\ key[p] \in Keys
      BY <1>0, <1>1, <2>2 DEF BornSound
    <3>2. factory[key[p]] = p
      BY <1>0, <2>2, <3>1 DEF FactorySound
    <3> QED BY <1>1, <3>1, <3>2
  <2> QED BY <2>1, <2>2 DEF FactorySound
<1>6. CreatingSound'
  BY <1>0, <1>1 DEF CreatingSound
<1>7. ArmedSound'
  BY <1>0, <1>t, <1>1, <1>2 DEF ArmedSound
<1>8. AllocationsAreOwned'
  <2> SUFFICES ASSUME NEW j \in Keys, pool'.allocation[j] # 0, factory'[j] = 0
               PROVE  \E p \in armed' : key'[p] = j
    BY DEF AllocationsAreOwned
  <2>1. pool.allocation[j] # 0
    OBVIOUS
  <2>2. CASE factory[j] = 0
    BY <1>0, <1>1, <2>1, <2>2 DEF AllocationsAreOwned
  <2>3. CASE factory[j] # 0
    BY <1>0, <1>1, <2>3 DEF FactorySound
  <2> QED BY <2>2, <2>3
<1>9. KeepsPortUnlessLate'
  BY <1>0, <1>1 DEF KeepsPortUnlessLate
<1> QED BY <1>3, <1>4, <1>5, <1>6, <1>7, <1>8, <1>9 DEF IInv

LEMMA CreateKeepsIInv ==
  ASSUME IInv, NEW k \in Keys, create(k)
  PROVE  IInv'
<1>0. TypeOK /\ FactorySound
  BY DEF IInv
<1>t. /\ factory \in [Keys -> Procs \cup {0}] /\ made \in Nat /\ late \in BOOLEAN
      /\ pool \in Pools /\ Partition(pool)
  BY <1>0 DEF TypeOK
<1>1. PICK ps \in Evicted(k) :
        LET removed == ps \cup ({factory[k]} \ {0})
            fac == [j \in Keys |-> IF factory[j] \in removed THEN 0 ELSE factory[j]]
        IN  /\ Destroy(removed)
            /\ \/ Construct(k, pool, fac, 1)
               \/ factory' = fac /\ UNCHANGED <<pool, made, key, httpPort, creating, attempt>>
  BY DEF create
<1> DEFINE removed == ps \cup ({factory[k]} \ {0})
           fac == [j \in Keys |-> IF factory[j] \in removed THEN 0 ELSE factory[j]]
<1>2. removed \subseteq InFactory
  BY DEF Evicted, InFactory
<1>3. removed \subseteq Procs /\ \A p \in removed : p <= made
  BY <1>0, <1>t, <1>2 DEF InFactory, FactorySound
<1>4. /\ fac \in [Keys -> Procs \cup {0}]
      /\ \A j \in Keys : fac[j] = IF factory[j] \in removed THEN 0 ELSE factory[j]
      /\ factory[k] \in removed \cup {0}
  BY <1>t
<1>5. UNCHANGED <<process, outside, late>>
  BY DEF create
<1>6. CASE Construct(k, pool, fac, 1)
  <2>1. Destroy(removed) /\ Outcome(k, pool, fac, 1) /\ 1 \in 1 .. maxAttempts
    BY <1>1, <1>6 DEF Outcome
  <2> HIDE DEF removed, fac
  <2> QED BY <1>t, <1>3, <1>4, <1>5, <2>1, OutcomeKeepsIInv
<1>7. CASE factory' = fac /\ UNCHANGED <<pool, made, key, httpPort, creating, attempt>>
  <2>1. Destroy(removed)
    BY <1>1
  <2> HIDE DEF removed
  <2> QED BY <1>t, <1>2, <1>3, <1>5, <1>7, <2>1, RemovalKeepsIInv
<1> QED BY <1>1, <1>6, <1>7

LEMMA RemoveKeepsIInv ==
  ASSUME IInv, NEW k \in Keys, remove(k)
  PROVE  IInv'
<1>0. TypeOK /\ FactorySound
  BY DEF IInv
<1>t. /\ factory \in [Keys -> Procs \cup {0}]
      /\ pool \in Pools /\ Partition(pool)
  BY <1>0 DEF TypeOK
<1> DEFINE ps == {factory[k]}
<1>1. ps \subseteq InFactory /\ ps \subseteq Procs
  BY <1>t DEF remove, InFactory
<1>2. \A j \in Keys : factory[j] = factory[k] => j = k
  BY <1>0 DEF remove, FactorySound
<1>3. factory' = [j \in Keys |-> IF factory[j] \in ps THEN 0 ELSE factory[j]]
  BY <1>t, <1>2 DEF remove
<1>4. Destroy(ps) /\ UNCHANGED <<pool, made, creating, attempt, key, httpPort, process, outside, late>>
  BY DEF remove
<1> HIDE DEF ps
<1> QED BY <1>t, <1>1, <1>3, <1>4, RemovalKeepsIInv

LEMMA CleanupKeepsIInv ==
  ASSUME IInv, cleanup
  PROVE  IInv'
<1>0. TypeOK
  BY DEF IInv
<1>t. /\ factory \in [Keys -> Procs \cup {0}]
      /\ pool \in Pools /\ Partition(pool) /\ InFactory \subseteq Procs
  BY <1>0 DEF TypeOK, InFactory
<1>1. PICK stale \in SUBSET Keys : pool' = Release(pool, stale)
  BY DEF cleanup
<1>2. /\ pool' \in Pools
      /\ \A j \in Keys : pool'.allocation[j] = IF j \in stale THEN 0 ELSE pool.allocation[j]
  BY <1>t, <1>1, ReleaseFields
<1>3. Partition(pool')
  BY <1>t, <1>1, ReleaseKeepsPartition
<1>4. \A j \in Keys : factory'[j] = 0
  BY <1>t DEF cleanup, InFactory
<1> QED BY <1>t, <1>2, <1>3, <1>4, RemovalKeepsIInv DEF cleanup

LEMMA InitializeFailsKeepsIInv ==
  ASSUME IInv, NEW p \in Procs, p <= made, InitializeFails(p)
  PROVE  IInv'
<1>0. TypeOK /\ BornSound /\ CreatingSound
  BY DEF IInv
<1>t. /\ factory \in [Keys -> Procs \cup {0}] /\ late \in BOOLEAN
      /\ pool \in Pools /\ Partition(pool)
  BY <1>0 DEF TypeOK
<1>1. key[p] \in Keys /\ factory[key[p]] \in {p} \cup {0}
  BY <1>0 DEF BornSound, CreatingSound, InitializeFails
<1>2. \A j \in Keys \ {key[p]} : factory[j] # p
  BY <1>0 DEF IInv, FactorySound
<1>3. Destroy({p}) /\ Outcome(key[p], pool, factory, 1) /\ 1 \in 1 .. maxAttempts
  BY DEF InitializeFails, Outcome
<1>4. UNCHANGED <<process, outside, late>>
  BY DEF InitializeFails
<1> DEFINE ps == {p}
           fac == factory
<1>5. \A j \in Keys \ {key[p]} : fac[j] = IF factory[j] \in ps THEN 0 ELSE factory[j]
  BY <1>2
<1> QED BY <1>t, <1>1, <1>3, <1>4, <1>5, OutcomeKeepsIInv

LEMMA PortInUseKeepsIInv ==
  ASSUME IInv, NEW p \in Procs, p <= made, PortInUse(p)
  PROVE  IInv'
<1>0. TypeOK /\ BornSound /\ FactorySound /\ CreatingSound /\ KeepsPortUnlessLate
  BY DEF IInv
<1> DEFINE k == key[p]
           q == httpPort[p]
           pl == Release(pool, {k})
           holder == pl.holder[q]
           bl == blockPort(pl, q)
           fac == [factory EXCEPT ![k] = 0]
<1>t. /\ factory \in [Keys -> Procs \cup {0}] /\ late \in BOOLEAN
      /\ attempt \in [Keys -> 0 .. maxAttempts]
      /\ pool \in Pools /\ Partition(pool)
  BY <1>0 DEF TypeOK
<1>1. /\ k \in Keys /\ q \in Ports /\ factory[k] \in {p} \cup {0}
      /\ \A j \in Keys \ {k} : factory[j] # p
  BY <1>0 DEF BornSound, CreatingSound, FactorySound, PortInUse
<1> HIDE DEF k, q
<1>2. /\ pl \in Pools /\ Partition(pl)
      /\ \A j \in Keys : pl.allocation[j] = IF j \in {k} THEN 0 ELSE pool.allocation[j]
      /\ holder = IF pool.holder[q] \in {k} THEN NoKey ELSE pool.holder[q]
  <2>1. /\ pl \in Pools
        /\ \A j \in Keys : pl.allocation[j] = IF j \in {k} THEN 0 ELSE pool.allocation[j]
        /\ \A r \in Ports : pl.holder[r] = IF pool.holder[r] \in {k} THEN NoKey ELSE pool.holder[r]
    BY <1>t, <1>1, ReleaseFields
  <2>2. Partition(pl)
    BY <1>t, <1>1, ReleaseKeepsPartition
  <2> QED BY <1>1, <2>1, <2>2
<1> USE DEF k, q
<1>3. /\ bl \in Pools /\ Partition(bl)
      /\ \A j \in Keys : bl.allocation[j] = IF j = holder THEN 0 ELSE pl.allocation[j]
  <2> HIDE DEF pl
  <2> QED BY <1>1, <1>2, BlockFacts
<1>4. /\ Destroy({p}) /\ UNCHANGED <<process, outside>>
      /\ late' = (late \/ (status[p] = "destroyed" /\ HasProcessor(holder)))
  BY DEF PortInUse
<1>5. PICK n \in 1 .. maxAttempts : Outcome(k, bl, fac, n)
  <2>1. CASE attempt[k] < maxAttempts
    <3>1. attempt[k] + 1 \in 1 .. maxAttempts
      BY <1>t, <1>1, <2>1
    <3>2. Construct(k, bl, fac, attempt[k] + 1)
      BY <2>1 DEF PortInUse
    <3> HIDE DEF bl, fac, k
    <3> QED BY <3>1, <3>2 DEF Outcome
  <2>2. CASE ~(attempt[k] < maxAttempts)
    <3>1. GiveUp(k, bl, fac)
      BY <2>2 DEF PortInUse
    <3> HIDE DEF bl, fac, k
    <3> QED BY <3>1 DEF Outcome
  <2> QED BY <2>1, <2>2
<1>6. /\ fac \in [Keys -> Procs \cup {0}]
      /\ \A j \in Keys \ {k} : fac[j] = IF factory[j] \in {p} THEN 0 ELSE factory[j]
  BY <1>t, <1>1
<1>7. \A j \in Keys \ {k} : bl.allocation[j] # 0 => bl.allocation[j] = pool.allocation[j]
  BY <1>2, <1>3
(* A port is lost to another key only when p was destroyed before.         *)
<1>8. ASSUME NEW j \in Keys \ {k}, ~late', fac[j] # 0
      PROVE  bl.allocation[j] = pool.allocation[j]
  <2>1. factory[j] # 0 /\ key[factory[j]] = j /\ status[factory[j]] # "destroyed"
        /\ factory[j] <= made /\ factory[j] \in Procs
    BY <1>0, <1>t, <1>8 DEF FactorySound
  <2>2. HasProcessor(j)
    BY <2>1 DEF HasProcessor, Procs
  <2>3. j # holder
    <3>1. CASE status[p] = "destroyed"
      BY <1>4, <1>8, <2>2, <3>1
    <3>2. CASE status[p] # "destroyed"
      <4>1. factory[k] = p /\ p # 0
        BY <1>0, <3>2 DEF FactorySound
      <4>2. pool.allocation[k] = q
        BY <1>0, <1>1, <1>4, <1>8, <4>1 DEF KeepsPortUnlessLate
      <4>3. pool.holder[q] = k
        BY <1>t, <1>1, <4>2 DEF Partition
      <4> QED BY <1>2, <4>3
    <3> QED BY <3>1, <3>2
  <2> QED BY <1>2, <1>3, <2>3
<1>9. late' \in BOOLEAN /\ (late => late')
  BY <1>t, <1>4
<1> DEFINE ps == {p}
<1>10. /\ \A r \in ps : r <= made
       /\ factory[k] \in ps \cup {0}
       /\ \A j \in Keys \ {k} : fac[j] = IF factory[j] \in ps THEN 0 ELSE factory[j]
       /\ Destroy(ps) /\ ps \subseteq Procs
  BY <1>1, <1>4, <1>6
<1> HIDE DEF bl, fac, k, q, pl, holder, ps
<1> QED BY <1>1, <1>3, <1>4, <1>5, <1>6, <1>7, <1>8, <1>9, <1>10, OutcomeKeepsIInv

LEMMA ReadyKeepsIInv ==
  ASSUME IInv, NEW p \in Procs, p <= made, Ready(p)
  PROVE  IInv'
<1>0. TypeOK /\ BornSound /\ FactorySound /\ CreatingSound /\ ArmedSound
      /\ AllocationsAreOwned /\ KeepsPortUnlessLate
  BY DEF IInv
<1>t. /\ status \in [Procs -> Statuses] /\ creating \in [Keys -> Procs \cup {0}]
      /\ attempt \in [Keys -> 0 .. maxAttempts] /\ made \in Nat
  BY <1>0 DEF TypeOK
<1>1. /\ status[p] = "starting"
      /\ \A r \in Procs : status'[r] = IF r = p THEN "ready" ELSE status[r]
      /\ status' \in [Procs -> Statuses]
  BY <1>t DEF Ready, Statuses
<1>k. /\ creating' \in [Keys -> Procs \cup {0}]
      /\ \A j \in Keys : creating'[j] = IF j = key[p] THEN 0 ELSE creating[j]
  BY <1>t DEF Ready
<1>a. attempt' \in [Keys -> 0 .. maxAttempts]
  <2>1. 0 \in 0 .. maxAttempts
    OBVIOUS
  <2> QED BY <1>t, <2>1 DEF Ready
<1>2. UNCHANGED <<pool, factory, made, key, httpPort, process, armed, outside, late>>
  BY DEF Ready
<1>3. TypeOK'
  BY <1>0, <1>1, <1>k, <1>a, <1>2 DEF TypeOK
<1>4. BornSound' /\ FactorySound' /\ CreatingSound' /\ ArmedSound'
  BY <1>0, <1>t, <1>1, <1>k, <1>2 DEF BornSound, FactorySound, CreatingSound, ArmedSound, Procs, TypeOK
<1>5. AllocationsAreOwned' /\ KeepsPortUnlessLate'
  BY <1>0, <1>2 DEF AllocationsAreOwned, KeepsPortUnlessLate
<1> QED BY <1>3, <1>4, <1>5 DEF IInv

(* The release that a destroyed processor has left behind.                 *)
LEMMA LateReleaseFacts ==
  ASSUME IInv, NEW p \in Procs, LateRelease(p),
         UNCHANGED <<createVars, key, httpPort, outside>>
  PROVE  /\ pool' \in Pools /\ Partition(pool') /\ late' \in BOOLEAN
         /\ armed' = armed \ {p}
         /\ AllocationsAreOwned' /\ KeepsPortUnlessLate'
<1>0. TypeOK /\ BornSound /\ FactorySound /\ ArmedSound
      /\ AllocationsAreOwned /\ KeepsPortUnlessLate
  BY DEF IInv
<1>t. /\ pool \in Pools /\ Partition(pool) /\ late \in BOOLEAN /\ armed \subseteq Procs
      /\ factory \in [Keys -> Procs \cup {0}]
  BY <1>0 DEF TypeOK
<1>1. CASE p \notin armed
  <2>1. UNCHANGED <<pool, late>> /\ armed' = armed \ {p} /\ armed' = armed
    BY <1>1 DEF LateRelease
  <2> QED BY <1>0, <1>t, <2>1 DEF AllocationsAreOwned, KeepsPortUnlessLate, createVars
<1>2. CASE p \in armed
  <2>1. /\ pool' = Release(pool, {key[p]}) /\ armed' = armed \ {p}
        /\ late' = (late \/ HasProcessor(key[p]))
        /\ key[p] \in Keys
    BY <1>0, <1>2 DEF LateRelease, ArmedSound, BornSound
  <2>2. /\ pool' \in Pools /\ Partition(pool')
        /\ \A j \in Keys : pool'.allocation[j] = IF j \in {key[p]} THEN 0 ELSE pool.allocation[j]
    BY <1>t, <2>1, ReleaseFields, ReleaseKeepsPartition
  <2>3. AllocationsAreOwned'
    BY <1>0, <2>1, <2>2 DEF AllocationsAreOwned, createVars
  <2>4. ASSUME NEW j \in Keys, ~late', factory[j] # 0
        PROVE  j # key[p]
    <3>1. /\ factory[j] \in 1 .. made /\ key[factory[j]] = j
          /\ status[factory[j]] # "destroyed"
      BY <1>0, <1>t, <2>4 DEF FactorySound, Procs
    <3>2. HasProcessor(j)
      BY <3>1 DEF HasProcessor
    <3> QED BY <2>1, <2>4, <3>2
  <2>5. KeepsPortUnlessLate'
    BY <1>0, <1>t, <2>1, <2>2, <2>4 DEF KeepsPortUnlessLate, createVars
  <2> QED BY <1>t, <2>1, <2>2, <2>3, <2>5
<1> QED BY <1>1, <1>2

LEMMA CloseKeepsIInv ==
  ASSUME IInv, NEW p \in Procs, p <= made, Close(p)
  PROVE  IInv'
<1>0. TypeOK /\ BornSound /\ FactorySound /\ CreatingSound /\ ArmedSound
  BY DEF IInv
<1>1. UNCHANGED <<createVars, key, httpPort, outside>> /\ LateRelease(p)
  BY DEF Close
<1>2. /\ pool' \in Pools /\ Partition(pool') /\ late' \in BOOLEAN
      /\ armed' = armed \ {p}
      /\ AllocationsAreOwned' /\ KeepsPortUnlessLate'
  BY <1>1, LateReleaseFacts
<1>3. /\ status' \in [Procs -> Statuses] /\ process' \in [Procs -> Processes]
      /\ \A r \in Procs : status'[r] = IF r = p /\ status[r] # "destroyed"
                                       THEN "error" ELSE status[r]
  BY <1>0 DEF Close, TypeOK, Statuses, Processes
<1>4. TypeOK'
  BY <1>0, <1>1, <1>2, <1>3 DEF TypeOK, createVars
<1>5. made \in Nat
  BY <1>0 DEF TypeOK
<1>6. BornSound' /\ FactorySound' /\ CreatingSound' /\ ArmedSound'
  BY <1>0, <1>1, <1>2, <1>3, <1>5
     DEF BornSound, FactorySound, CreatingSound, ArmedSound, createVars, Procs, TypeOK
<1> QED BY <1>2, <1>4, <1>6 DEF IInv

LEMMA KillTimerKeepsIInv ==
  ASSUME IInv, NEW p \in Procs, KillTimer(p)
  PROVE  IInv'
<1>0. TypeOK /\ BornSound /\ FactorySound /\ CreatingSound /\ ArmedSound
  BY DEF IInv
<1>1. UNCHANGED <<createVars, procVars, outside>> /\ LateRelease(p)
  BY DEF KillTimer
<1>2. /\ pool' \in Pools /\ Partition(pool') /\ late' \in BOOLEAN
      /\ armed' = armed \ {p}
      /\ AllocationsAreOwned' /\ KeepsPortUnlessLate'
  BY <1>1, LateReleaseFacts DEF procVars
<1>3. TypeOK'
  BY <1>0, <1>1, <1>2 DEF TypeOK, createVars, procVars
<1>4. BornSound' /\ FactorySound' /\ CreatingSound' /\ ArmedSound'
  BY <1>0, <1>1, <1>2
     DEF BornSound, FactorySound, CreatingSound, ArmedSound, createVars, procVars
<1> QED BY <1>2, <1>3, <1>4 DEF IInv

(* The steps of the processes and of other programs that leave the ports.  *)
LEMMA OthersKeepIInv ==
  ASSUME IInv, process' \in [Procs -> Processes], outside' \in SUBSET Ports,
         UNCHANGED <<pool, createVars, key, httpPort, status, armed, late>>
  PROVE  IInv'
BY DEF IInv, TypeOK, BornSound, FactorySound, CreatingSound, ArmedSound,
       AllocationsAreOwned, KeepsPortUnlessLate, createVars

LEMMA NextKeepsIInv == IInv /\ [Next]_vars => IInv'
<1> SUFFICES ASSUME IInv, [Next]_vars PROVE IInv'
  OBVIOUS
<1>t. /\ made \in Nat /\ made <= MaxProcessors /\ outside \subseteq Ports
      /\ process \in [Procs -> Processes]
  BY DEF IInv, TypeOK
<1>1. \A p \in 1 .. made : p \in Procs /\ p <= made
  BY <1>t DEF Procs
<1>2. ASSUME NEW k \in Keys, create(k) PROVE IInv'
  BY <1>2, CreateKeepsIInv
<1>3. ASSUME NEW k \in Keys, remove(k) PROVE IInv'
  BY <1>3, RemoveKeepsIInv
<1>4. CASE cleanup
  BY <1>4, CleanupKeepsIInv
<1>5. ASSUME NEW p \in 1 .. made, Ready(p) PROVE IInv'
  BY <1>1, <1>5, ReadyKeepsIInv
<1>6. ASSUME NEW p \in 1 .. made, InitializeFails(p) PROVE IInv'
  BY <1>1, <1>6, InitializeFailsKeepsIInv
<1>7. ASSUME NEW p \in 1 .. made, PortInUse(p) PROVE IInv'
  BY <1>1, <1>7, PortInUseKeepsIInv
<1>8. ASSUME NEW p \in 1 .. made, Listen(p) PROVE IInv'
  <2>1. process' \in [Procs -> Processes] /\ outside' = outside
    BY <1>t, <1>8 DEF Listen, Processes
  <2> QED BY <1>t, <1>8, <2>1, OthersKeepIInv DEF Listen
<1>9. ASSUME NEW p \in 1 .. made, Close(p) PROVE IInv'
  BY <1>1, <1>9, CloseKeepsIInv
<1>10. ASSUME NEW p \in 1 .. made, KillTimer(p) PROVE IInv'
  BY <1>1, <1>10, KillTimerKeepsIInv
<1>11. ASSUME NEW q \in Ports, OutsideListens(q) \/ OutsideStops(q) PROVE IInv'
  BY <1>t, <1>11, OthersKeepIInv DEF OutsideListens, OutsideStops, procVars
<1>12. CASE UNCHANGED vars
  BY <1>t, <1>12, OthersKeepIInv DEF vars, createVars, procVars
<1> QED BY <1>2, <1>3, <1>4, <1>5, <1>6, <1>7, <1>8, <1>9, <1>10, <1>11, <1>12 DEF Next

-----------------------------------------------------------------------------
(* The theorems.                                                           *)

LEMMA Invariance == Spec => []IInv
BY InitIInv, NextKeepsIInv, PTL DEF Spec

(* The state stays well-typed: in particular every port stays available,   *)
(* blocked or allocated to exactly one key.                                *)
THEOREM TypeCorrect == Spec => []TypeOK
<1>1. IInv => TypeOK
  BY DEF IInv
<1> QED BY <1>1, Invariance, PTL

(* No port leaks: every allocation has a processor in the factory, or one  *)
(* whose destruction has yet to release it.                                *)
THEOREM AllocationsAreOwnedTheorem == Spec => []AllocationsAreOwned
<1>1. IInv => AllocationsAreOwned
  BY DEF IInv
<1> QED BY <1>1, Invariance, PTL

(* Nothing but a destroyed processor, with its late release or its report  *)
(* of a port in use, takes the port of a processor in use away.            *)
THEOREM KeepsPortTheorem == Spec => []KeepsPortUnlessLate
<1>1. IInv => KeepsPortUnlessLate
  BY DEF IInv
<1> QED BY <1>1, Invariance, PTL

(* Until a destroyed processor comes late, no two processors in use have   *)
(* the same port.                                                          *)
THEOREM DistinctPortsTheorem == Spec => []DistinctPortsUnlessLate
<1>1. IInv => DistinctPortsUnlessLate
  <2> SUFFICES ASSUME IInv, ~late, NEW j \in Keys, NEW k \in Keys, j # k,
                      factory[j] # 0, factory[k] # 0
               PROVE  httpPort[factory[j]] # httpPort[factory[k]]
    BY DEF DistinctPortsUnlessLate
  <2>1. /\ pool.allocation[j] = httpPort[factory[j]]
        /\ pool.allocation[k] = httpPort[factory[k]]
    BY DEF IInv, KeepsPortUnlessLate
  <2>2. factory[k] \in Procs /\ factory[k] <= made
    BY DEF IInv, FactorySound, TypeOK
  <2>3. httpPort[factory[k]] \in Ports
    BY <2>2 DEF IInv, BornSound
  <2>4. Partition(pool)
    BY DEF IInv, TypeOK
  <2> QED BY <2>1, <2>3, <2>4 DEF Partition
<1> QED BY <1>1, Invariance, PTL

=============================================================================
