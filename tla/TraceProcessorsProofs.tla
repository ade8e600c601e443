------------------------- MODULE TraceProcessorsProofs -------------------------
(***************************************************************************)
(* Proofs about TraceProcessors for any number of keys, TraceInfos, loads, *)
(* restarts and crashes.  The argument is about one key at a time: what is *)
(* alive under it is what the factory has, and a creation, with its owner, *)
(* stands for whatever of it is not published yet.                         *)
(***************************************************************************)
EXTENDS TraceProcessors, TLAPS

Of(k) == {k} \X (1..3)

(* The part of TypeOK that is about processors.                            *)
ProcessorTypes ==
  /\ trace \in Nat
  /\ status \in [Processors -> {"starting", "ready", "error", "destroyed"}]
  /\ factory \in [Keys -> Processors \cup {None}]
  /\ published \in [Keys -> Processors \cup {None}]
  /\ creating \in [Keys -> Processors \cup {None}]
  /\ \A k \in Keys : factory[k] \in Refs(k) /\ published[k] \in Refs(k)
                     /\ creating[k] \in Refs(k)
  /\ owner \in [Keys -> Nat]
  /\ waiters \in [Keys -> SUBSET Nat]

KeyInv(k) ==
  /\ owner[k] = 0 <=> creating[k] = None
  /\ 0 \notin waiters[k]
  /\ creating[k] # None => factory[k] \in {creating[k], None}
  /\ trace = 0 => published[k] = None

ProcessorInv(p) ==
  /\ status[p] # "destroyed" => factory[p[1]] = p
  /\ status[p] = "starting" => creating[p[1]] = p
  /\ status[p] = "ready" => published[p[1]] = p

Sound ==
  /\ ProcessorTypes
  /\ \A k \in Keys : KeyInv(k)
  /\ \A p \in Processors : ProcessorInv(p)

(* A deletion waits for every creation for the TraceInfo it invalidated.   *)
DeletionInv ==
  /\ trace \in {0, lastTrace}
  /\ deleting => /\ trace = 0 /\ lastTrace # 0
                 /\ \A k \in Keys : owner[k] = lastTrace => k \in waits

IInv == TypeOK /\ Sound /\ DeletionInv

-----------------------------------------------------------------------------
(* Processors and their keys.                                              *)
LEMMA OfKey ==
  /\ \A k \in Keys : \A p \in Of(k) : p \in Processors /\ p[1] = k /\ p # None
  /\ \A p \in Processors : p[1] \in Keys /\ p \in Of(p[1]) /\ p # None
  /\ \A k \in Keys : Refs(k) = Of(k) \cup {None}
  /\ None \notin Processors
BY NoneAssumption DEF Of, Processors, Refs

(* FactoryCreate, for a key without a creation, leaves one or a ready one. *)
LEMMA FactoryCreateSound ==
  ASSUME Sound, NEW k \in Keys, owner[k] = 0, FactoryCreate(k),
         trace' \in Nat \ {0}, waiters' \in [Keys -> SUBSET Nat],
         \A j \in Keys : 0 \notin waiters'[j]
  PROVE  Sound'
<1> USE DEF Sound
<1>1. CASE /\ StatusIs(factory[k], "ready")
           /\ published' = [published EXCEPT ![k] = factory[k]]
           /\ UNCHANGED <<status, factory, owner, creating>>
  <2>1. ProcessorTypes'
    BY <1>1, OfKey DEF ProcessorTypes, StatusIs
  <2>2. \A j \in Keys : KeyInv(j)'
    BY <1>1, OfKey DEF ProcessorTypes, KeyInv, StatusIs
  <2>3. \A p \in Processors : ProcessorInv(p)'
    BY <1>1, OfKey DEF ProcessorTypes, ProcessorInv, StatusIs
  <2> QED BY <2>1, <2>2, <2>3
<1>2. CASE /\ ~StatusIs(factory[k], "ready")
           /\ status' = Destroy({factory[k]})
           /\ factory' = [factory EXCEPT ![k] = None]
           /\ UNCHANGED <<published, owner, creating>>
  <2>1. ProcessorTypes'
    BY <1>2, OfKey DEF ProcessorTypes, Destroy
  <2>2. \A j \in Keys : KeyInv(j)'
    BY <1>2, OfKey DEF ProcessorTypes, KeyInv
  <2>3. \A p \in Processors : ProcessorInv(p)'
    BY <1>2, OfKey DEF ProcessorTypes, ProcessorInv, Destroy
  <2> QED BY <2>1, <2>2, <2>3
<1>3. ASSUME NEW p \in Of(k), Fresh(k, p),
             ~StatusIs(factory[k], "ready"),
             status' = [Destroy({factory[k]}) EXCEPT ![p] = "starting"],
             factory' = [factory EXCEPT ![k] = p],
             creating' = [creating EXCEPT ![k] = p],
             owner' = [owner EXCEPT ![k] = trace'],
             published' = published
      PROVE  Sound'
  <2>1. ProcessorTypes'
    BY <1>3, OfKey DEF ProcessorTypes, Destroy
  <2>2. \A j \in Keys : KeyInv(j)'
    BY <1>3, OfKey DEF ProcessorTypes, KeyInv
  <2>3. \A q \in Processors : ProcessorInv(q)'
    BY <1>3, OfKey DEF ProcessorTypes, ProcessorInv, KeyInv, Destroy, Fresh, Unused
  <2> QED BY <2>1, <2>2, <2>3
<1> QED BY <1>1, <1>2, <1>3 DEF FactoryCreate, Of

(* DestroyProcessor leaves nothing of a key but the creation itself.       *)
LEMMA DestroyProcessorSound ==
  ASSUME Sound, NEW k \in Keys, DestroyProcessor(k),
         UNCHANGED <<trace, creationVars>>
  PROVE  Sound'
<1> USE DEF Sound
<1>1. ProcessorTypes'
  BY OfKey DEF ProcessorTypes, DestroyProcessor, Destroy, creationVars
<1>2. \A j \in Keys : KeyInv(j)'
  BY OfKey DEF ProcessorTypes, KeyInv, DestroyProcessor, creationVars
<1>3. \A p \in Processors : ProcessorInv(p)'
  BY OfKey DEF ProcessorTypes, ProcessorInv, DestroyProcessor, Destroy, ForRestart, creationVars
<1> QED BY <1>1, <1>2, <1>3

(* Discard may be used on any keys, and on all that have something         *)
(* published when the trace goes.                                          *)
LEMMA DiscardSound ==
  ASSUME Sound, NEW ks \in SUBSET Keys, Discard(ks), trace' \in Nat,
         trace' = 0 => \A k \in Keys : published[k] # None => k \in ks,
         UNCHANGED creationVars
  PROVE  Sound'
<1> USE DEF Sound
<1>1. ProcessorTypes'
  BY OfKey DEF ProcessorTypes, Discard, Destroy, creationVars
<1>2. \A j \in Keys : KeyInv(j)'
  BY OfKey DEF ProcessorTypes, KeyInv, Discard, creationVars
<1>3. \A p \in Processors : ProcessorInv(p)'
  BY OfKey DEF ProcessorTypes, ProcessorInv, Discard, Discarded, Destroy, creationVars
<1> QED BY <1>1, <1>2, <1>3

(* createProcessor for the current TraceInfo.                              *)
LEMMA CreateProcessorSound ==
  ASSUME Sound, NEW k \in Keys, CreateProcessor(k), trace' \in Nat \ {0}
  PROVE  Sound'
<1>1. CASE UNCHANGED <<processorVars, creationVars>>
  <2>1. ProcessorTypes' /\ \A j \in Keys : KeyInv(j)'
    BY <1>1 DEF Sound, ProcessorTypes, KeyInv, processorVars, creationVars
  <2>2. \A p \in Processors : ProcessorInv(p)'
    BY <1>1 DEF Sound, ProcessorInv, processorVars, creationVars
  <2> QED BY <2>1, <2>2 DEF Sound
<1>2. CASE /\ waiters' = [waiters EXCEPT ![k] = @ \cup {trace'}]
           /\ UNCHANGED <<processorVars, owner, creating>>
  <2>1. ProcessorTypes' /\ \A j \in Keys : KeyInv(j)'
    BY <1>2 DEF Sound, ProcessorTypes, KeyInv, processorVars
  <2>2. \A p \in Processors : ProcessorInv(p)'
    BY <1>2 DEF Sound, ProcessorInv, processorVars
  <2> QED BY <2>1, <2>2 DEF Sound
<1>3. CASE owner[k] = 0 /\ FactoryCreate(k) /\ UNCHANGED waiters
  <2>1. waiters' \in [Keys -> SUBSET Nat] /\ \A j \in Keys : 0 \notin waiters'[j]
    BY <1>3 DEF Sound, ProcessorTypes, KeyInv
  <2> QED BY <1>3, <2>1, FactoryCreateSound
<1> QED BY <1>1, <1>2, <1>3 DEF CreateProcessor

(* Steps that change neither processors nor creations.                     *)
LEMMA NothingMoves ==
  ASSUME Sound, UNCHANGED <<processorVars, creationVars>>, trace' \in Nat,
         trace' = 0 => \A k \in Keys : published[k] = None
  PROVE  Sound'
<1>1. ProcessorTypes' /\ \A j \in Keys : KeyInv(j)'
  BY DEF Sound, ProcessorTypes, KeyInv, processorVars, creationVars
<1>2. \A p \in Processors : ProcessorInv(p)'
  BY DEF Sound, ProcessorInv, processorVars, creationVars
<1> QED BY <1>1, <1>2 DEF Sound

-----------------------------------------------------------------------------
(* The steps of a creation.                                                *)
LEMMA CreationSucceedsSound ==
  ASSUME Sound, NEW k \in Keys, CreationSucceeds(k)
  PROVE  Sound'
<1> USE DEF Sound
<1>0. /\ StatusIs(creating[k], "starting") /\ creating[k] \in Of(k)
      /\ owner[k] # 0 /\ factory[k] = creating[k]
      /\ owner' = [owner EXCEPT ![k] = 0]
      /\ creating' = [creating EXCEPT ![k] = None]
      /\ waiters' = waiters /\ trace' = trace
  BY OfKey DEF CreationSucceeds, EndCreation, StatusIs, ProcessorTypes, ProcessorInv,
               KeyInv, traceVars
<1>1. CASE owner[k] = trace
  <2>0. /\ status' = [status EXCEPT ![creating[k]] = "ready"]
        /\ published' = [published EXCEPT ![k] = creating[k]]
        /\ factory' = factory
    BY <1>1 DEF CreationSucceeds
  <2>1. ProcessorTypes'
    BY <1>0, <2>0, OfKey DEF ProcessorTypes
  <2>2. \A j \in Keys : KeyInv(j)'
    BY <1>0, <1>1, <2>0 DEF ProcessorTypes, KeyInv
  <2>3. \A p \in Processors : ProcessorInv(p)'
    BY <1>0, <2>0, OfKey DEF ProcessorTypes, ProcessorInv
  <2> QED BY <2>1, <2>2, <2>3
<1>2. CASE owner[k] # trace
  <2>0. /\ status' = Destroy({creating[k]})
        /\ factory' = [factory EXCEPT ![k] = IF @ = creating[k] THEN None ELSE @]
        /\ published' = published
    BY <1>2 DEF CreationSucceeds
  <2>1. ProcessorTypes'
    BY <1>0, <2>0, OfKey DEF ProcessorTypes, Destroy
  <2>2. \A j \in Keys : KeyInv(j)'
    BY <1>0, <2>0 DEF ProcessorTypes, KeyInv
  <2>3. \A p \in Processors : ProcessorInv(p)'
    BY <1>0, <2>0, OfKey DEF ProcessorTypes, ProcessorInv, Destroy
  <2> QED BY <2>1, <2>2, <2>3
<1> QED BY <1>1, <1>2

LEMMA CreationFailsSound ==
  ASSUME Sound, NEW k \in Keys, CreationFails(k)
  PROVE  Sound'
<1> USE DEF Sound
<1>0. /\ creating[k] # None /\ trace' = trace
      /\ owner' = [owner EXCEPT ![k] = 0]
      /\ creating' = [creating EXCEPT ![k] = None]
      /\ status' = Destroy({creating[k]})
      /\ factory' = [factory EXCEPT ![k] = None]
      /\ published' = published /\ waiters' = waiters
  BY DEF CreationFails, EndCreation, traceVars
<1>1. ProcessorTypes'
  BY <1>0, OfKey DEF ProcessorTypes, Destroy
<1>2. \A j \in Keys : KeyInv(j)'
  BY <1>0 DEF ProcessorTypes, KeyInv
<1>3. \A p \in Processors : ProcessorInv(p)'
  BY <1>0, OfKey DEF ProcessorTypes, ProcessorInv, KeyInv, Destroy
<1> QED BY <1>1, <1>2, <1>3

LEMMA CreationRetriesSound ==
  ASSUME Sound, NEW k \in Keys, CreationRetries(k)
  PROVE  Sound'
<1> USE DEF Sound
<1>0. PICK p \in Of(k) :
         /\ Fresh(k, p)
         /\ status' = [Destroy({creating[k]}) EXCEPT ![p] = "starting"]
         /\ factory' = [factory EXCEPT ![k] = p]
         /\ creating' = [creating EXCEPT ![k] = p]
  BY DEF CreationRetries, Of
<1>1. /\ creating[k] # None /\ factory[k] \in {creating[k], None}
      /\ UNCHANGED <<trace, published, owner, waiters>>
  BY DEF CreationRetries, KeyInv, traceVars
<1>2. ProcessorTypes'
  BY <1>0, <1>1, OfKey DEF ProcessorTypes, Destroy
<1>3. \A j \in Keys : KeyInv(j)'
  BY <1>0, <1>1, OfKey DEF ProcessorTypes, KeyInv
<1>4. \A q \in Processors : ProcessorInv(q)'
  BY <1>0, <1>1, OfKey DEF ProcessorTypes, ProcessorInv, Destroy, Fresh, Unused
<1> QED BY <1>2, <1>3, <1>4

LEMMA WaiterContinuesSound ==
  ASSUME Sound, NEW k \in Keys, NEW t \in waiters[k], WaiterContinues(k, t)
  PROVE  Sound'
<1>0. /\ waiters' = [waiters EXCEPT ![k] = @ \ {t}] /\ trace' = trace
      /\ t \in Nat \ {0} /\ trace \in Nat
  BY DEF WaiterContinues, traceVars, Sound, ProcessorTypes, KeyInv
<1>1. waiters' \in [Keys -> SUBSET Nat] /\ \A j \in Keys : 0 \notin waiters'[j]
  BY <1>0 DEF Sound, ProcessorTypes, KeyInv
<1>2. CASE t = trace /\ restart[k] = "none" /\ owner[k] = 0
  <2>1. FactoryCreate(k) /\ trace' \in Nat \ {0}
    BY <1>0, <1>2 DEF WaiterContinues
  <2> QED BY <1>1, <1>2, <2>1, FactoryCreateSound
<1>3. CASE UNCHANGED <<processorVars, owner, creating>>
  <2>1. ProcessorTypes' /\ \A j \in Keys : KeyInv(j)'
    BY <1>0, <1>1, <1>3 DEF Sound, ProcessorTypes, KeyInv, processorVars
  <2>2. \A p \in Processors : ProcessorInv(p)'
    BY <1>3 DEF Sound, ProcessorInv, processorVars
  <2> QED BY <2>1, <2>2 DEF Sound
<1> QED BY <1>2, <1>3 DEF WaiterContinues

LEMMA CrashSound ==
  ASSUME Sound, NEW p \in Processors, Crash(p)
  PROVE  Sound'
<1>1. ProcessorTypes' /\ \A j \in Keys : KeyInv(j)'
  BY DEF Sound, Crash, ProcessorTypes, KeyInv, creationVars, traceVars
<1>2. \A q \in Processors : ProcessorInv(q)'
  BY DEF Sound, Crash, ProcessorTypes, ProcessorInv, creationVars
<1> QED BY <1>1, <1>2 DEF Sound

LEMMA EvictSound ==
  ASSUME Sound, Evict
  PROVE  Sound'
<1>0. Shared \in Keys
  BY ProcessorAssumption
<1>1. ProcessorTypes'
  BY <1>0, OfKey DEF Sound, Evict, ProcessorTypes, Destroy, creationVars, traceVars
<1>2. \A j \in Keys : KeyInv(j)'
  BY <1>0 DEF Sound, Evict, ProcessorTypes, KeyInv, creationVars, traceVars
<1>3. \A q \in Processors : ProcessorInv(q)'
  BY <1>0, OfKey DEF Sound, Evict, ProcessorTypes, ProcessorInv, Destroy, creationVars
<1> QED BY <1>1, <1>2, <1>3 DEF Sound

LEMMA RestartCreatesSound ==
  ASSUME Sound, NEW k \in Keys, RestartCreates(k)
  PROVE  Sound'
<1> USE DEF Sound
<1>0. owner[k] = 0 /\ UNCHANGED <<trace, waiters>>
  BY DEF RestartCreates, traceVars
<1>1. CASE UNCHANGED <<processorVars, owner, creating>>
  BY <1>0, <1>1, NothingMoves DEF creationVars, ProcessorTypes, KeyInv
<1>2. ASSUME trace # 0, NEW p \in Of(k), Fresh(k, p),
             status' = [Destroy(ForRestart(k)) EXCEPT ![p] = "starting"],
             factory' = [factory EXCEPT ![k] = p],
             creating' = [creating EXCEPT ![k] = p],
             owner' = [owner EXCEPT ![k] = trace],
             published' = [published EXCEPT ![k] = None]
      PROVE  Sound'
  <2>1. ProcessorTypes'
    BY <1>0, <1>2, OfKey DEF ProcessorTypes, Destroy
  <2>2. \A j \in Keys : KeyInv(j)'
    BY <1>0, <1>2, OfKey DEF ProcessorTypes, KeyInv
  <2>3. \A q \in Processors : ProcessorInv(q)'
    BY <1>0, <1>2, OfKey DEF ProcessorTypes, ProcessorInv, KeyInv, Destroy, ForRestart,
                             Fresh, Unused
  <2> QED BY <2>1, <2>2, <2>3
<1>3. CASE /\ status' = Destroy(ForRestart(k))
           /\ factory' = [factory EXCEPT ![k] = None]
           /\ published' = [published EXCEPT ![k] = None]
           /\ UNCHANGED <<owner, creating>>
  BY <1>0, <1>3, DestroyProcessorSound DEF DestroyProcessor, creationVars
<1> QED BY <1>1, <1>2, <1>3 DEF RestartCreates, Of

LEMMA CleanupProcessorsForTracesSound ==
  ASSUME Sound, CleanupProcessorsForTraces
  PROVE  Sound'
<1> USE DEF Sound
<1> DEFINE ks == {k \in Keys : published[k] # None}
<1>0. /\ status' = Destroy(UNION {ForRestart(k) : k \in ks})
      /\ factory' = [k \in Keys |-> IF k \in ks THEN None ELSE factory[k]]
      /\ published' = [k \in Keys |-> None]
      /\ UNCHANGED <<trace, owner, creating, waiters>>
  BY DEF CleanupProcessorsForTraces, creationVars, traceVars
<1>1. ProcessorTypes'
  BY <1>0, OfKey DEF ProcessorTypes, Destroy
<1>2. \A j \in Keys : KeyInv(j)'
  BY <1>0 DEF ProcessorTypes, KeyInv
<1>3. \A p \in Processors : ProcessorInv(p)'
  <2> SUFFICES ASSUME NEW p \in Processors PROVE ProcessorInv(p)'
    OBVIOUS
  <2>1. CASE p[1] \in ks
    BY <1>0, <2>1, OfKey DEF ProcessorTypes, ProcessorInv, Destroy, ForRestart
  <2>2. CASE p[1] \notin ks
    BY <1>0, <2>2, OfKey DEF ProcessorTypes, ProcessorInv, Destroy
  <2> QED BY <2>1, <2>2
<1> QED BY <1>1, <1>2, <1>3

-----------------------------------------------------------------------------
LEMMA SoundNext == IInv /\ [Next]_vars => Sound'
<1> SUFFICES ASSUME IInv, [Next]_vars PROVE Sound'
  OBVIOUS
<1> USE DEF IInv
<1>0. /\ trace \in Nat /\ lastTrace \in Nat
      /\ trace = 0 => \A k \in Keys : published[k] = None
      /\ Shared \in Keys
  BY ProcessorAssumption DEF TypeOK, Sound, ProcessorTypes, KeyInv
<1>1. CASE LoadBegin \/ RegisterStoredTrace \/ RequestUnlink
  <2>1. /\ UNCHANGED <<processorVars, creationVars>>
        /\ trace' \in Nat
        /\ trace' = 0 => trace = 0
    BY <1>0, <1>1 DEF LoadBegin, RegisterStoredTrace, RequestUnlink, NewTrace
  <2> QED BY <1>0, <2>1, NothingMoves
<1>2. CASE LoadStore
  <2>1. CASE deleting
    BY <1>0, <1>2, <2>1, NothingMoves DEF LoadStore
  <2>2. CASE NewTrace /\ CreateProcessor(Shared)
    BY <1>0, <2>2, CreateProcessorSound DEF NewTrace
  <2> QED BY <1>2, <2>1, <2>2 DEF LoadStore
<1>3. CASE UnregisterStoredTrace
  BY <1>0, <1>3, NothingMoves DEF UnregisterStoredTrace
<1>4. CASE RecoverForQuery
  <2>1. CreateProcessor(Shared) /\ trace' \in Nat \ {0}
    BY <1>0, <1>4 DEF RecoverForQuery, traceVars
  <2> QED BY <1>0, <2>1, CreateProcessorSound
<1>5. ASSUME NEW k \in Keys, EnsureProcessorForLease(k) \/ RestartLease(k)
      PROVE  Sound'
  <2>1. CASE ScheduleRestart(k)
    BY <1>0, <2>1, NothingMoves DEF ScheduleRestart, traceVars
  <2>2. CASE trace # 0 /\ UNCHANGED traceVars /\ CreateProcessor(k)
    BY <1>0, <2>2, CreateProcessorSound DEF traceVars
  <2> QED BY <1>5, <2>1, <2>2 DEF EnsureProcessorForLease, RestartLease
<1>6. ASSUME NEW k \in Keys, SettleCreation(k) \/ CreationRetries(k)
      PROVE  Sound'
  BY <1>6, CreationSucceedsSound, CreationFailsSound, CreationRetriesSound
     DEF SettleCreation
<1>7. ASSUME NEW k \in Keys, NEW t \in waiters[k], WaiterContinues(k, t)
      PROVE  Sound'
  BY <1>7, WaiterContinuesSound
<1>8. ASSUME NEW k \in Keys, RestartStep(k)
      PROVE  Sound'
  <2>1. CASE RestartBegins(k) \/ RestartWakes(k) \/ RestartFails(k)
    <3>1. UNCHANGED <<processorVars, creationVars>> /\ trace' = trace
      BY <2>1 DEF RestartBegins, RestartWakes, RestartFails, traceVars
    <3> QED BY <1>0, <3>1, NothingMoves
  <2>2. CASE RestartCreates(k)
    BY <2>2, RestartCreatesSound
  <2>3. CASE RestartSucceeds(k)
    <3>1. UNCHANGED <<trace, creationVars>>
          /\ (DestroyProcessor(k) \/ UNCHANGED processorVars)
      BY <2>3 DEF RestartSucceeds, traceVars
    <3> QED BY <1>0, <3>1, NothingMoves, DestroyProcessorSound
  <2> QED BY <1>8, <2>1, <2>2, <2>3 DEF RestartStep
<1>9. ASSUME NEW k \in Keys, CleanupLeaseProcessor(k)
      PROVE  Sound'
  <2>1. DestroyProcessor(k) /\ UNCHANGED <<trace, creationVars>>
    BY <1>9 DEF CleanupLeaseProcessor, traceVars
  <2> QED BY <2>1, DestroyProcessorSound
<1>10. CASE (\E p \in Processors : Crash(p)) \/ Evict \/ CleanupProcessorsForTraces
  BY <1>10, CrashSound, EvictSound, CleanupProcessorsForTracesSound
<1>11. CASE Delete
  <2> DEFINE ks == {Shared} \cup {k \in Keys : owner[k] = trace \/ published[k] # None
                                               \/ restart[k] # "none"}
  <2>1. /\ Discard(ks) /\ trace' = 0 /\ UNCHANGED creationVars
        /\ ks \in SUBSET Keys
        /\ \A k \in Keys : published[k] # None => k \in ks
    BY <1>0, <1>11 DEF Delete
  <2> HIDE DEF ks
  <2> QED BY <2>1, DiscardSound
<1>12. CASE DeletionCompletes
  <2> DEFINE ks == {k \in Keys : published[k] # None}
  <2>1. /\ Discard(ks) /\ trace' \in Nat /\ UNCHANGED creationVars
        /\ ks \in SUBSET Keys
        /\ \A k \in Keys : published[k] # None => k \in ks
    BY <1>0, <1>12 DEF DeletionCompletes, NewTrace
  <2> HIDE DEF ks
  <2> QED BY <2>1, DiscardSound
<1>13. CASE RequestDelete
  BY <1>0, <1>11, <1>13, NothingMoves DEF RequestDelete
<1>14. CASE UNCHANGED vars
  BY <1>0, <1>14, NothingMoves DEF vars, traceVars
<1> QED BY <1>1, <1>2, <1>3, <1>4, <1>5, <1>6, <1>7, <1>8, <1>9, <1>10, <1>11, <1>12,
           <1>13, <1>14 DEF Next, DeleteIdle

-----------------------------------------------------------------------------
(* A deletion, and what may create while it waits: nothing.                *)
LEMMA DeletionNext == IInv /\ [Next]_vars => DeletionInv'
<1> SUFFICES ASSUME IInv, [Next]_vars PROVE DeletionInv'
  OBVIOUS
<1>0. /\ trace \in {0, lastTrace} /\ lastTrace \in Nat
      /\ owner \in [Keys -> Nat]
      /\ deleting => trace = 0 /\ lastTrace # 0
      /\ deleting => \A k \in Keys : owner[k] = lastTrace => k \in waits
      /\ Shared \in Keys
  BY ProcessorAssumption DEF IInv, TypeOK, DeletionInv
<1>a. ASSUME ~deleting', trace' \in {0, lastTrace'} PROVE DeletionInv'
  BY <1>a DEF DeletionInv
<1>b. ASSUME UNCHANGED <<trace, lastTrace, deletionVars, owner>> PROVE DeletionInv'
  BY <1>0, <1>b DEF DeletionInv, deletionVars
<1>1. CASE LoadBegin \/ RequestUnlink
  BY <1>1, <1>b DEF LoadBegin, RequestUnlink, creationVars
<1>2. CASE LoadStore
  <2>1. CASE deleting
    BY <1>2, <2>1, <1>b DEF LoadStore, creationVars
  <2>2. CASE ~deleting
    <3>1. ~deleting' /\ trace' = lastTrace'
      BY <1>2, <2>2 DEF LoadStore, NewTrace, deletionVars
    <3> QED BY <3>1, <1>a
  <2> QED BY <2>1, <2>2
<1>3. CASE RegisterStoredTrace
  <2>1. ~deleting' /\ trace' = lastTrace'
    BY <1>3 DEF RegisterStoredTrace, NewTrace, deletionVars
  <2> QED BY <2>1, <1>a
<1>4. CASE UnregisterStoredTrace
  <2>1. ~deleting' /\ trace' = 0
    BY <1>0, <1>4 DEF UnregisterStoredTrace, deletionVars
  <2> QED BY <2>1, <1>a
<1>5. CASE RecoverForQuery
  <2>1. ~deleting' /\ trace' \in {0, lastTrace'}
    BY <1>0, <1>5 DEF RecoverForQuery, deletionVars, traceVars
  <2> QED BY <2>1, <1>a
<1>6. ASSUME NEW k \in Keys, EnsureProcessorForLease(k) \/ RestartLease(k)
      PROVE  DeletionInv'
  <2>1. CASE ScheduleRestart(k)
    BY <2>1, <1>b DEF ScheduleRestart, traceVars, creationVars
  <2>2. CASE trace # 0 /\ UNCHANGED <<traceVars, deletionVars>>
    <3>1. ~deleting' /\ trace' \in {0, lastTrace'}
      BY <1>0, <2>2 DEF deletionVars, traceVars
    <3> QED BY <3>1, <1>a
  <2> QED BY <1>6, <2>1, <2>2 DEF EnsureProcessorForLease, RestartLease
<1>7. ASSUME NEW k \in Keys, SettleCreation(k) PROVE DeletionInv'
  <2>1. /\ owner' = [owner EXCEPT ![k] = 0] /\ waits' = waits \ {k}
        /\ UNCHANGED <<trace, lastTrace, deleting>>
    BY <1>7 DEF SettleCreation, CreationSucceeds, CreationFails, EndCreation, traceVars
  <2> QED BY <1>0, <2>1 DEF DeletionInv
<1>8. ASSUME NEW k \in Keys, CreationRetries(k) PROVE DeletionInv'
  BY <1>8, <1>b DEF CreationRetries, traceVars
<1>9. ASSUME NEW k \in Keys, NEW t \in waiters[k], WaiterContinues(k, t)
      PROVE  DeletionInv'
  <2>1. UNCHANGED <<trace, lastTrace, deletionVars>>
    BY <1>9 DEF WaiterContinues, traceVars
  <2>2. CASE t = trace
    <3>1. trace # 0
      BY <2>2 DEF IInv, Sound, KeyInv
    <3>2. ~deleting' /\ trace' \in {0, lastTrace'}
      BY <1>0, <2>1, <3>1 DEF deletionVars
    <3> QED BY <3>2, <1>a
  <2>3. CASE t # trace
    BY <1>9, <2>1, <2>3, <1>b DEF WaiterContinues
  <2> QED BY <2>2, <2>3
<1>10. ASSUME NEW k \in Keys, RestartStep(k) PROVE DeletionInv'
  <2>1. UNCHANGED <<trace, lastTrace, deletionVars>>
    BY <1>10 DEF RestartStep, RestartBegins, RestartWakes, RestartCreates, RestartSucceeds,
                 RestartFails, traceVars
  <2>2. owner' = owner \/ trace # 0
    BY <1>10 DEF RestartStep, RestartBegins, RestartWakes, RestartCreates, RestartSucceeds,
                 RestartFails, creationVars
  <2>3. CASE trace # 0
    <3>1. ~deleting' /\ trace' \in {0, lastTrace'}
      BY <1>0, <2>1, <2>3 DEF deletionVars
    <3> QED BY <3>1, <1>a
  <2> QED BY <2>1, <2>2, <2>3, <1>b
<1>11. ASSUME NEW k \in Keys, CleanupLeaseProcessor(k) PROVE DeletionInv'
  BY <1>11, <1>b DEF CleanupLeaseProcessor, traceVars, creationVars
<1>12. CASE (\E p \in Processors : Crash(p)) \/ Evict \/ CleanupProcessorsForTraces
  BY <1>12, <1>b DEF Crash, Evict, CleanupProcessorsForTraces, traceVars, creationVars
<1>13. CASE Delete
  <2>1. /\ trace # 0 /\ trace' = 0 /\ deleting' = TRUE
        /\ waits' = {k \in Keys : owner[k] = trace}
        /\ UNCHANGED <<lastTrace, owner>>
    BY <1>13 DEF Delete, creationVars
  <2> QED BY <1>0, <2>1 DEF DeletionInv
<1>14. CASE DeletionCompletes
  <2>1. ~deleting' /\ trace' \in {0, lastTrace'}
    BY <1>0, <1>14 DEF DeletionCompletes, NewTrace
  <2> QED BY <2>1, <1>a
<1>15. CASE RequestDelete
  BY <1>13, <1>15, <1>b DEF RequestDelete, creationVars
<1>16. CASE UNCHANGED vars
  BY <1>16, <1>b DEF vars, traceVars, creationVars
<1> QED BY <1>1, <1>2, <1>3, <1>4, <1>5, <1>6, <1>7, <1>8, <1>9, <1>10, <1>11, <1>12,
           <1>13, <1>14, <1>15, <1>16 DEF Next, DeleteIdle

-----------------------------------------------------------------------------
(* The restart supervisors.                                                *)
RestartTypes ==
  /\ restart \in [Keys -> {"none", "scheduled", "sleeping", "waiting",
                           "creating", "created", "failed"}]
  /\ cancelled \in [Keys -> BOOLEAN]
  /\ attempt \in [Keys -> 0..MaxAttempts - 1]
  /\ revived \subseteq Keys

LEMMA RestartNext == IInv /\ [Next]_vars => RestartTypes'
<1> SUFFICES ASSUME IInv, [Next]_vars PROVE RestartTypes'
  OBVIOUS
<1>0. RestartTypes /\ MaxAttempts \in Nat \ {0}
  BY ProcessorAssumption DEF IInv, TypeOK, RestartTypes
<1>a. ASSUME UNCHANGED restartVars PROVE RestartTypes'
  BY <1>0, <1>a DEF RestartTypes, restartVars
<1>b. ASSUME NEW k \in Keys, EndRestart(k) PROVE RestartTypes'
  BY <1>0, <1>b DEF RestartTypes, EndRestart
<1>c. ASSUME NEW k \in Keys, NextAttempt(k) PROVE RestartTypes'
  <2>1. CASE attempt[k] + 1 < MaxAttempts
    <3>1. attempt[k] + 1 \in 0..MaxAttempts - 1
      BY <1>0, <2>1 DEF RestartTypes
    <3> QED BY <1>0, <1>c, <2>1, <3>1 DEF RestartTypes, NextAttempt
  <2>2. CASE ~(attempt[k] + 1 < MaxAttempts)
    BY <1>b, <1>c, <2>2 DEF NextAttempt
  <2> QED BY <2>1, <2>2
<1>d. ASSUME NEW k \in Keys, NEW next \in {"sleeping", "waiting", "creating", "failed"},
             Proceed(k, next)
      PROVE  RestartTypes'
  BY <1>0, <1>d DEF RestartTypes, Proceed
<1>e. ASSUME NEW ks, CancelRestarts(ks), UNCHANGED <<restart, attempt>> PROVE RestartTypes'
  <2>1. cancelled' \in [Keys -> BOOLEAN]
    BY <1>e, Zenon DEF CancelRestarts
  <2>2. revived' \subseteq revived
    BY <1>e DEF CancelRestarts
  <2> QED BY <1>0, <1>e, <2>1, <2>2 DEF RestartTypes
<1>1. CASE \/ LoadBegin \/ LoadStore \/ RegisterStoredTrace \/ UnregisterStoredTrace
           \/ RecoverForQuery \/ Evict \/ CleanupProcessorsForTraces
           \/ DeletionCompletes \/ RequestUnlink \/ UNCHANGED vars
           \/ \E p \in Processors : Crash(p)
  BY <1>1, <1>a DEF LoadBegin, LoadStore, RegisterStoredTrace, UnregisterStoredTrace,
     RecoverForQuery, Evict, CleanupProcessorsForTraces, DeletionCompletes, RequestUnlink,
     vars, Crash
<1>2. ASSUME NEW k \in Keys, EnsureProcessorForLease(k) \/ RestartLease(k)
      PROVE  RestartTypes'
  <2>1. CASE ScheduleRestart(k)
    BY <1>0, <2>1 DEF ScheduleRestart, RestartTypes
  <2> QED BY <1>2, <1>a, <2>1 DEF EnsureProcessorForLease, RestartLease
<1>3. ASSUME NEW k \in Keys, SettleCreation(k) PROVE RestartTypes'
  <2>1. (WakeRestart(k, "created") \/ WakeRestart(k, "failed"))
        /\ UNCHANGED <<cancelled, attempt, revived>>
    BY <1>3 DEF SettleCreation, CreationSucceeds, CreationFails
  <2> QED BY <1>0, <2>1 DEF RestartTypes, WakeRestart
<1>4. ASSUME NEW k \in Keys,
             CreationRetries(k) \/ \E t \in waiters[k] : WaiterContinues(k, t)
      PROVE  RestartTypes'
  <2>1. CASE CreationRetries(k)
    <3>1. UNCHANGED <<restart, cancelled, attempt>> /\ revived' \subseteq revived \cup {k}
      BY <2>1 DEF CreationRetries
    <3> QED BY <1>0, <3>1 DEF RestartTypes
  <2> QED BY <1>4, <1>a, <2>1 DEF WaiterContinues
<1>5. ASSUME NEW k \in Keys, RestartStep(k) PROVE RestartTypes'
  <2>1. EndRestart(k) \/ NextAttempt(k) \/ Proceed(k, "sleeping") \/ Proceed(k, "waiting")
        \/ Proceed(k, "creating") \/ Proceed(k, "failed")
    BY <1>5 DEF RestartStep, RestartBegins, RestartWakes, RestartCreates, RestartSucceeds,
                RestartFails
  <2> QED BY <1>b, <1>c, <1>d, <2>1
<1>6. ASSUME NEW k \in Keys, CleanupLeaseProcessor(k) PROVE RestartTypes'
  BY <1>6, <1>e DEF CleanupLeaseProcessor
<1>7. CASE Delete
  BY <1>7, <1>e DEF Delete
<1>8. CASE RequestDelete
  BY <1>7, <1>8, <1>a DEF RequestDelete
<1> QED BY <1>1, <1>2, <1>3, <1>4, <1>5, <1>6, <1>7, <1>8 DEF Next, DeleteIdle

CountTypes ==
  lastTrace \in Nat /\ loading \in Nat /\ crashes \in 0..MaxCrashes

FlagTypes ==
  /\ file \in BOOLEAN
  /\ request \in {"none", "deleting", "unlink", "done"}
  /\ deleting \in BOOLEAN /\ waits \subseteq Keys

(* What most steps leave alone.                                            *)
LEMMA QuietSteps ==
  ASSUME \/ RecoverForQuery \/ Evict \/ CleanupProcessorsForTraces \/ UNCHANGED vars
         \/ \E k \in Keys : \/ EnsureProcessorForLease(k) \/ RestartLease(k)
                            \/ CreationRetries(k) \/ RestartStep(k)
                            \/ CleanupLeaseProcessor(k)
                            \/ \E t \in waiters[k] : WaiterContinues(k, t)
  PROVE  UNCHANGED <<traceVars, deletionVars, crashes>>
<1>1. ASSUME NEW k \in Keys, EnsureProcessorForLease(k) \/ RestartLease(k)
      PROVE  UNCHANGED <<traceVars, deletionVars, crashes>>
  BY <1>1 DEF EnsureProcessorForLease, RestartLease, ScheduleRestart
<1>2. ASSUME NEW k \in Keys, RestartStep(k)
      PROVE  UNCHANGED <<traceVars, deletionVars, crashes>>
  BY <1>2 DEF RestartStep, RestartBegins, RestartWakes, RestartCreates, RestartSucceeds,
              RestartFails
<1>3. ASSUME NEW k \in Keys,
             \/ CreationRetries(k) \/ CleanupLeaseProcessor(k)
             \/ \E t \in waiters[k] : WaiterContinues(k, t)
      PROVE  UNCHANGED <<traceVars, deletionVars, crashes>>
  BY <1>3 DEF CreationRetries, CleanupLeaseProcessor, WaiterContinues
<1>4. CASE RecoverForQuery \/ Evict \/ CleanupProcessorsForTraces \/ UNCHANGED vars
  BY <1>4 DEF RecoverForQuery, Evict, CleanupProcessorsForTraces, vars
<1> QED BY <1>1, <1>2, <1>3, <1>4

LEMMA CountNext == IInv /\ [Next]_vars => CountTypes'
<1> SUFFICES ASSUME IInv, [Next]_vars PROVE CountTypes'
  OBVIOUS
<1>0. CountTypes /\ MaxCrashes \in Nat
  BY ProcessorAssumption DEF IInv, TypeOK, CountTypes
<1>1. CASE UNCHANGED <<traceVars, deletionVars, crashes>>
  BY <1>0, <1>1 DEF CountTypes, traceVars
<1>2. CASE LoadBegin \/ RegisterStoredTrace \/ UnregisterStoredTrace \/ RequestUnlink
  BY <1>0, <1>2 DEF CountTypes, LoadBegin, RegisterStoredTrace, UnregisterStoredTrace,
     RequestUnlink, NewTrace
<1>3. CASE LoadStore
  <2>1. /\ loading > 0 /\ loading' = loading - 1 /\ crashes' = crashes
        /\ lastTrace' \in {lastTrace, lastTrace + 1}
    BY <1>3 DEF LoadStore, NewTrace
  <2> QED BY <1>0, <2>1 DEF CountTypes
<1>4. ASSUME NEW k \in Keys, SettleCreation(k) PROVE CountTypes'
  BY <1>0, <1>4 DEF CountTypes, SettleCreation, CreationSucceeds, CreationFails, traceVars
<1>5. ASSUME NEW p \in Processors, Crash(p) PROVE CountTypes'
  BY <1>0, <1>5 DEF CountTypes, Crash, traceVars
<1>6. CASE Delete
  BY <1>0, <1>6 DEF CountTypes, Delete
<1>7. CASE DeletionCompletes
  <2>1. /\ loading' = loading /\ crashes' = crashes
        /\ lastTrace' \in {lastTrace, lastTrace + 1}
    BY <1>7 DEF DeletionCompletes, NewTrace
  <2> QED BY <1>0, <2>1 DEF CountTypes
<1>8. CASE RequestDelete
  BY <1>0, <1>6, <1>8 DEF CountTypes, RequestDelete
<1> QED BY <1>1, <1>2, <1>3, <1>4, <1>5, <1>6, <1>7, <1>8, QuietSteps DEF Next, DeleteIdle

LEMMA FlagNext == IInv /\ [Next]_vars => FlagTypes'
<1> SUFFICES ASSUME IInv, [Next]_vars PROVE FlagTypes'
  OBVIOUS
<1>0. FlagTypes
  BY DEF IInv, TypeOK, FlagTypes
<1>1. CASE UNCHANGED <<traceVars, deletionVars, crashes>>
  BY <1>0, <1>1 DEF FlagTypes, traceVars, deletionVars
<1>2. CASE LoadBegin \/ LoadStore \/ RegisterStoredTrace \/ UnregisterStoredTrace
           \/ RequestUnlink
  BY <1>0, <1>2 DEF FlagTypes, LoadBegin, LoadStore, RegisterStoredTrace,
     UnregisterStoredTrace, RequestUnlink, deletionVars
<1>4. ASSUME NEW k \in Keys, SettleCreation(k) PROVE FlagTypes'
  <2>1. /\ waits' = waits \ {k} /\ UNCHANGED <<file, request, deleting>>
    BY <1>4 DEF SettleCreation, CreationSucceeds, CreationFails, EndCreation, traceVars
  <2> QED BY <1>0, <2>1 DEF FlagTypes
<1>5. ASSUME NEW p \in Processors, Crash(p) PROVE FlagTypes'
  BY <1>0, <1>5 DEF FlagTypes, Crash, traceVars, deletionVars
<1>6. CASE Delete /\ request' \in {"none", "deleting", "unlink", "done"}
  BY <1>0, <1>6 DEF FlagTypes, Delete
<1>7. CASE DeletionCompletes
  <2>1. file' \in BOOLEAN
    BY <1>0, <1>7 DEF FlagTypes, DeletionCompletes
  <2>2. deleting' = FALSE /\ waits' = waits /\ request' \in {request, "unlink"}
    BY <1>7 DEF DeletionCompletes
  <2> QED BY <1>0, <2>1, <2>2 DEF FlagTypes
<1>8. CASE DeleteIdle
  BY <1>0, <1>6, <1>8 DEF DeleteIdle, FlagTypes
<1>9. CASE RequestDelete
  <2>1. CASE request' = "deleting" /\ Delete
    BY <1>6, <2>1
  <2>2. CASE /\ request' = IF deleting THEN "deleting" ELSE "unlink"
             /\ UNCHANGED <<file, deletionVars>>
    BY <1>0, <2>2 DEF FlagTypes, deletionVars
  <2> QED BY <1>9, <2>1, <2>2 DEF RequestDelete
<1> QED BY <1>1, <1>2, <1>4, <1>5, <1>7, <1>8, <1>9, QuietSteps DEF Next

-----------------------------------------------------------------------------
LEMMA InvInit == Init => IInv
<1> SUFFICES ASSUME Init PROVE IInv
  OBVIOUS
<1>1. ProcessorTypes
  BY OfKey DEF Init, ProcessorTypes
<1>2. RestartTypes
  <2>1. 0 \in 0..MaxAttempts - 1
    BY ProcessorAssumption
  <2> QED BY <2>1 DEF Init, RestartTypes
<1>3. CountTypes /\ trace \in 0..lastTrace
  BY ProcessorAssumption DEF Init, CountTypes
<1>4. FlagTypes
  BY DEF Init, FlagTypes
<1>5. TypeOK
  BY <1>1, <1>2, <1>3, <1>4 DEF TypeOK, ProcessorTypes, RestartTypes, CountTypes, FlagTypes
<1>6. /\ \A k \in Keys : KeyInv(k)
      /\ \A p \in Processors : ProcessorInv(p)
  BY DEF Init, KeyInv, ProcessorInv
<1>7. DeletionInv
  BY DEF Init, DeletionInv
<1> QED BY <1>1, <1>5, <1>6, <1>7 DEF IInv, Sound

(* The inductive invariant.                                                *)
THEOREM InvCorrect == Spec => []IInv
<1>1. IInv /\ [Next]_vars => IInv'
  <2> SUFFICES ASSUME IInv, [Next]_vars PROVE IInv'
    OBVIOUS
  <2>1. Sound' /\ DeletionInv' /\ RestartTypes' /\ CountTypes' /\ FlagTypes'
    BY SoundNext, DeletionNext, RestartNext, CountNext, FlagNext
  <2>2. (trace \in 0..lastTrace)'
    BY <2>1 DEF DeletionInv, CountTypes
  <2>3. TypeOK'
    BY <2>1, <2>2 DEF TypeOK, Sound, ProcessorTypes, RestartTypes, CountTypes, FlagTypes
  <2> QED BY <2>1, <2>3 DEF IInv
<1> QED BY <1>1, InvInit, PTL DEF Spec

(* Variables keep their types.                                             *)
THEOREM TypeCorrect == Spec => []TypeOK
BY InvCorrect, PTL DEF IInv

(* From the moment a deletion invalidates the TraceInfo nothing is         *)
(* published or ready, whoever was creating, loading or restarting.        *)
THEOREM NoProcessorWithoutTraceTheorem == Spec => []NoProcessorWithoutTrace
<1>1. IInv => NoProcessorWithoutTrace
  BY OfKey DEF IInv, Sound, ProcessorTypes, KeyInv, ProcessorInv, NoProcessorWithoutTrace
<1> QED BY <1>1, InvCorrect, PTL

(* No processor is forgotten by the factory while its process runs.        *)
THEOREM EveryProcessorIsOwnedTheorem == Spec => []EveryProcessorIsOwned
<1>1. IInv => EveryProcessorIsOwned
  BY DEF IInv, Sound, ProcessorInv, EveryProcessorIsOwned
<1> QED BY <1>1, InvCorrect, PTL

(* When a deletion ends no creation for its TraceInfo is in progress.      *)
THEOREM DeletionIsABarrierTheorem == Spec => DeletionIsABarrier
<1>1. IInv /\ [Next]_vars =>
        [deleting /\ ~deleting' => \A k \in Keys : owner[k] # lastTrace]_vars
  <2> SUFFICES ASSUME IInv, [Next]_vars, deleting, ~deleting', NEW k \in Keys
               PROVE  owner[k] # lastTrace
    OBVIOUS
  <2>1. DeletionCompletes
    <3>1. ASSUME UNCHANGED <<traceVars, deletionVars, crashes>> PROVE FALSE
      BY <3>1 DEF deletionVars
    <3>2. ~(LoadBegin \/ LoadStore \/ RegisterStoredTrace \/ UnregisterStoredTrace
            \/ RequestUnlink \/ Delete)
      BY DEF LoadBegin, LoadStore, RegisterStoredTrace, UnregisterStoredTrace,
             RequestUnlink, Delete, deletionVars
    <3>3. ~RequestDelete
      BY <3>2 DEF RequestDelete, deletionVars
    <3>4. ~\E j \in Keys : SettleCreation(j)
      BY DEF SettleCreation, CreationSucceeds, CreationFails
    <3>5. ~\E p \in Processors : Crash(p)
      BY DEF Crash, deletionVars
    <3> QED BY <3>1, <3>2, <3>3, <3>4, <3>5, QuietSteps DEF Next, DeleteIdle
  <2> QED BY <2>1 DEF DeletionCompletes, IInv, DeletionInv
<1> QED BY <1>1, InvCorrect, PTL DEF Spec, DeletionIsABarrier

-----------------------------------------------------------------------------
(* A deletion and a restart wait for creations in progress.                *)
WaitInv ==
  \A k \in Keys : k \in waits \/ restart[k] = "creating" => creating[k] # None

(* A creator, at most, makes a creation more.                              *)
LEMMA CreatorsOnlyAdd ==
  ASSUME Sound, NEW k \in Keys, CreateProcessor(k) \/ FactoryCreate(k)
                                \/ UNCHANGED creating
  PROVE  \A j \in Keys : creating[j] # None => creating'[j] # None
<1>1. CASE UNCHANGED creating
  BY <1>1
<1>2. CASE FactoryCreate(k)
  <2>1. UNCHANGED creating \/ \E p \in Of(k) : creating' = [creating EXCEPT ![k] = p]
    BY <1>2 DEF FactoryCreate, Of
  <2> QED BY <1>1, <2>1, OfKey DEF Sound, ProcessorTypes
<1>3. CASE CreateProcessor(k)
  BY <1>1, <1>2, <1>3 DEF CreateProcessor, creationVars
<1> QED BY <1>1, <1>2, <1>3

LEMMA WaitNext == IInv /\ WaitInv /\ [Next]_vars => WaitInv'
<1> SUFFICES ASSUME IInv, WaitInv, [Next]_vars PROVE WaitInv'
  OBVIOUS
<1>0. /\ Sound /\ Shared \in Keys
      /\ creating \in [Keys -> Processors \cup {None}] /\ owner \in [Keys -> Nat]
      /\ restart \in [Keys -> {"none", "scheduled", "sleeping", "waiting",
                               "creating", "created", "failed"}]
  BY ProcessorAssumption DEF IInv, TypeOK
<1>a. ASSUME waits' \subseteq waits,
             \A k \in Keys : restart'[k] = "creating" => restart[k] = "creating",
             \A k \in Keys : creating[k] # None => creating'[k] # None
      PROVE  WaitInv'
  BY <1>a DEF WaitInv
<1>b. ASSUME UNCHANGED <<waits, restart, creating>> PROVE WaitInv'
  BY <1>b, <1>a
<1>1. CASE \/ LoadBegin \/ RegisterStoredTrace \/ UnregisterStoredTrace \/ RequestUnlink
           \/ (\E p \in Processors : Crash(p)) \/ Evict \/ CleanupProcessorsForTraces
           \/ DeletionCompletes \/ UNCHANGED vars
  BY <1>1, <1>b DEF LoadBegin, RegisterStoredTrace, UnregisterStoredTrace, RequestUnlink,
     Crash, Evict, CleanupProcessorsForTraces, DeletionCompletes, vars, deletionVars,
     restartVars, creationVars
<1>2. CASE LoadStore \/ RecoverForQuery
  <2>1. UNCHANGED <<waits, restart>> /\ (CreateProcessor(Shared) \/ UNCHANGED creating)
    BY <1>2 DEF LoadStore, RecoverForQuery, deletionVars, restartVars, creationVars
  <2> QED BY <1>0, <2>1, <1>a, CreatorsOnlyAdd
<1>3. ASSUME NEW k \in Keys, EnsureProcessorForLease(k) \/ RestartLease(k) PROVE WaitInv'
  <2>1. CASE ScheduleRestart(k)
    <3>1. /\ restart' = [restart EXCEPT ![k] = "scheduled"]
          /\ UNCHANGED <<waits, creating>>
      BY <2>1 DEF ScheduleRestart, deletionVars, creationVars
    <3> QED BY <1>0, <1>a, <3>1
  <2>2. CASE UNCHANGED <<deletionVars, restartVars>> /\ CreateProcessor(k)
    <3>1. UNCHANGED <<waits, restart>>
      BY <2>2 DEF deletionVars, restartVars
    <3> QED BY <1>0, <1>a, <2>2, <3>1, CreatorsOnlyAdd
  <2> QED BY <1>3, <2>1, <2>2 DEF EnsureProcessorForLease, RestartLease
<1>4. ASSUME NEW k \in Keys, SettleCreation(k) PROVE WaitInv'
  <2>1. /\ creating' = [creating EXCEPT ![k] = None] /\ waits' = waits \ {k}
        /\ WakeRestart(k, "created") \/ WakeRestart(k, "failed")
    BY <1>4 DEF SettleCreation, CreationSucceeds, CreationFails, EndCreation
  <2>2. /\ restart'[k] # "creating"
        /\ \A j \in Keys : restart'[j] = "creating" => restart[j] = "creating"
    BY <1>0, <2>1 DEF WakeRestart
  <2> QED BY <1>0, <2>1, <2>2 DEF WaitInv
<1>5. ASSUME NEW k \in Keys, CreationRetries(k) PROVE WaitInv'
  <2>1. PICK p \in Of(k) : creating' = [creating EXCEPT ![k] = p]
    BY <1>5 DEF CreationRetries, Of
  <2>2. UNCHANGED <<waits, restart>>
    BY <1>5 DEF CreationRetries, deletionVars, restartVars
  <2> QED BY <1>0, <1>a, <2>1, <2>2, OfKey
<1>6. ASSUME NEW k \in Keys, NEW t \in waiters[k], WaiterContinues(k, t) PROVE WaitInv'
  <2>1. UNCHANGED <<waits, restart>> /\ (FactoryCreate(k) \/ UNCHANGED creating)
    BY <1>6 DEF WaiterContinues, deletionVars, restartVars
  <2> QED BY <1>0, <1>a, <2>1, CreatorsOnlyAdd
<1>7. ASSUME NEW k \in Keys, RestartStep(k) PROVE WaitInv'
  <2>0. waits' = waits
    BY <1>7, QuietSteps DEF deletionVars
  <2>1. CASE /\ UNCHANGED creating
             /\ \/ EndRestart(k) \/ NextAttempt(k) \/ Proceed(k, "sleeping")
                \/ Proceed(k, "waiting") \/ Proceed(k, "failed")
    <3>1. \E next \in {"none", "sleeping", "waiting", "failed"} :
            restart' = [restart EXCEPT ![k] = next]
      BY <2>1 DEF EndRestart, NextAttempt, Proceed
    <3> QED BY <1>0, <1>a, <2>0, <2>1, <3>1
  <2>2. ASSUME NEW p \in Of(k), creating' = [creating EXCEPT ![k] = p],
               Proceed(k, "creating")
        PROVE  WaitInv'
    BY <1>0, <2>0, <2>2, OfKey DEF WaitInv, Proceed
  <2> QED BY <1>7, <2>1, <2>2 DEF RestartStep, RestartBegins, RestartWakes, RestartCreates,
                RestartSucceeds, RestartFails, creationVars, Of
<1>8. ASSUME NEW k \in Keys, CleanupLeaseProcessor(k) PROVE WaitInv'
  BY <1>8, <1>b DEF CleanupLeaseProcessor, deletionVars, creationVars
<1>9. CASE Delete
  <2>1. waits' = {k \in Keys : owner[k] = trace} /\ trace # 0
        /\ UNCHANGED <<restart, creating>>
    BY <1>9 DEF Delete, creationVars
  <2>2. \A k \in waits' : creating[k] # None
    BY <1>0, <2>1 DEF Sound, KeyInv
  <2> QED BY <2>1, <2>2 DEF WaitInv
<1>10. CASE RequestDelete
  BY <1>9, <1>10, <1>b DEF RequestDelete, deletionVars, restartVars, creationVars
<1> QED BY <1>1, <1>2, <1>3, <1>4, <1>5, <1>6, <1>7, <1>8, <1>9, <1>10
       DEF Next, DeleteIdle

(* A deletion, a restart and the creator of another TraceInfo only wait    *)
(* while a creation is in progress.                                        *)
THEOREM NobodyWaitsInVainTheorem == Spec => []NobodyWaitsInVain
<1>1. Init => WaitInv
  BY DEF Init, WaitInv
<1>2. IInv /\ WaitInv => NobodyWaitsInVain
  BY DEF IInv, TypeOK, Sound, KeyInv, WaitInv, NobodyWaitsInVain
<1> QED BY <1>1, <1>2, WaitNext, InvCorrect, PTL DEF Spec

-----------------------------------------------------------------------------
(* A cancelled restart has nothing published, unless it is its own creation*)
(* that has succeeded, and what else is being created for its key, if      *)
(* anything, is destroyed or for another TraceInfo; all this up to the     *)
(* retry of another creator's creation.                                    *)
CancelInv(k) ==
  cancelled[k] =>
    /\ restart[k] # "none"
    /\ k \notin revived /\ restart[k] # "created" => published[k] = None
    /\ k \notin revived /\ restart[k] \notin {"creating", "created"} =>
         owner[k] # trace \/ ~StatusIs(creating[k], "starting")

(* The restart of a key goes on, if it is cancelled, as it was.            *)
StaysCancelled(j) ==
  cancelled'[j] => /\ cancelled[j] /\ restart'[j] = restart[j]
                   /\ j \in revived => j \in revived'

OwnersExist == \A k \in Keys : owner[k] <= lastTrace

CInv == OwnersExist /\ \A k \in Keys : CancelInv(k)

(* FactoryCreate only writes the entries of its key.                       *)
LEMMA FactoryCreateOther ==
  ASSUME Sound, NEW k \in Keys, NEW j \in Keys \ {k}, FactoryCreate(k)
  PROVE  /\ published'[j] = published[j] /\ creating'[j] = creating[j]
         /\ owner'[j] = owner[j]
         /\ StatusIs(creating[j], "starting")' => StatusIs(creating[j], "starting")
<1>0. creating[j] \in Of(j) \cup {None} /\ creating \in [Keys -> Processors \cup {None}]
  BY OfKey DEF Sound, ProcessorTypes
<1>1. CASE published' = [published EXCEPT ![k] = factory[k]]
           /\ UNCHANGED <<status, factory, owner, creating>>
  BY <1>1 DEF Sound, ProcessorTypes, StatusIs
<1>2. CASE status' = Destroy({factory[k]}) /\ UNCHANGED <<published, owner, creating>>
  BY <1>0, <1>2, OfKey DEF StatusIs, Destroy
<1>3. ASSUME NEW p \in Of(k),
             status' = [Destroy({factory[k]}) EXCEPT ![p] = "starting"],
             creating' = [creating EXCEPT ![k] = p],
             owner' = [owner EXCEPT ![k] = trace'],
             published' = published
      PROVE  /\ published'[j] = published[j] /\ creating'[j] = creating[j]
             /\ owner'[j] = owner[j]
             /\ StatusIs(creating[j], "starting")' => StatusIs(creating[j], "starting")
  <2>1. creating'[j] = creating[j] /\ owner'[j] = owner[j] /\ creating[j] # p
    BY <1>0, <1>3, OfKey DEF Sound, ProcessorTypes
  <2>2. creating[j] # None => status'[creating[j]] \in {"destroyed", status[creating[j]]}
    BY <1>0, <1>3, <2>1, OfKey DEF Destroy
  <2> QED BY <1>3, <2>1, <2>2 DEF StatusIs
<1> QED BY <1>1, <1>2, <1>3 DEF FactoryCreate, Of

(* A creation leaves what is cancelled alone: it joins a restart.          *)
LEMMA CreateCancel ==
  ASSUME IInv, CInv, NEW k \in Keys,
         CreateProcessor(k) \/ (restart[k] = "none" /\ FactoryCreate(k)),
         UNCHANGED restartVars, trace' = trace \/ trace' = lastTrace + 1,
         NEW j \in Keys
  PROVE  CancelInv(j)'
<1> SUFFICES ASSUME cancelled[j]
             PROVE  CancelInv(j)'
  BY DEF restartVars, CancelInv, CInv
<1>0. owner \in [Keys -> Nat] /\ lastTrace \in Nat /\ owner[j] <= lastTrace
  BY DEF IInv, TypeOK, CInv, OwnersExist
<1>1. restart[j] # "none" /\ CancelInv(j)
  BY DEF CInv, CancelInv
<1>2. /\ published'[j] = published[j] /\ creating'[j] = creating[j]
      /\ owner'[j] = owner[j]
      /\ StatusIs(creating[j], "starting")' => StatusIs(creating[j], "starting")
  <2>1. CASE UNCHANGED <<processorVars, owner, creating>>
    BY <2>1 DEF processorVars, StatusIs
  <2>2. CASE restart[k] = "none" /\ FactoryCreate(k)
    BY <1>1, <2>2, FactoryCreateOther DEF IInv
  <2> QED BY <2>1, <2>2 DEF CreateProcessor, creationVars
<1>3. owner[j] # trace => owner[j] # trace'
  BY <1>0
<1> QED BY <1>1, <1>2, <1>3 DEF CancelInv, restartVars

(* Where a restart, a creation and the TraceInfo of a key stay as they are.*)
LEMMA QuietCancel ==
  ASSUME IInv, CInv, NEW j \in Keys,
         StaysCancelled(j),
         published'[j] \in {published[j], None},
         owner'[j] = owner[j],
         StatusIs(creating[j], "starting")' => StatusIs(creating[j], "starting"),
         trace' \in {trace, lastTrace + 1}
  PROVE  CancelInv(j)'
<1>0. owner \in [Keys -> Nat] /\ lastTrace \in Nat /\ owner[j] <= lastTrace
  BY DEF IInv, TypeOK, CInv, OwnersExist
<1>1. owner[j] # trace => owner[j] # trace'
  BY <1>0
<1> QED BY <1>1 DEF CInv, CancelInv, StaysCancelled

(* Destroying processors makes none of them start.                         *)
LEMMA DestroyStartsNothing ==
  ASSUME Sound, NEW ps, status' = Destroy(ps), NEW j \in Keys,
         creating'[j] \in {creating[j], None}
  PROVE  StatusIs(creating[j], "starting")' => StatusIs(creating[j], "starting")
BY OfKey DEF Sound, ProcessorTypes, Destroy, StatusIs

LEMMA CancelNext == IInv /\ CInv /\ [Next]_vars => \A j \in Keys : CancelInv(j)'
<1> SUFFICES ASSUME IInv, CInv, [Next]_vars, NEW j \in Keys PROVE CancelInv(j)'
  OBVIOUS
<1>0. /\ Sound /\ trace \in 0..lastTrace /\ lastTrace \in Nat /\ Shared \in Keys
      /\ owner \in [Keys -> Nat] /\ RestartTypes
      /\ published \in [Keys -> Processors \cup {None}]
      /\ CancelInv(j)
  BY ProcessorAssumption DEF IInv, TypeOK, CInv, RestartTypes
<1>a. ASSUME UNCHANGED <<processorVars, creationVars, restartVars>>,
             trace' \in {trace, lastTrace + 1}
      PROVE  CancelInv(j)'
  BY <1>0, <1>a, QuietCancel
  DEF processorVars, creationVars, restartVars, StatusIs, StaysCancelled
<1>b. ASSUME NEW ps, status' = Destroy(ps), published'[j] \in {published[j], None},
             UNCHANGED <<trace, creationVars, restartVars>>
      PROVE  CancelInv(j)'
  <2>1. StatusIs(creating[j], "starting")' => StatusIs(creating[j], "starting")
    BY <1>0, <1>b, DestroyStartsNothing DEF creationVars
  <2> QED BY <1>0, <1>b, <2>1, QuietCancel DEF creationVars, restartVars, StaysCancelled
<1>1. CASE LoadBegin \/ RegisterStoredTrace \/ RequestUnlink \/ UNCHANGED vars
  <2>1. UNCHANGED <<processorVars, creationVars, restartVars>>
        /\ trace' \in {trace, lastTrace + 1}
    BY <1>1 DEF LoadBegin, RegisterStoredTrace, RequestUnlink, vars, NewTrace, traceVars
  <2> QED BY <2>1, <1>a
<1>2. CASE LoadStore
  <2>1. CASE deleting
    BY <1>2, <2>1, <1>a DEF LoadStore
  <2>2. CASE NewTrace /\ CreateProcessor(Shared) /\ UNCHANGED restartVars
    BY <1>0, <2>2, CreateCancel DEF NewTrace
  <2> QED BY <1>2, <2>1, <2>2 DEF LoadStore
<1>3. CASE UnregisterStoredTrace
  <2>1. /\ trace' = 0 /\ published[j] = None
        /\ UNCHANGED <<processorVars, creationVars, restartVars>>
    BY <1>3 DEF UnregisterStoredTrace
  <2>2. (owner[j] # trace \/ ~StatusIs(creating[j], "starting"))'
    BY <1>0, <2>1 DEF Sound, KeyInv, StatusIs, creationVars
  <2> QED BY <1>0, <2>1, <2>2 DEF CancelInv, processorVars, restartVars
<1>4. CASE RecoverForQuery
  <2>1. CreateProcessor(Shared) /\ UNCHANGED <<trace, restartVars>>
    BY <1>4 DEF RecoverForQuery, traceVars
  <2> QED BY <1>0, <2>1, CreateCancel
<1>5. ASSUME NEW k \in Keys, EnsureProcessorForLease(k) \/ RestartLease(k)
      PROVE  CancelInv(j)'
  <2>1. CASE ScheduleRestart(k)
    <3>1. /\ UNCHANGED <<cancelled, revived>>
          /\ restart[j] = "none" \/ restart'[j] = restart[j]
          /\ UNCHANGED <<processorVars, creationVars, trace>>
      BY <1>0, <2>1 DEF ScheduleRestart, RestartTypes, traceVars
    <3>2. StaysCancelled(j)
      BY <1>0, <3>1 DEF CancelInv, StaysCancelled
    <3> QED BY <1>0, <3>1, <3>2, QuietCancel DEF processorVars, creationVars, StatusIs
  <2>2. CASE CreateProcessor(k) /\ UNCHANGED <<traceVars, restartVars>>
    BY <1>0, <2>2, CreateCancel DEF traceVars
  <2> QED BY <1>5, <2>1, <2>2 DEF EnsureProcessorForLease, RestartLease
<1>6. ASSUME NEW k \in Keys, CreationSucceeds(k) PROVE CancelInv(j)'
  <2>1. /\ creating' = [creating EXCEPT ![k] = None]
        /\ UNCHANGED <<trace, cancelled, revived>>
        /\ StatusIs(creating[k], "starting")
    BY <1>6 DEF CreationSucceeds, EndCreation, traceVars
  <2>2. CASE k = j
    <3>1. ~StatusIs(creating[j], "starting")'
      BY <1>0, <2>1, <2>2 DEF StatusIs, Sound, ProcessorTypes
    <3>2. CASE owner[k] = trace
      <4>1. cancelled[j] /\ j \notin revived => restart[j] \in {"creating", "created"}
        BY <1>0, <2>1, <2>2, <3>2 DEF CancelInv
      <4>2. WakeRestart(k, "created")
        BY <1>6, <3>2 DEF CreationSucceeds
      <4>3. cancelled[j] /\ j \notin revived => restart'[j] = "created"
        BY <1>0, <2>2, <4>1, <4>2 DEF WakeRestart, RestartTypes
      <4>4. cancelled[j] => restart'[j] # "none"
        BY <1>0, <2>2, <4>2 DEF CancelInv, WakeRestart, RestartTypes
      <4> QED BY <2>1, <4>3, <4>4 DEF CancelInv
    <3>3. CASE owner[k] # trace
      <4>1. published' = published /\ WakeRestart(k, "failed")
        BY <1>6, <3>3 DEF CreationSucceeds
      <4>2. restart'[j] \in {restart[j], "failed"}
            /\ (restart[j] = "created" => restart'[j] = "created")
        BY <1>0, <2>2, <4>1 DEF WakeRestart, RestartTypes
      <4> QED BY <1>0, <2>1, <3>1, <4>1, <4>2 DEF CancelInv
    <3> QED BY <3>2, <3>3
  <2>3. CASE k # j
    <3>1. /\ published'[j] = published[j] /\ owner'[j] = owner[j] /\ creating'[j] = creating[j]
          /\ restart'[j] = restart[j]
      BY <1>0, <1>6, <2>3 DEF CreationSucceeds, EndCreation, Sound, ProcessorTypes,
                                WakeRestart, RestartTypes
    <3>2. creating[j] \in Of(j) \cup {None}
      BY <1>0, OfKey DEF Sound, ProcessorTypes
    <3>3. \A p \in Processors : status'[p] = "starting" => status[p] = "starting"
      BY <1>0, <1>6 DEF CreationSucceeds, Destroy, Sound, ProcessorTypes
    <3>4. StatusIs(creating[j], "starting")' => StatusIs(creating[j], "starting")
      BY <3>1, <3>2, <3>3, OfKey DEF StatusIs
    <3> QED BY <1>0, <2>1, <3>1, <3>4 DEF CancelInv
  <2> QED BY <2>2, <2>3
<1>7. ASSUME NEW k \in Keys, CreationFails(k) PROVE CancelInv(j)'
  <2>1. /\ creating' = [creating EXCEPT ![k] = None]
        /\ owner' = [owner EXCEPT ![k] = 0]
        /\ status' = Destroy({creating[k]})
        /\ UNCHANGED <<trace, cancelled, revived, published>>
        /\ WakeRestart(k, "failed")
    BY <1>7 DEF CreationFails, EndCreation, traceVars
  <2>2. CASE k = j
    <3>1. ~StatusIs(creating[j], "starting")'
      BY <1>0, <2>1, <2>2 DEF StatusIs, Sound, ProcessorTypes
    <3>2. restart'[j] \in {restart[j], "failed"}
          /\ (restart[j] = "created" => restart'[j] = "created")
      BY <1>0, <2>1, <2>2 DEF WakeRestart, RestartTypes
    <3> QED BY <1>0, <2>1, <3>1, <3>2 DEF CancelInv
  <2>3. CASE k # j
    <3>1. /\ restart'[j] = restart[j] /\ owner'[j] = owner[j] /\ creating'[j] = creating[j]
      BY <1>0, <2>1, <2>3 DEF WakeRestart, RestartTypes, Sound, ProcessorTypes
    <3>2. StatusIs(creating[j], "starting")' => StatusIs(creating[j], "starting")
      BY <1>0, <2>1, <3>1, DestroyStartsNothing
    <3> QED BY <1>0, <2>1, <3>1, <3>2 DEF CancelInv
  <2> QED BY <2>2, <2>3
<1>8. ASSUME NEW k \in Keys, CreationRetries(k) PROVE CancelInv(j)'
  <2>0. PICK p \in Of(k) :
           /\ status' = [Destroy({creating[k]}) EXCEPT ![p] = "starting"]
           /\ creating' = [creating EXCEPT ![k] = p]
    BY <1>8 DEF CreationRetries, Of
  <2>1. /\ creating[k] # None
        /\ revived' = IF /\ status[creating[k]] # "starting"
                         /\ cancelled[k] /\ restart[k] # "creating"
                      THEN revived \cup {k} ELSE revived
        /\ UNCHANGED <<trace, published, owner, cancelled, restart>>
    BY <1>8 DEF CreationRetries, traceVars
  <2>2. CASE k = j
    BY <1>0, <2>1, <2>2 DEF CancelInv, StatusIs
  <2>3. CASE k # j
    <3>1. creating'[j] = creating[j] /\ creating[j] \in Of(j) \cup {None} /\ creating[j] # p
      BY <1>0, <2>0, <2>3, OfKey DEF Sound, ProcessorTypes
    <3>2. creating[j] # None => status'[creating[j]] \in {"destroyed", status[creating[j]]}
      BY <2>0, <3>1, OfKey DEF Destroy
    <3>3. j \in revived => j \in revived'
      BY <2>1
    <3> QED BY <1>0, <2>1, <3>1, <3>2, <3>3 DEF CancelInv, StatusIs
  <2> QED BY <2>2, <2>3
<1>9. ASSUME NEW k \in Keys, NEW t \in waiters[k], WaiterContinues(k, t)
      PROVE  CancelInv(j)'
  <2>1. UNCHANGED <<trace, restartVars>>
    BY <1>9 DEF WaiterContinues, traceVars
  <2>2. CASE restart[k] = "none" /\ FactoryCreate(k)
    BY <1>0, <2>1, <2>2, CreateCancel
  <2>3. CASE UNCHANGED <<processorVars, owner, creating>>
    BY <1>0, <2>1, <2>3, QuietCancel
       DEF processorVars, restartVars, StatusIs, StaysCancelled
  <2> QED BY <1>9, <2>2, <2>3 DEF WaiterContinues
<1>10. ASSUME NEW k \in Keys, RestartStep(k) PROVE CancelInv(j)'
  <2>0. trace' = trace
    BY <1>10 DEF RestartStep, RestartBegins, RestartWakes, RestartCreates, RestartSucceeds,
                 RestartFails, traceVars
  <2>1. StaysCancelled(j) /\ (cancelled[k] => ~cancelled'[k])
    <3>1. CASE EndRestart(k)
      BY <1>0, <3>1 DEF EndRestart, RestartTypes, StaysCancelled
    <3>2. CASE ~cancelled[k] /\ ~EndRestart(k)
      <4>1. NextAttempt(k) \/ Proceed(k, "sleeping") \/ Proceed(k, "waiting")
            \/ Proceed(k, "creating") \/ Proceed(k, "failed")
        BY <1>10, <3>2 DEF RestartStep, RestartBegins, RestartWakes, RestartCreates,
                             RestartSucceeds, RestartFails
      <4>2. /\ cancelled' = cancelled /\ revived' = revived
            /\ j # k => restart'[j] = restart[j]
        BY <1>0, <3>2, <4>1 DEF NextAttempt, Proceed, RestartTypes
      <4> QED BY <3>2, <4>2 DEF StaysCancelled
    <3>3. CASE cancelled[k] /\ ~EndRestart(k)
      BY <1>10, <3>3 DEF RestartStep, RestartBegins, RestartWakes, RestartCreates,
                           RestartSucceeds, RestartFails
    <3> QED BY <3>1, <3>2, <3>3
  <2>2. CASE UNCHANGED <<processorVars, owner, creating>>
    BY <1>0, <2>0, <2>1, <2>2, QuietCancel DEF processorVars, StatusIs
  <2>3. CASE RestartSucceeds(k) /\ DestroyProcessor(k)
    <3>1. StatusIs(creating[j], "starting")' => StatusIs(creating[j], "starting")
      BY <1>0, <2>3, DestroyStartsNothing DEF RestartSucceeds, DestroyProcessor, creationVars
    <3>2. published'[j] \in {published[j], None} /\ owner' = owner
      BY <1>0, <2>3 DEF RestartSucceeds, DestroyProcessor, creationVars
    <3> QED BY <1>0, <2>0, <2>1, <3>1, <3>2, QuietCancel
  <2>4. CASE RestartCreates(k) /\ ~cancelled[k] /\ ~UNCHANGED <<processorVars, owner, creating>>
    <3>1. CASE k = j
      BY <2>1, <2>4, <3>1 DEF CancelInv, StaysCancelled
    <3>2. CASE k # j
      <4>1. published'[j] = published[j]
        BY <1>0, <2>4, <3>2 DEF RestartCreates
      <4>2. CASE status' = Destroy(ForRestart(k)) /\ UNCHANGED <<owner, creating>>
        BY <1>0, <2>0, <2>1, <4>1, <4>2, DestroyStartsNothing, QuietCancel
      <4>3. ASSUME NEW p \in Of(k),
                   status' = [Destroy(ForRestart(k)) EXCEPT ![p] = "starting"],
                   creating' = [creating EXCEPT ![k] = p],
                   owner' = [owner EXCEPT ![k] = trace]
            PROVE  CancelInv(j)'
        <5>1. /\ creating'[j] = creating[j] /\ owner'[j] = owner[j]
              /\ creating[j] \in Of(j) \cup {None} /\ creating[j] # p
          BY <1>0, <3>2, <4>3, OfKey DEF Sound, ProcessorTypes
        <5>2. creating[j] # None => status'[creating[j]] \in {"destroyed", status[creating[j]]}
          BY <4>3, <5>1, OfKey DEF Destroy
        <5>3. StatusIs(creating[j], "starting")' => StatusIs(creating[j], "starting")
          BY <5>1, <5>2 DEF StatusIs
        <5> QED BY <1>0, <2>0, <2>1, <4>1, <5>1, <5>3, QuietCancel
      <4> QED BY <2>4, <4>2, <4>3 DEF RestartCreates, Of
    <3> QED BY <3>1, <3>2
  <2>5. CASE RestartBegins(k) \/ RestartWakes(k) \/ RestartFails(k)
    BY <2>2, <2>5 DEF RestartBegins, RestartWakes, RestartFails, creationVars
  <2>6. CASE RestartCreates(k)
    <3>1. UNCHANGED <<processorVars, owner, creating>> \/ ~cancelled[k]
      BY <2>6 DEF RestartCreates
    <3> QED BY <2>2, <2>4, <2>6, <3>1
  <2>7. CASE RestartSucceeds(k)
    BY <2>2, <2>3, <2>7 DEF RestartSucceeds, creationVars
  <2> QED BY <1>10, <2>5, <2>6, <2>7 DEF RestartStep
<1>11. ASSUME NEW k \in Keys, CleanupLeaseProcessor(k) PROVE CancelInv(j)'
  <2>1. /\ UNCHANGED <<trace, creationVars, restart>>
        /\ status' = Destroy(ForRestart(k)) /\ published' = [published EXCEPT ![k] = None]
        /\ cancelled' = [i \in Keys |-> cancelled[i] \/ (i \in {k} /\ restart[i] # "none")]
        /\ revived' = revived \ {k}
    BY <1>11 DEF CleanupLeaseProcessor, DestroyProcessor, CancelRestarts, traceVars
  <2>2. StatusIs(creating[j], "starting")' => StatusIs(creating[j], "starting")
    BY <1>0, <2>1, DestroyStartsNothing DEF creationVars
  <2>3. CASE k = j
    <3>1. creating[j] \in Of(j) \cup {None} /\ creating'[j] = creating[j]
      BY <1>0, <2>1, OfKey DEF Sound, ProcessorTypes, creationVars
    <3>2. StatusIs(creating[j], "starting") => creating[j] \in ForRestart(k)
      BY <1>0, <2>3, <3>1, OfKey DEF StatusIs, Sound, ProcessorInv, ForRestart
    <3>3. ~StatusIs(creating[j], "starting")'
      BY <2>1, <2>2, <3>1, <3>2, OfKey DEF StatusIs, Destroy
    <3>4. published'[j] = None
      BY <1>0, <2>1, <2>3
    <3>5. cancelled'[j] => restart'[j] # "none"
      <4>1. cancelled'[j] = (cancelled[j] \/ (j \in {k} /\ restart[j] # "none"))
        BY <2>1
      <4> QED BY <1>0, <2>1, <4>1, Zenon DEF CancelInv
    <3> QED BY <3>3, <3>4, <3>5 DEF CancelInv
  <2>4. CASE k # j
    <3>1. cancelled'[j] = (cancelled[j] \/ (j \in {k} /\ restart[j] # "none"))
      BY <2>1
    <3>2. StaysCancelled(j)
      BY <2>1, <2>4, <3>1 DEF StaysCancelled
    <3>3. published'[j] = published[j] /\ owner' = owner
      BY <1>0, <2>1, <2>4 DEF creationVars
    <3> QED BY <1>0, <2>1, <2>2, <3>2, <3>3, QuietCancel
  <2> QED BY <2>3, <2>4
<1>12. ASSUME NEW p \in Processors, Crash(p) PROVE CancelInv(j)'
  <2>1. /\ UNCHANGED <<trace, published, creationVars, restartVars>>
        /\ status' = [status EXCEPT ![p] = "error"]
    BY <1>12 DEF Crash, traceVars
  <2>2. creating'[j] = creating[j] /\ (creating[j] # None => creating[j] \in Processors)
    BY <1>0, <2>1 DEF creationVars, Sound, ProcessorTypes
  <2>3. StatusIs(creating[j], "starting")' => StatusIs(creating[j], "starting")
    BY <1>0, <2>1, <2>2 DEF StatusIs, Sound, ProcessorTypes
  <2> QED BY <1>0, <2>1, <2>3, QuietCancel DEF creationVars, restartVars, StaysCancelled
<1>13. CASE Evict
  <2>1. /\ status' = Destroy({factory[Shared]})
        /\ UNCHANGED <<trace, published, creationVars, restartVars>>
    BY <1>13 DEF Evict, traceVars
  <2> QED BY <2>1, <1>b
<1>14. CASE CleanupProcessorsForTraces
  <2>1. /\ status' = Destroy(UNION {ForRestart(k) : k \in {i \in Keys : published[i] # None}})
        /\ published'[j] = None
        /\ UNCHANGED <<trace, creationVars, restartVars>>
    BY <1>14 DEF CleanupProcessorsForTraces, traceVars
  <2> QED BY <2>1, <1>b
<1>15. CASE Delete
  <2> DEFINE ks == {Shared} \cup {k \in Keys : owner[k] = trace \/ published[k] # None
                                               \/ restart[k] # "none"}
  <2>1. /\ trace' = 0 /\ Discard(ks) /\ UNCHANGED <<creationVars, restart>>
        /\ CancelRestarts(ks)
    BY <1>15 DEF Delete
  <2>2. published[j] # None => j \in ks
    OBVIOUS
  <2> HIDE DEF ks
  <2>3. published'[j] = None
    BY <1>0, <2>1, <2>2 DEF Discard
  <2>4. (owner[j] # trace \/ ~StatusIs(creating[j], "starting"))'
    BY <1>0, <2>1 DEF Sound, KeyInv, StatusIs, creationVars
  <2>5. cancelled'[j] => restart'[j] # "none"
    <3>1. cancelled'[j] = (cancelled[j] \/ (j \in ks /\ restart[j] # "none"))
      BY <2>1, Zenon DEF CancelRestarts
    <3> QED BY <1>0, <2>1, <3>1, Zenon DEF CancelInv
  <2> QED BY <2>3, <2>4, <2>5 DEF CancelInv
<1>16. CASE DeletionCompletes
  <2>1. /\ trace' \in {trace, lastTrace + 1}
        /\ status' = Destroy({Discarded(k) : k \in {i \in Keys : published[i] # None}})
        /\ published'[j] \in {published[j], None}
        /\ UNCHANGED <<creationVars, restartVars>>
    BY <1>16 DEF DeletionCompletes, NewTrace, Discard
  <2>2. StatusIs(creating[j], "starting")' => StatusIs(creating[j], "starting")
    BY <1>0, <2>1, DestroyStartsNothing DEF creationVars
  <2> QED BY <1>0, <2>1, <2>2, QuietCancel DEF creationVars, restartVars, StaysCancelled
<1>17. CASE RequestDelete
  <2>1. CASE Delete
    BY <1>15, <2>1
  <2>2. CASE UNCHANGED <<trace, processorVars, creationVars, restartVars>>
    BY <2>2, <1>a
  <2> QED BY <1>17, <2>1, <2>2 DEF RequestDelete
<1> QED BY <1>1, <1>2, <1>3, <1>4, <1>5, <1>6, <1>7, <1>8, <1>9, <1>10, <1>11, <1>12,
           <1>13, <1>14, <1>15, <1>16, <1>17 DEF Next, DeleteIdle, SettleCreation

LEMMA OwnersNext == IInv /\ CInv /\ [Next]_vars => OwnersExist'
<1> SUFFICES ASSUME IInv, CInv, [Next]_vars, NEW j \in Keys
             PROVE  owner'[j] <= lastTrace'
  BY DEF OwnersExist
<1>0. /\ owner \in [Keys -> Nat] /\ owner[j] <= lastTrace /\ lastTrace \in Nat
      /\ trace \in 0..lastTrace /\ Shared \in Keys
  BY ProcessorAssumption DEF IInv, TypeOK, CInv, OwnersExist
<1>a. ASSUME NEW k \in Keys, FactoryCreate(k) \/ CreateProcessor(k)
      PROVE  owner'[j] \in {owner[j], trace'}
  <2>1. owner' = owner \/ owner' = [owner EXCEPT ![k] = trace']
    BY <1>a DEF FactoryCreate, CreateProcessor, creationVars
  <2> QED BY <1>0, <2>1
<1>1. CASE owner' = owner /\ lastTrace' \in {lastTrace, lastTrace + 1}
  BY <1>0, <1>1
<1>2. CASE LoadBegin \/ RegisterStoredTrace \/ UnregisterStoredTrace \/ Delete
           \/ DeletionCompletes \/ RequestUnlink \/ Evict \/ CleanupProcessorsForTraces
           \/ UNCHANGED vars \/ \E p \in Processors : Crash(p)
  <2>1. owner' = owner /\ lastTrace' \in {lastTrace, lastTrace + 1}
    BY <1>2 DEF LoadBegin, RegisterStoredTrace, UnregisterStoredTrace, Delete,
       DeletionCompletes, RequestUnlink, Evict, CleanupProcessorsForTraces, Crash,
       NewTrace, vars, traceVars, creationVars
  <2> QED BY <1>1, <2>1
<1>3. CASE LoadStore
  <2>1. CASE NewTrace /\ CreateProcessor(Shared)
    <3>1. trace' = lastTrace + 1 /\ lastTrace' = lastTrace + 1
      BY <2>1 DEF NewTrace
    <3> QED BY <1>0, <1>a, <2>1, <3>1
  <2>2. CASE UNCHANGED <<lastTrace, creationVars>>
    BY <1>1, <2>2 DEF creationVars
  <2> QED BY <1>3, <2>1, <2>2 DEF LoadStore
<1>4. CASE RecoverForQuery
  <2>1. CreateProcessor(Shared) /\ UNCHANGED <<trace, lastTrace>>
    BY <1>4 DEF RecoverForQuery, traceVars
  <2> QED BY <1>0, <1>a, <2>1
<1>5. ASSUME NEW k \in Keys, EnsureProcessorForLease(k) \/ RestartLease(k)
      PROVE  owner'[j] <= lastTrace'
  <2>1. UNCHANGED <<trace, lastTrace>> /\ (owner' = owner \/ CreateProcessor(k))
    BY <1>5 DEF EnsureProcessorForLease, RestartLease, ScheduleRestart, creationVars,
       traceVars
  <2> QED BY <1>0, <1>a, <2>1
<1>6. ASSUME NEW k \in Keys, SettleCreation(k) PROVE owner'[j] <= lastTrace'
  <2>1. owner' = [owner EXCEPT ![k] = 0] /\ lastTrace' = lastTrace
    BY <1>6 DEF SettleCreation, CreationSucceeds, CreationFails, EndCreation, traceVars
  <2> QED BY <1>0, <2>1
<1>7. ASSUME NEW k \in Keys, CreationRetries(k) \/ CleanupLeaseProcessor(k)
      PROVE  owner'[j] <= lastTrace'
  BY <1>1, <1>7 DEF CreationRetries, CleanupLeaseProcessor, traceVars, creationVars
<1>8. ASSUME NEW k \in Keys, NEW t \in waiters[k], WaiterContinues(k, t)
      PROVE  owner'[j] <= lastTrace'
  <2>1. UNCHANGED <<trace, lastTrace>> /\ (owner' = owner \/ FactoryCreate(k))
    BY <1>8 DEF WaiterContinues, traceVars
  <2> QED BY <1>0, <1>a, <2>1
<1>9. ASSUME NEW k \in Keys, RestartStep(k) PROVE owner'[j] <= lastTrace'
  <2>1. lastTrace' = lastTrace /\ (owner' = owner \/ owner' = [owner EXCEPT ![k] = trace])
    BY <1>9 DEF RestartStep, RestartBegins, RestartWakes, RestartCreates, RestartSucceeds,
                RestartFails, traceVars, creationVars
  <2> QED BY <1>0, <2>1
<1>10. CASE RequestDelete
  BY <1>1, <1>2, <1>10 DEF RequestDelete, creationVars
<1> QED BY <1>2, <1>3, <1>4, <1>5, <1>6, <1>7, <1>8, <1>9, <1>10 DEF Next, DeleteIdle

(* Only its supervisor ends a restart.                                     *)
LEMMA EndsInItsSupervisor ==
  ASSUME IInv, [Next]_vars, NEW k \in Keys, restart[k] # "none", restart'[k] = "none"
  PROVE  RestartStep(k)
<1>0. restart \in [Keys -> {"none", "scheduled", "sleeping", "waiting",
                            "creating", "created", "failed"}]
  BY DEF IInv, TypeOK
<1>1. ~(\/ LoadBegin \/ LoadStore \/ RegisterStoredTrace \/ UnregisterStoredTrace
        \/ RecoverForQuery \/ Evict \/ CleanupProcessorsForTraces \/ Delete
        \/ DeletionCompletes \/ RequestUnlink \/ UNCHANGED vars
        \/ \E p \in Processors : Crash(p))
  BY DEF LoadBegin, LoadStore, RegisterStoredTrace, UnregisterStoredTrace, RecoverForQuery,
     Evict, CleanupProcessorsForTraces, Delete, DeletionCompletes, RequestUnlink, vars,
     Crash, restartVars
<1>2. ~RequestDelete
  BY <1>1 DEF RequestDelete, restartVars
<1>3. ASSUME NEW j \in Keys, \/ EnsureProcessorForLease(j) \/ RestartLease(j)
                             \/ CreationRetries(j) \/ CleanupLeaseProcessor(j)
                             \/ \E t \in waiters[j] : WaiterContinues(j, t)
      PROVE  FALSE
  <2>1. restart' = restart \/ restart' = [restart EXCEPT ![j] = "scheduled"]
    BY <1>3 DEF EnsureProcessorForLease, RestartLease, ScheduleRestart, CreationRetries,
       CleanupLeaseProcessor, WaiterContinues, restartVars
  <2> QED BY <1>0, <2>1
<1>4. ASSUME NEW j \in Keys, SettleCreation(j) PROVE FALSE
  <2>1. WakeRestart(j, "created") \/ WakeRestart(j, "failed")
    BY <1>4 DEF SettleCreation, CreationSucceeds, CreationFails
  <2> QED BY <1>0, <2>1 DEF WakeRestart
<1>5. ASSUME NEW j \in Keys, RestartStep(j) PROVE j = k
  <2>1. \/ EndRestart(j) \/ NextAttempt(j) \/ Proceed(j, "sleeping")
        \/ Proceed(j, "waiting") \/ Proceed(j, "creating") \/ Proceed(j, "failed")
    BY <1>5 DEF RestartStep, RestartBegins, RestartWakes, RestartCreates,
                 RestartSucceeds, RestartFails
  <2> QED BY <1>0, <2>1 DEF EndRestart, NextAttempt, Proceed
<1> QED BY <1>1, <1>2, <1>3, <1>4, <1>5 DEF Next, DeleteIdle

(* A cancelled restart ends with nothing published or ready for its key,   *)
(* unless a creation that is not its own was destroyed and tried again.    *)
THEOREM CancelledRestartTheorem == Spec => CancelledRestartLeavesNothing
<1>1. Init => CInv
  BY DEF Init, CInv, OwnersExist, CancelInv
<1>2. IInv /\ CInv /\ [Next]_vars => CInv'
  BY CancelNext, OwnersNext DEF CInv
<1>3. IInv /\ IInv' /\ CInv /\ [Next]_vars =>
        [\A k \in Keys \ revived :
           cancelled[k] /\ restart[k] # "none" /\ restart'[k] = "none" =>
             (published[k] = None /\ ~StatusIs(factory[k], "ready"))']_vars
  <2> SUFFICES ASSUME IInv, IInv', CInv, [Next]_vars, NEW k \in Keys \ revived,
                      cancelled[k], restart[k] # "none", restart'[k] = "none"
               PROVE  (published[k] = None /\ ~StatusIs(factory[k], "ready"))'
    OBVIOUS
  <2>1. RestartStep(k)
    BY EndsInItsSupervisor
  <2>2. restart[k] # "created" => published'[k] \in {published[k], None}
    BY <2>1 DEF RestartStep, RestartBegins, RestartWakes, RestartCreates, RestartSucceeds,
                RestartFails, DestroyProcessor, processorVars, IInv, TypeOK
  <2>3. restart[k] # "created" => published'[k] = None
    BY <2>2 DEF CInv, CancelInv
  <2>4. restart[k] = "created" => published'[k] = None
    <3>1. restart[k] = "created" => DestroyProcessor(k)
      BY <2>1 DEF RestartStep, RestartBegins, RestartWakes, RestartCreates,
                        RestartSucceeds, RestartFails
    <3> QED BY <3>1 DEF DestroyProcessor, IInv, TypeOK
  <2>5. published'[k] = None
    BY <2>3, <2>4
  <2> QED BY <2>5, OfKey DEF IInv, Sound, ProcessorTypes, ProcessorInv, StatusIs
<1>4. Spec => []CInv
  BY <1>1, <1>2, InvCorrect, PTL DEF Spec
<1> QED BY <1>3, <1>4, InvCorrect, PTL DEF Spec, CancelledRestartLeavesNothing
=============================================================================
