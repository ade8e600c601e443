------------------------ MODULE ToolConcurrencyProofs ------------------------
(***************************************************************************)
(* Proofs about ToolConcurrency for any finite set of calls and any cap.   *)
(* The counters, the queue and the calls' statuses agree (Books) before    *)
(* every drain and after it; what drain() leaves is also work conserving.  *)
(* Each action changes the books in one place and then drains.             *)
(***************************************************************************)
EXTENDS ToolConcurrency, SequenceTheorems, DataLemmas

(* drain() starts a prefix of the queue, nothing if a writer runs, and     *)
(* stops at a call that may not start or at the end.                       *)
LEMMA AdmittedPrefix ==
  ASSUME NEW q \in Seq(Calls), NEW reads \in Nat, NEW writer \in BOOLEAN
  PROVE  /\ Admitted(q, reads, writer) \in 0..Len(q)
         /\ \A i \in 1..Admitted(q, reads, writer) : MayStart(q, i, reads)
         /\ writer => Admitted(q, reads, writer) = 0
         /\ ~writer /\ Admitted(q, reads, writer) < Len(q) =>
              ~MayStart(q, Admitted(q, reads, writer) + 1, reads)
<1> DEFINE A == Admitted(q, reads, writer)
<1>0. CASE writer
  <2>1. A = 0
    BY <1>0 DEF Admitted
  <2> HIDE DEF A
  <2>2. A \in 0..Len(q) /\ \A i \in 1..A : MayStart(q, i, reads)
    BY <2>1, LenProperties
  <2> QED BY <1>0, <2>1, <2>2 DEF A
<1> DEFINE Stops == {n \in 0..Len(q) : n < Len(q) => ~MayStart(q, n + 1, reads)}
<1>1. Len(q) \in Nat /\ Len(q) \in Stops /\ Stops \subseteq Nat
  BY LenProperties
<1>2. PICK n \in Stops : \A i \in Stops : n <= i
  <2>1. Stops \in SUBSET Nat /\ Stops # {}
    BY <1>1
  <2> HIDE DEF Stops
  <2> QED BY <2>1, LeastOf
<1>3. \A i \in 1..n : MayStart(q, i, reads)
  <2> SUFFICES ASSUME NEW i \in 1..n, ~MayStart(q, i, reads) PROVE FALSE
    OBVIOUS
  <2>1. i - 1 \in 0..Len(q) /\ (i - 1) + 1 = i /\ i - 1 < n
    BY <1>1, <1>2
  <2>2. i - 1 \in Stops
    BY <2>1
  <2>3. n <= i - 1
    BY <1>2, <2>2
  <2> QED BY <1>1, <1>2, <2>1, <2>3
<1>4. \E k \in 0..Len(q) :
        /\ \A i \in 1..k : MayStart(q, i, reads)
        /\ k < Len(q) => ~MayStart(q, k + 1, reads)
  BY <1>2, <1>3
<1>5. CASE ~writer
  <2>1. /\ A \in 0..Len(q)
        /\ \A i \in 1..A : MayStart(q, i, reads)
        /\ A < Len(q) => ~MayStart(q, A + 1, reads)
    BY <1>4, <1>5 DEF Admitted
  <2> QED BY <1>5, <2>1
<1> QED BY <1>0, <1>5

-----------------------------------------------------------------------------
(* The queue q, the counters and the statuses st agree; at most one writer *)
(* has a slot, alone, and the reads keep to the cap.                       *)
QueueAgrees(q, st) ==
  /\ \A c \in Calls : st[c] = "queued" <=> \E i \in 1..Len(q) : q[i] = c
  /\ \A i, j \in 1..Len(q) : q[i] = q[j] => i = j

HeldBy(C, st) == {c \in C : st[c] \in Holding}

Books(q, reads, writer, st) ==
  /\ QueueAgrees(q, st)
  /\ reads = Cardinality(HeldBy(Reads, st)) /\ reads <= ReadCap
  /\ writer = (HeldBy(Writers, st) # {})
  /\ \A w \in HeldBy(Writers, st) : HeldBy(Calls, st) = {w}

(* Every part of the set of calls is finite.                               *)
LEMMA PartsFinite ==
  ASSUME NEW st
  PROVE  /\ IsFiniteSet(HeldBy(Reads, st))
         /\ Cardinality(HeldBy(Reads, st)) \in Nat
         /\ Cardinality(HeldBy(Reads, st)) = 0 <=> HeldBy(Reads, st) = {}
<1>1. HeldBy(Reads, st) \subseteq Calls
  BY DEF HeldBy, Calls
<1>2. IsFiniteSet(HeldBy(Reads, st))
  BY <1>1, CallAssumption, FS_Subset
<1> QED BY <1>2, FS_CardinalityType, FS_EmptySet

(* drain() keeps the books, and leaves no call waiting that could start.   *)
LEMMA DrainKeepsBooks ==
  ASSUME NEW q \in Seq(Calls), NEW reads \in Nat, NEW writer \in BOOLEAN,
         NEW st \in [Calls -> Statuses], NEW ctx,
         Books(q, reads, writer, st), Drain(q, reads, writer, st, ctx)
  PROVE  /\ Books(queue', activeReads', activeWriter', status')
         /\ NoIdleSlot'
<1> DEFINE n == Admitted(q, reads, writer)
           S == {q[i] : i \in 1..n}
<1>0. Len(q) \in Nat /\ \A i \in 1..Len(q) : q[i] \in Calls
  BY LenProperties
<1>1. /\ n \in 0..Len(q)
      /\ \A i \in 1..n : MayStart(q, i, reads)
      /\ writer => n = 0
      /\ ~writer /\ n < Len(q) => ~MayStart(q, n + 1, reads)
  BY <1>0, AdmittedPrefix
<1>2. /\ queue' = SubSeq(q, n + 1, Len(q))
      /\ status' = [c \in Calls |-> IF c \in S THEN "scheduled" ELSE st[c]]
      /\ activeReads' = reads + Cardinality(S \cap Reads)
      /\ activeWriter' = (writer \/ S \cap Writers # {})
  BY DEF Drain
<1> HIDE DEF n
<1>3. /\ queue' \in Seq(Calls)
      /\ Len(queue') = Len(q) - n
      /\ \A i \in 1..(Len(q) - n) : queue'[i] = q[n + i]
  BY <1>0, <1>1, <1>2, SubSeqProperties
<1>4. S \subseteq Calls /\ \A c \in S : st[c] = "queued"
  BY <1>0, <1>1 DEF Books, QueueAgrees
<1>5. /\ HeldBy(Calls, status') = HeldBy(Calls, st) \cup S
      /\ HeldBy(Reads, status') = HeldBy(Reads, st) \cup (S \cap Reads)
      /\ HeldBy(Writers, status') = HeldBy(Writers, st) \cup (S \cap Writers)
      /\ HeldBy(Reads, st) \cap (S \cap Reads) = {}
  BY <1>2, <1>4 DEF HeldBy, Holding, Calls
<1>6. QueueAgrees(queue', status')
  <2>1. \A c \in Calls : status'[c] = "queued" <=> \E i \in 1..Len(queue') : queue'[i] = c
    <3>1. ASSUME NEW c \in Calls, status'[c] = "queued"
          PROVE  \E i \in 1..Len(queue') : queue'[i] = c
      <4>1. st[c] = "queued" /\ c \notin S
        BY <1>2, <3>1
      <4>2. PICK j \in 1..Len(q) : q[j] = c
        BY <4>1 DEF Books, QueueAgrees
      <4>3. j > n
        BY <1>0, <1>1, <4>1, <4>2
      <4>4. j - n \in 1..Len(queue') /\ queue'[j - n] = c
        BY <1>0, <1>1, <1>3, <4>2, <4>3
      <4> QED BY <4>4
    <3>2. ASSUME NEW i \in 1..Len(queue') PROVE status'[queue'[i]] = "queued"
      <4>1. n + i \in 1..Len(q) /\ queue'[i] = q[n + i] /\ n + i \notin 1..n
        BY <1>0, <1>1, <1>3
      <4>2. q[n + i] \notin S
        BY <1>0, <1>1, <4>1 DEF Books, QueueAgrees
      <4>3. st[q[n + i]] = "queued" /\ q[n + i] \in Calls
        BY <1>0, <4>1 DEF Books, QueueAgrees
      <4> QED BY <1>2, <4>1, <4>2, <4>3
    <3> QED BY <3>1, <3>2
  <2>2. ASSUME NEW i \in 1..Len(queue'), NEW j \in 1..Len(queue'), queue'[i] = queue'[j]
        PROVE  i = j
    <3>1. /\ n + i \in 1..Len(q) /\ n + j \in 1..Len(q)
          /\ q[n + i] = q[n + j]
      BY <1>0, <1>1, <1>3, <2>2
    <3>2. n + i = n + j
      BY <3>1 DEF Books, QueueAgrees
    <3> QED BY <1>0, <1>1, <3>2
  <2> QED BY <2>1, <2>2 DEF QueueAgrees
<1>7. Cardinality(S) = n
  <2>1. [i \in 1..n |-> q[i]] \in Bijection(1..n, S)
    BY <1>0, <1>1 DEF Books, QueueAgrees, Bijection, Injection, Surjection, IsInjective
  <2> QED BY <1>1, <2>1, FS_CountingElements DEF ExistsBijection
<1>8. IsFiniteSet(S)
  BY <1>4, CallAssumption, FS_Subset
<1>9. activeReads' = Cardinality(HeldBy(Reads, status'))
  <2>1. IsFiniteSet(S \cap Reads)
    BY <1>8, FS_Subset
  <2>2. Cardinality(S \cap Reads) \in Nat
    BY <2>1, FS_CardinalityType
  <2>3. /\ IsFiniteSet(HeldBy(Reads, st)) /\ Cardinality(HeldBy(Reads, st)) \in Nat
        /\ Cardinality(HeldBy(Reads, st) \cap (S \cap Reads)) = 0
    BY <1>5, PartsFinite, FS_EmptySet
  <2>4. Cardinality(HeldBy(Reads, status')) =
          Cardinality(HeldBy(Reads, st)) + Cardinality(S \cap Reads) - 0
    BY <1>5, <2>1, <2>3, FS_Union
  <2>5. reads = Cardinality(HeldBy(Reads, st))
    BY DEF Books
  <2> QED BY <1>2, <2>2, <2>3, <2>4, <2>5
<1>10. activeWriter' = (HeldBy(Writers, status') # {})
  BY <1>2, <1>5 DEF Books
<1>11. CASE S \cap Writers # {}
  <2>1. PICK k \in 1..n : q[k] \in Writers
    BY <1>11
  <2>2. reads + (k - 1) = 0
    BY <1>0, <1>1, <2>1 DEF MayStart
  <2>3. k = 1 /\ reads = 0
    BY <2>2
  <2>4. n = 1
    <3> SUFFICES ASSUME n # 1 PROVE FALSE
      OBVIOUS
    <3>1. 2 \in 1..n /\ 1 \in 1..(2 - 1)
      BY <1>0, <1>1, <2>3
    <3>2. q[1] \in Reads
      BY <1>1, <3>1 DEF MayStart
    <3> QED BY <2>1, <2>3, <3>2, CallAssumption
  <2>5. S = {q[1]} /\ q[1] \in Writers /\ S \cap Reads = {}
    BY <2>1, <2>3, <2>4, CallAssumption
  <2>6. HeldBy(Reads, st) = {} /\ HeldBy(Writers, st) = {}
    <3>1. ~writer
      BY <1>1, <2>4
    <3>2. Cardinality(HeldBy(Reads, st)) = 0
      BY <2>3 DEF Books
    <3> QED BY <3>1, <3>2, PartsFinite DEF Books
  <2>7. HeldBy(Calls, st) = {}
    BY <2>6 DEF HeldBy, Calls
  <2>8. HeldBy(Calls, status') = {q[1]} /\ HeldBy(Writers, status') \subseteq {q[1]}
    BY <1>5, <2>5, <2>6, <2>7
  <2>9. activeReads' = 0 /\ activeWriter'
    <3>1. Cardinality(S \cap Reads) = 0
      BY <2>5, FS_EmptySet
    <3>2. activeReads' = reads + 0
      BY <1>2, <3>1
    <3>3. activeReads' = 0
      BY <2>3, <3>2
    <3>4. activeWriter'
      BY <1>2, <1>11
    <3> QED BY <3>3, <3>4
  <2> QED BY <1>6, <1>9, <1>10, <2>8, <2>9, CallAssumption DEF Books, NoIdleSlot
<1>12. CASE S \cap Writers = {}
  <2>1. S \cap Reads = S
    BY <1>4, <1>12 DEF Calls
  <2>2. activeReads' = reads + n
    BY <1>2, <1>7, <2>1
  <2>3. reads + n <= ReadCap
    <3>1. CASE n = 0
      BY <1>0, <3>1, CallAssumption DEF Books
    <3>2. CASE n # 0
      <4>1. n \in 1..n /\ q[n] \in S
        BY <1>0, <1>1, <3>2
      <4>2. q[n] \in Reads /\ q[n] \notin Writers
        BY <2>1, <4>1, CallAssumption
      <4> QED BY <1>1, <4>1, <4>2, CallAssumption DEF MayStart
    <3> QED BY <3>1, <3>2
  <2>4. \A w \in HeldBy(Writers, status') : HeldBy(Calls, status') = {w}
    <3> SUFFICES ASSUME NEW w \in HeldBy(Writers, status')
                 PROVE  HeldBy(Calls, status') = {w}
      OBVIOUS
    <3>1. w \in HeldBy(Writers, st)
      BY <1>5, <1>12
    <3>2. writer /\ HeldBy(Calls, st) = {w}
      BY <3>1 DEF Books
    <3>3. S = {}
      BY <1>1, <3>2
    <3> QED BY <1>5, <3>2, <3>3
  <2>5. ASSUME ~activeWriter', queue' # <<>> PROVE ~MayStart(queue', 1, activeReads')
    <3>1. ~writer
      BY <1>2, <2>5
    <3>2. 1 \in 1..Len(queue') /\ n < Len(q)
      BY <1>0, <1>1, <1>3, <2>5, EmptySeq, LenProperties
    <3>3. queue'[1] = q[n + 1]
      BY <1>0, <1>1, <1>3, <3>2
    <3>4. ~MayStart(q, n + 1, reads)
      BY <1>1, <3>1, <3>2
    <3>5. \A j \in 1..((n + 1) - 1) : q[j] \in Reads
      BY <1>0, <1>1, <2>1
    <3> QED BY <1>0, <1>1, <2>2, <3>3, <3>4, <3>5 DEF MayStart
  <2> QED BY <1>6, <1>9, <1>10, <2>2, <2>3, <2>4, <2>5 DEF Books, NoIdleSlot
<1> QED BY <1>11, <1>12

(* drain() keeps the types.                                                *)
LEMMA DrainType ==
  ASSUME context \in [Calls -> SUBSET Calls],
         NEW q \in Seq(Calls), NEW reads \in Nat, NEW writer \in BOOLEAN,
         NEW st \in [Calls -> Statuses], NEW ctx \in SUBSET Calls,
         Drain(q, reads, writer, st, ctx)
  PROVE  /\ status' \in [Calls -> Statuses]
         /\ context' \in [Calls -> SUBSET Calls]
         /\ queue' \in Seq(Calls)
         /\ activeReads' \in Nat
         /\ activeWriter' \in BOOLEAN
<1> DEFINE n == Admitted(q, reads, writer)
           S == {q[i] : i \in 1..n}
<1>1. n \in 0..Len(q) /\ Len(q) \in Nat /\ \A i \in 1..Len(q) : q[i] \in Calls
  BY AdmittedPrefix, LenProperties
<1>2. /\ queue' = SubSeq(q, n + 1, Len(q))
      /\ status' = [c \in Calls |-> IF c \in S THEN "scheduled" ELSE st[c]]
      /\ context' = [c \in Calls |-> IF c \in S THEN ctx ELSE context[c]]
      /\ activeReads' = reads + Cardinality(S \cap Reads)
      /\ activeWriter' = (writer \/ S \cap Writers # {})
  BY DEF Drain
<1> HIDE DEF n
<1>3. queue' \in Seq(Calls)
  BY <1>1, <1>2, SubSeqProperties
<1>4. IsFiniteSet(S \cap Reads)
  BY CallAssumption, FS_Subset DEF Calls
<1>5. activeReads' \in Nat
  BY <1>2, <1>4, FS_CardinalityType
<1>6. status' \in [Calls -> Statuses] /\ context' \in [Calls -> SUBSET Calls]
  BY <1>2 DEF Statuses
<1>7. activeWriter' \in BOOLEAN
  BY <1>2
<1> QED BY <1>3, <1>5, <1>6, <1>7

(* Of two calls that wait, drain() does not start the later one alone.     *)
LEMMA DrainFifo ==
  ASSUME NEW q \in Seq(Calls), NEW reads \in Nat, NEW writer \in BOOLEAN,
         NEW st \in [Calls -> Statuses], NEW ctx,
         QueueAgrees(q, st), Drain(q, reads, writer, st, ctx),
         NEW i \in 1..Len(q), NEW j \in 1..Len(q), i < j,
         status'[q[j]] = "scheduled"
  PROVE  status'[q[i]] = "scheduled"
<1> DEFINE n == Admitted(q, reads, writer)
           S == {q[k] : k \in 1..n}
<1>1. n \in 0..Len(q) /\ Len(q) \in Nat /\ \A k \in 1..Len(q) : q[k] \in Calls
  BY AdmittedPrefix, LenProperties
<1>2. status' = [c \in Calls |-> IF c \in S THEN "scheduled" ELSE st[c]]
  BY DEF Drain
<1> HIDE DEF n
<1>3. st[q[j]] = "queued"
  BY <1>1 DEF QueueAgrees
<1>4. PICK k \in 1..n : q[k] = q[j]
  BY <1>1, <1>2, <1>3
<1>5. k = j
  BY <1>1, <1>4 DEF QueueAgrees
<1> QED BY <1>1, <1>2, <1>5

(* What splicing one entry out of the queue leaves.                        *)
LEMMA RemoveAtFacts ==
  ASSUME NEW q \in Seq(Calls), NEW k \in 1..Len(q)
  PROVE  /\ RemoveAt(q, k) \in Seq(Calls)
         /\ Len(RemoveAt(q, k)) = Len(q) - 1
         /\ \A i \in 1..(Len(q) - 1) :
              RemoveAt(q, k)[i] = q[IF i < k THEN i ELSE i + 1]
<1> DEFINE a == SubSeq(q, 1, k - 1)
           b == SubSeq(q, k + 1, Len(q))
<1>0. Len(q) \in Nat /\ k \in Int /\ \A i \in 1..Len(q) : q[i] \in Calls
  BY LenProperties
<1>1. /\ a \in Seq(Calls) /\ Len(a) = k - 1
      /\ \A i \in 1..(k - 1) : a[i] = q[i]
  <2>1. \A i \in 1..(k - 1) : q[i] \in Calls
    BY <1>0
  <2> QED BY <1>0, <2>1, SubSeqProperties
<1>2. /\ b \in Seq(Calls) /\ Len(b) = Len(q) - k
      /\ \A i \in 1..(Len(q) - k) : b[i] = q[k + i]
  <2>1. \A i \in (k + 1)..Len(q) : q[i] \in Calls
    BY <1>0
  <2> QED BY <1>0, <2>1, SubSeqProperties
<1>3. RemoveAt(q, k) = a \o b
  BY DEF RemoveAt
<1> HIDE DEF a, b
<1>4. /\ a \o b \in Seq(Calls) /\ Len(a \o b) = Len(a) + Len(b)
      /\ \A i \in 1..(Len(a) + Len(b)) :
           (a \o b)[i] = IF i <= Len(a) THEN a[i] ELSE b[i - Len(a)]
  BY <1>1, <1>2, ConcatProperties
<1>5. Len(a) + Len(b) = Len(q) - 1
  BY <1>0, <1>1, <1>2
<1>6. ASSUME NEW i \in 1..(Len(q) - 1)
      PROVE  (a \o b)[i] = q[IF i < k THEN i ELSE i + 1]
  <2>1. CASE i < k
    BY <1>0, <1>1, <1>4, <1>5, <2>1
  <2>2. CASE ~(i < k)
    <3>1. i - Len(a) \in 1..(Len(q) - k) /\ k + (i - Len(a)) = i + 1
      BY <1>0, <1>1, <2>2
    <3>2. (a \o b)[i] = b[i - Len(a)]
      BY <1>0, <1>1, <1>4, <1>5, <2>2
    <3>3. b[i - Len(a)] = q[k + (i - Len(a))]
      BY <1>2, <3>1
    <3> QED BY <2>2, <3>1, <3>2, <3>3
  <2> QED BY <2>1, <2>2
<1> QED BY <1>3, <1>4, <1>5, <1>6

-----------------------------------------------------------------------------
(* The inductive invariant.                                                *)
IInv == TypeOK /\ Books(queue, activeReads, activeWriter, status) /\ NoIdleSlot

(* A step that ends in a drain keeps IInv if the books are right before it *)
(* drains.                                                                 *)
LEMMA DrainKeepsInv ==
  ASSUME TypeOK, caller' \in [Calls -> Calls \cup {NoCall}],
         NEW q \in Seq(Calls), NEW reads \in Nat, NEW writer \in BOOLEAN,
         NEW st \in [Calls -> Statuses], NEW ctx \in SUBSET Calls,
         Books(q, reads, writer, st), Drain(q, reads, writer, st, ctx)
  PROVE  IInv'
<1>1. Books(queue', activeReads', activeWriter', status') /\ NoIdleSlot'
  BY DrainKeepsBooks
<1>2. TypeOK'
  BY DrainType DEF TypeOK
<1> QED BY <1>1, <1>2 DEF IInv

(* The books after one entry of the queue was spliced out.                 *)
LEMMA SpliceAgrees ==
  ASSUME TypeOK, QueueAgrees(queue, status), NEW k \in 1..Len(queue)
  PROVE  QueueAgrees(RemoveAt(queue, k), [status EXCEPT ![queue[k]] = "aborted"])
<1> DEFINE q == RemoveAt(queue, k)
           st == [status EXCEPT ![queue[k]] = "aborted"]
           From(i) == IF i < k THEN i ELSE i + 1
<1>1. /\ queue \in Seq(Calls) /\ Len(queue) \in Nat
      /\ \A i \in 1..Len(queue) : queue[i] \in Calls
  BY LenProperties DEF TypeOK
<1>2. Len(q) = Len(queue) - 1 /\ \A i \in 1..Len(q) : q[i] = queue[From(i)]
  BY <1>1, RemoveAtFacts
<1>3. \A c \in Calls : st[c] = IF c = queue[k] THEN "aborted" ELSE status[c]
  BY <1>1 DEF TypeOK
<1> HIDE DEF q, st
<1>4. ASSUME NEW i \in 1..Len(q), NEW j \in 1..Len(q), q[i] = q[j] PROVE i = j
  <2>1. From(i) \in 1..Len(queue) /\ From(j) \in 1..Len(queue)
    BY <1>1, <1>2
  <2>2. From(i) = From(j)
    BY <1>2, <1>4, <2>1 DEF QueueAgrees
  <2> QED BY <1>1, <1>2, <2>2
<1>5. ASSUME NEW c \in Calls, st[c] = "queued" PROVE \E i \in 1..Len(q) : q[i] = c
  <2>1. c # queue[k] /\ status[c] = "queued"
    BY <1>3, <1>5
  <2>2. PICK j \in 1..Len(queue) : queue[j] = c
    BY <2>1 DEF QueueAgrees
  <2>3. j # k
    BY <2>1, <2>2
  <2>4. CASE j < k
    <3>1. j \in 1..Len(q) /\ From(j) = j
      BY <1>1, <1>2, <2>4
    <3> QED BY <1>2, <2>2, <3>1
  <2>5. CASE j > k
    <3>1. j - 1 \in 1..Len(q) /\ From(j - 1) = j
      BY <1>1, <1>2, <2>5
    <3> QED BY <1>2, <2>2, <3>1
  <2> QED BY <1>1, <2>3, <2>4, <2>5
<1>6. ASSUME NEW i \in 1..Len(q) PROVE st[q[i]] = "queued"
  <2>1. From(i) \in 1..Len(queue) /\ From(i) # k
    BY <1>1, <1>2
  <2>2. queue[From(i)] # queue[k] /\ status[queue[From(i)]] = "queued"
    BY <1>1, <2>1 DEF QueueAgrees
  <2> QED BY <1>1, <1>2, <1>3, <2>1, <2>2
<1> QED BY <1>4, <1>5, <1>6 DEF QueueAgrees, q, st

(* A change of statuses that moves no call in or out of a slot.            *)
LEMMA SameSlots ==
  ASSUME NEW st, NEW su,
         \A c \in Calls : su[c] \in Holding <=> st[c] \in Holding
  PROVE  /\ HeldBy(Reads, su) = HeldBy(Reads, st)
         /\ HeldBy(Writers, su) = HeldBy(Writers, st)
         /\ HeldBy(Calls, su) = HeldBy(Calls, st)
BY DEF HeldBy, Calls

(* Appending a new call to the queue keeps them in agreement.              *)
LEMMA AppendAgrees ==
  ASSUME TypeOK, QueueAgrees(queue, status), NEW c \in Calls, status[c] = "new"
  PROVE  QueueAgrees(Append(queue, c), [status EXCEPT ![c] = "queued"])
<1> DEFINE q == Append(queue, c)
           st == [status EXCEPT ![c] = "queued"]
<1>1. /\ queue \in Seq(Calls) /\ Len(queue) \in Nat
      /\ \A i \in 1..Len(queue) : queue[i] \in Calls /\ queue[i] # c
  BY LenProperties DEF TypeOK, QueueAgrees
<1>2. /\ Len(q) = Len(queue) + 1
      /\ \A i \in 1..Len(queue) : q[i] = queue[i]
      /\ q[Len(queue) + 1] = c
  BY <1>1
<1>3. \A d \in Calls : st[d] = IF d = c THEN "queued" ELSE status[d]
  BY DEF TypeOK
<1> HIDE DEF q, st
<1>4. ASSUME NEW i \in 1..Len(q), NEW j \in 1..Len(q), q[i] = q[j] PROVE i = j
  <2>1. CASE i \in 1..Len(queue) /\ j \in 1..Len(queue)
    BY <1>2, <1>4, <2>1 DEF QueueAgrees
  <2>2. CASE i = Len(queue) + 1 \/ j = Len(queue) + 1
    BY <1>1, <1>2, <1>4, <2>2
  <2> QED BY <1>1, <1>2, <2>1, <2>2
<1>5. ASSUME NEW d \in Calls, st[d] = "queued" PROVE \E i \in 1..Len(q) : q[i] = d
  <2>1. CASE d = c
    BY <1>1, <1>2, <2>1
  <2>2. CASE d # c
    <3>1. PICK i \in 1..Len(queue) : queue[i] = d
      BY <1>3, <1>5, <2>2 DEF QueueAgrees
    <3> QED BY <1>1, <1>2, <3>1
  <2> QED BY <2>1, <2>2
<1>6. ASSUME NEW i \in 1..Len(q) PROVE st[q[i]] = "queued"
  <2>1. CASE i \in 1..Len(queue)
    BY <1>1, <1>2, <1>3, <2>1 DEF QueueAgrees
  <2>2. CASE i = Len(queue) + 1
    BY <1>2, <1>3, <2>2
  <2> QED BY <1>1, <1>2, <2>1, <2>2
<1> QED BY <1>4, <1>5, <1>6 DEF QueueAgrees, q, st

(* A refusal, or a step of a call that keeps its slot, changes one status. *)
LEMMA QuietStep ==
  ASSUME IInv, NEW c \in Calls, NEW s \in Statuses \ {"queued"},
         status[c] # "queued", s \in Holding <=> status[c] \in Holding,
         status' = [status EXCEPT ![c] = s],
         UNCHANGED <<caller, context, queue, activeReads, activeWriter>>
  PROVE  IInv'
<1>1. TypeOK'
  BY DEF IInv, TypeOK
<1>2. QueueAgrees(queue', status')
  BY LenProperties DEF IInv, TypeOK, Books, QueueAgrees
<1>3. \A d \in Calls : status'[d] \in Holding <=> status[d] \in Holding
  BY DEF IInv, TypeOK
<1>4. Books(queue', activeReads', activeWriter', status')
  BY <1>2, <1>3, SameSlots DEF IInv, Books
<1>5. NoIdleSlot'
  BY DEF IInv, NoIdleSlot, MayStart
<1> QED BY <1>1, <1>4, <1>5 DEF IInv

(* run(): the new call is appended, then the queue is drained.             *)
LEMMA RunStep ==
  ASSUME IInv, NEW c \in Calls, NEW b \in Calls \cup {NoCall}, Run(c, b)
  PROVE  IInv'
<1> DEFINE st == [status EXCEPT ![c] = "queued"]
<1>1. TypeOK /\ Books(queue, activeReads, activeWriter, status)
  BY DEF IInv
<1>2. st \in [Calls -> Statuses] /\ Append(queue, c) \in Seq(Calls)
  BY <1>1 DEF TypeOK, Statuses
<1>3. \A d \in Calls : st[d] \in Holding <=> status[d] \in Holding
  BY <1>1 DEF Run, TypeOK, Holding
<1>4. Books(Append(queue, c), activeReads, activeWriter, st)
  BY <1>1, <1>3, AppendAgrees, SameSlots DEF Run, Books
<1>5. Context(b) \in SUBSET Calls
  BY <1>1 DEF Context, TypeOK
<1>6. /\ Drain(Append(queue, c), activeReads, activeWriter, st, Context(b))
      /\ caller' \in [Calls -> Calls \cup {NoCall}]
  BY <1>1 DEF Run, TypeOK
<1>7. activeReads \in Nat /\ activeWriter \in BOOLEAN
  BY <1>1 DEF TypeOK
<1> HIDE DEF st
<1> QED BY <1>1, <1>2, <1>4, <1>5, <1>6, <1>7, DrainKeepsInv

(* The abort of a queued call: it leaves the queue, which is drained.      *)
LEMMA AbortStep ==
  ASSUME IInv, NEW c \in Calls, NEW b \in Calls \cup {NoCall}, Abort(c, b)
  PROVE  IInv'
<1> DEFINE st == [status EXCEPT ![c] = "aborted"]
<1>1. TypeOK /\ Books(queue, activeReads, activeWriter, status)
  BY DEF IInv
<1>2. PICK k \in 1..Len(queue) :
        /\ queue[k] = c
        /\ Drain(RemoveAt(queue, k), activeReads, activeWriter, st, Context(b))
  BY DEF Abort
<1>3. st \in [Calls -> Statuses] /\ RemoveAt(queue, k) \in Seq(Calls)
  BY <1>1, RemoveAtFacts DEF TypeOK, Statuses
<1>4. status[c] = "queued"
  BY <1>1, <1>2 DEF Books, QueueAgrees
<1>5. \A d \in Calls : st[d] \in Holding <=> status[d] \in Holding
  BY <1>1, <1>4 DEF TypeOK, Holding
<1>6. QueueAgrees(RemoveAt(queue, k), st)
  BY <1>1, <1>2, SpliceAgrees DEF Books
<1>7. Books(RemoveAt(queue, k), activeReads, activeWriter, st)
  BY <1>1, <1>5, <1>6, SameSlots DEF Books
<1>8. Context(b) \in SUBSET Calls
  BY <1>1 DEF Context, TypeOK
<1> HIDE DEF st
<1> QED BY <1>1, <1>2, <1>3, <1>7, <1>8, DrainKeepsInv DEF Abort, TypeOK

(* The finally of a call: its slot is free, and the queue is drained.      *)
LEMMA ReleaseStep ==
  ASSUME IInv, NEW c \in Calls, Release(c)
  PROVE  IInv'
<1> DEFINE st == [status EXCEPT ![c] = "done"]
           reads == IF c \in Reads THEN activeReads - 1 ELSE activeReads
           writer == IF c \in Writers THEN FALSE ELSE activeWriter
<1>1. TypeOK /\ Books(queue, activeReads, activeWriter, status) /\ status[c] = "returned"
  BY DEF IInv, Release
<1>2. st \in [Calls -> Statuses] /\ context[c] \in SUBSET Calls
  BY <1>1 DEF TypeOK, Statuses
<1>3. /\ HeldBy(Reads, st) = HeldBy(Reads, status) \ {c}
      /\ HeldBy(Writers, st) = HeldBy(Writers, status) \ {c}
      /\ HeldBy(Calls, st) = HeldBy(Calls, status) \ {c}
      /\ c \in HeldBy(Calls, status)
  BY <1>1 DEF TypeOK, HeldBy, Holding, Calls
<1>4. QueueAgrees(queue, st)
  BY <1>1, LenProperties DEF TypeOK, Books, QueueAgrees
<1>5. /\ reads \in Nat /\ reads <= ReadCap
      /\ reads = Cardinality(HeldBy(Reads, st))
  <2>1. CASE c \in Reads
    <3>1. c \in HeldBy(Reads, status)
      BY <1>1, <2>1 DEF HeldBy, Holding
    <3>2. /\ Cardinality(HeldBy(Reads, st)) = Cardinality(HeldBy(Reads, status)) - 1
          /\ Cardinality(HeldBy(Reads, st)) \in Nat
      BY <1>3, <3>1, PartsFinite, FS_RemoveElement
    <3>3. activeReads = Cardinality(HeldBy(Reads, status)) /\ activeReads <= ReadCap
      BY <1>1 DEF Books
    <3> QED BY <1>1, <2>1, <3>2, <3>3, CallAssumption DEF TypeOK
  <2>2. CASE c \notin Reads
    <3>1. HeldBy(Reads, st) = HeldBy(Reads, status)
      BY <1>3, <2>2 DEF HeldBy
    <3> QED BY <1>1, <2>2, <3>1 DEF TypeOK, Books
  <2> QED BY <2>1, <2>2
<1>6. /\ writer \in BOOLEAN
      /\ writer = (HeldBy(Writers, st) # {})
      /\ \A w \in HeldBy(Writers, st) : HeldBy(Calls, st) = {w}
  <2>1. CASE c \in Writers
    <3>1. c \in HeldBy(Writers, status)
      BY <1>1, <2>1 DEF HeldBy, Holding
    <3>2. HeldBy(Calls, status) = {c}
      BY <1>1, <3>1 DEF Books
    <3>3. HeldBy(Writers, st) = {}
      BY <1>3, <3>2 DEF HeldBy, Calls
    <3> QED BY <2>1, <3>3
  <2>2. CASE c \notin Writers
    <3>1. HeldBy(Writers, status) = {}
      <4> SUFFICES ASSUME NEW w \in HeldBy(Writers, status) PROVE FALSE
        OBVIOUS
      <4>1. HeldBy(Calls, status) = {w} /\ w \in Writers
        BY <1>1 DEF Books, HeldBy
      <4> QED BY <1>3, <2>2, <4>1
    <3>2. HeldBy(Writers, st) = {}
      BY <1>3, <3>1
    <3> QED BY <1>1, <2>2, <3>1, <3>2 DEF Books, TypeOK
  <2> QED BY <2>1, <2>2
<1>7. Drain(queue, reads, writer, st, context[c]) /\ caller' = caller
  BY DEF Release
<1> HIDE DEF st, reads, writer
<1>8. Books(queue, reads, writer, st)
  BY <1>4, <1>5, <1>6 DEF Books
<1> QED BY <1>1, <1>2, <1>5, <1>6, <1>7, <1>8, DrainKeepsInv DEF TypeOK

-----------------------------------------------------------------------------
(* No call, the coordinator idle: the books are right.                     *)
LEMMA InvInit == Init => IInv
<1> SUFFICES ASSUME Init PROVE IInv
  OBVIOUS
<1>1. TypeOK
  BY EmptySeq DEF Init, TypeOK, Statuses
<1>2. QueueAgrees(queue, status)
  BY DEF Init, QueueAgrees
<1>3. /\ HeldBy(Reads, status) = {} /\ HeldBy(Writers, status) = {}
      /\ HeldBy(Calls, status) = {}
  BY DEF Init, HeldBy, Holding, Calls
<1>4. Cardinality(HeldBy(Reads, status)) = 0
  BY <1>3, FS_EmptySet
<1>5. activeReads = 0 /\ activeWriter = FALSE /\ queue = <<>>
  BY DEF Init
<1>6. Books(queue, activeReads, activeWriter, status)
  <2>1. activeReads = Cardinality(HeldBy(Reads, status)) /\ activeReads <= ReadCap
    BY <1>4, <1>5, CallAssumption
  <2>2. activeWriter = (HeldBy(Writers, status) # {})
    BY <1>3, <1>5
  <2> QED BY <1>2, <1>3, <2>1, <2>2 DEF Books
<1> QED BY <1>1, <1>5, <1>6 DEF IInv, NoIdleSlot

(* Every action keeps the inductive invariant.                             *)
LEMMA InvNext == IInv /\ [Next]_vars => IInv'
<1> SUFFICES ASSUME IInv, [Next]_vars PROVE IInv'
  OBVIOUS
<1>1. CASE UNCHANGED vars
  BY <1>1 DEF vars, IInv, TypeOK, Books, QueueAgrees, HeldBy, NoIdleSlot, MayStart
<1>2. ASSUME NEW c \in Calls, NEW b \in Calls \cup {NoCall},
             RunRefused(c, b) \/ RunAborted(c, b)
      PROVE  IInv'
  BY <1>2, QuietStep DEF RunRefused, RunAborted, Statuses, Holding
<1>3. ASSUME NEW c \in Calls, Execute(c) \/ Return(c) PROVE IInv'
  BY <1>3, QuietStep DEF Execute, Return, Statuses, Holding
<1> QED BY <1>1, <1>2, <1>3, RunStep, AbortStep, ReleaseStep, CallAssumption DEF Next

(* The books are right in every reachable state.                           *)
THEOREM InvCorrect == Spec => []IInv
BY InvInit, InvNext, PTL DEF Spec

(* Every reachable state is well typed.                                    *)
THEOREM TypeCorrect == Spec => []TypeOK
BY InvCorrect, PTL DEF IInv

(* An exclusive tool runs alone and the reads keep to their cap, for any   *)
(* number of calls, nested calls and aborts included.                      *)
THEOREM WriterAloneTheorem == Spec => []WriterAlone
<1>1. \A C : Holders(C) = HeldBy(C, status)
  BY DEF Holders, HeldBy
<1>2. IInv => WriterAlone
  BY <1>1 DEF IInv, Books, WriterAlone
<1> QED BY InvCorrect, <1>2, PTL

(* The counters are the slots that are held: none leaks.                   *)
THEOREM SlotsMatchTheorem == Spec => []SlotsMatch
<1>1. \A C : Holders(C) = HeldBy(C, status)
  BY DEF Holders, HeldBy
<1>2. IInv => SlotsMatch
  BY <1>1 DEF IInv, Books, SlotsMatch
<1> QED BY InvCorrect, <1>2, PTL

(* A call at the head of the queue waits only for a slot that is taken.    *)
THEOREM NoIdleSlotTheorem == Spec => []NoIdleSlot
BY InvCorrect, PTL DEF IInv

(* No call overtakes one that was queued before it.                        *)
THEOREM NoOvertakingTheorem == Spec => NoOvertaking
<1>1. IInv /\ [Next]_vars => [FifoStep]_vars
  <2> SUFFICES ASSUME IInv, Next, NEW i \in 1..Len(queue), NEW j \in 1..Len(queue),
                      i < j, status'[queue[j]] = "scheduled"
               PROVE  status'[queue[i]] # "queued"
    BY DEF FifoStep
  <2>1. /\ TypeOK /\ QueueAgrees(queue, status) /\ queue \in Seq(Calls)
        /\ Len(queue) \in Nat
        /\ \A k \in 1..Len(queue) : queue[k] \in Calls /\ status[queue[k]] = "queued"
    BY LenProperties DEF IInv, TypeOK, Books, QueueAgrees
  <2>2. ASSUME NEW c \in Calls, NEW s, s # "scheduled",
               status' = [status EXCEPT ![c] = s]
        PROVE  FALSE
    BY <2>1, <2>2 DEF TypeOK
  <2>3. ASSUME NEW c \in Calls, NEW b \in Calls \cup {NoCall}, Run(c, b)
        PROVE  status'[queue[i]] = "scheduled"
    <3> DEFINE st == [status EXCEPT ![c] = "queued"]
    <3>1. status[c] = "new" /\ Drain(Append(queue, c), activeReads, activeWriter, st, Context(b))
      BY <2>3 DEF Run
    <3>2. st \in [Calls -> Statuses] /\ QueueAgrees(Append(queue, c), st)
      BY <2>1, <3>1, AppendAgrees DEF TypeOK, Statuses
    <3>3. /\ Append(queue, c) \in Seq(Calls)
          /\ Len(Append(queue, c)) = Len(queue) + 1
          /\ \A k \in 1..Len(queue) : Append(queue, c)[k] = queue[k]
      BY <2>1
    <3>4. activeReads \in Nat /\ activeWriter \in BOOLEAN
      BY <2>1 DEF TypeOK
    <3> HIDE DEF st
    <3>5. i \in 1..Len(Append(queue, c)) /\ j \in 1..Len(Append(queue, c))
      BY <2>1, <3>3
    <3>6. status'[Append(queue, c)[j]] = "scheduled"
      BY <3>3
    <3>7. status'[Append(queue, c)[i]] = "scheduled"
      BY <3>1, <3>2, <3>3, <3>4, <3>5, <3>6, DrainFifo
    <3> QED BY <3>3, <3>7
  <2>4. ASSUME NEW c \in Calls, Release(c)
        PROVE  status'[queue[i]] = "scheduled"
    <3> DEFINE st == [status EXCEPT ![c] = "done"]
               reads == IF c \in Reads THEN activeReads - 1 ELSE activeReads
               writer == IF c \in Writers THEN FALSE ELSE activeWriter
    <3>1. status[c] = "returned" /\ Drain(queue, reads, writer, st, context[c])
      BY <2>4 DEF Release
    <3>2. st \in [Calls -> Statuses] /\ QueueAgrees(queue, st)
      BY <2>1, <3>1 DEF TypeOK, Statuses, QueueAgrees
    <3>3. reads \in Nat
      <4>1. CASE c \in Reads
        <5>1. c \in HeldBy(Reads, status)
          BY <3>1, <4>1 DEF HeldBy, Holding
        <5>2. activeReads # 0 /\ activeReads \in Nat
          BY <5>1, PartsFinite DEF IInv, Books, TypeOK
        <5> QED BY <4>1, <5>2
      <4>2. CASE c \notin Reads
        BY <2>1, <4>2 DEF TypeOK
      <4> QED BY <4>1, <4>2
    <3>4. writer \in BOOLEAN
      BY <2>1 DEF TypeOK
    <3> HIDE DEF st, reads, writer
    <3> QED BY <2>1, <3>1, <3>2, <3>3, <3>4, DrainFifo
  <2>5. ASSUME NEW c \in Calls, NEW b \in Calls \cup {NoCall}, Abort(c, b)
        PROVE  status'[queue[i]] # "queued"
    <3>1. PICK k \in 1..Len(queue) :
            /\ queue[k] = c
            /\ Drain(RemoveAt(queue, k), activeReads, activeWriter,
                     [status EXCEPT ![c] = "aborted"], Context(b))
      BY <2>5 DEF Abort
    <3> DEFINE st == [status EXCEPT ![c] = "aborted"]
               q == RemoveAt(queue, k)
               To(m) == IF m < k THEN m ELSE m - 1
    <3>2. st \in [Calls -> Statuses] /\ QueueAgrees(q, st)
      BY <2>1, <3>1, SpliceAgrees DEF TypeOK, Statuses
    <3>3. /\ q \in Seq(Calls) /\ Len(q) = Len(queue) - 1
          /\ \A m \in 1..(Len(queue) - 1) : q[m] = queue[IF m < k THEN m ELSE m + 1]
      BY <2>1, RemoveAtFacts
    <3>4. activeReads \in Nat /\ activeWriter \in BOOLEAN
      BY <2>1 DEF TypeOK
    <3>5. Drain(q, activeReads, activeWriter, st, Context(b))
      BY <3>1
    <3>6. st[c] = "aborted" /\ \A d \in Calls : status'[d] \in {st[d], "scheduled"}
      BY <2>1, <3>5 DEF Drain, TypeOK
    <3> HIDE DEF st, q
    <3>7. CASE i = k
      BY <2>1, <3>1, <3>6, <3>7
    <3>8. CASE j = k /\ i < k
      <4>1. i \in 1..Len(q) /\ \A m \in 1..Len(q) : q[m] # c
        <5>1. \A m \in 1..Len(q) : st[q[m]] = "queued"
          BY <2>1, <3>2, <3>3, LenProperties DEF QueueAgrees
        <5> QED BY <2>1, <3>3, <3>6, <3>8, <5>1
      <4>2. c = queue[j] /\ \A m \in DOMAIN q : q[m] # c
        BY <2>1, <3>1, <3>3, <3>8, <4>1, LenProperties
      <4>3. Admitted(q, activeReads, activeWriter) \in 0..Len(q)
        BY <3>3, <3>4, AdmittedPrefix
      <4>4. status'[c] = st[c]
        <5> DEFINE n == Admitted(q, activeReads, activeWriter)
        <5>1. c \in Calls /\ c \notin {q[m] : m \in 1..n}
          BY <2>1, <3>1, <3>3, <4>1, <4>3
        <5>2. status' = [d \in Calls |-> IF d \in {q[m] : m \in 1..n}
                                         THEN "scheduled" ELSE st[d]]
          BY <3>5 DEF Drain
        <5> QED BY <5>1, <5>2
      <4> QED BY <3>6, <4>2, <4>4
    <3>9. CASE i # k /\ j # k
      <4>1. To(i) \in 1..Len(q) /\ To(j) \in 1..Len(q) /\ To(i) < To(j)
        BY <2>1, <3>3, <3>9
      <4>2. q[To(i)] = queue[i] /\ q[To(j)] = queue[j]
        <5>1. /\ To(i) \in 1..(Len(queue) - 1) /\ To(j) \in 1..(Len(queue) - 1)
              /\ (IF To(i) < k THEN To(i) ELSE To(i) + 1) = i
              /\ (IF To(j) < k THEN To(j) ELSE To(j) + 1) = j
          BY <2>1, <3>3, <3>9, <4>1
        <5> QED BY <3>3, <5>1
      <4>3. status'[q[To(i)]] = "scheduled"
        BY <3>2, <3>3, <3>4, <3>5, <4>1, <4>2, DrainFifo
      <4> QED BY <4>2, <4>3
    <3> QED BY <2>1, <3>7, <3>8, <3>9
  <2>6. ASSUME NEW c \in Calls, Execute(c) PROVE FALSE
    BY <2>2, <2>6 DEF Execute
  <2>7. ASSUME NEW c \in Calls, Return(c) PROVE FALSE
    BY <2>2, <2>7 DEF Return
  <2>8. ASSUME NEW c \in Calls, NEW b \in Calls \cup {NoCall},
               RunRefused(c, b) \/ RunAborted(c, b)
        PROVE  FALSE
    BY <2>2, <2>8 DEF RunRefused, RunAborted
  <2> QED BY <2>3, <2>4, <2>5, <2>6, <2>7, <2>8, CallAssumption DEF Next
<1> QED BY InvCorrect, <1>1, PTL DEF Spec, NoOvertaking

-----------------------------------------------------------------------------
(* A body that made a call has returned: its token was no longer active.   *)
CallersReturned ==
  \A d \in Calls : caller[d] # NoCall => status[caller[d]] \in {"returned", "done"}

(* A call moves on by itself, or is started by drain() from the queue.     *)
LEMMA DrainMoves ==
  ASSUME NEW q \in Seq(Calls), NEW reads \in Nat, NEW writer \in BOOLEAN, NEW st, NEW ctx,
         QueueAgrees(q, st), Drain(q, reads, writer, st, ctx),
         NEW c \in Calls, st[c] # "queued"
  PROVE  status'[c] = st[c]
<1> DEFINE n == Admitted(q, reads, writer)
<1>1. n \in 0..Len(q) /\ Len(q) \in Nat
  BY AdmittedPrefix, LenProperties
<1>2. status'[c] = IF c \in {q[i] : i \in 1..n} THEN "scheduled" ELSE st[c]
  BY DEF Drain
<1> HIDE DEF n
<1>3. \A i \in 1..n : st[q[i]] = "queued"
  BY <1>1 DEF QueueAgrees
<1> QED BY <1>2, <1>3

(* Only a body that has returned makes calls that are let in, and it never *)
(* runs again.                                                             *)
LEMMA CallersNext == IInv /\ CallersReturned /\ [Next]_vars => CallersReturned'
<1> SUFFICES ASSUME IInv, CallersReturned, [Next]_vars PROVE CallersReturned'
  OBVIOUS
<1>1. /\ TypeOK /\ QueueAgrees(queue, status)
      /\ activeReads \in Nat /\ activeWriter \in BOOLEAN
  BY DEF IInv, Books, TypeOK
<1> DEFINE Stay == \A c \in Calls :
             status[c] \in {"returned", "done"} => status'[c] \in {"returned", "done"}
<1>2. ASSUME Stay, UNCHANGED caller PROVE CallersReturned'
  BY <1>1, <1>2 DEF CallersReturned, TypeOK
<1>3. CASE UNCHANGED vars
  BY <1>3 DEF vars, CallersReturned
<1>4. ASSUME NEW c \in Calls, NEW s, status' = [status EXCEPT ![c] = s], UNCHANGED caller,
             status[c] \notin {"returned", "done"} \/ s \in {"returned", "done"}
      PROVE  CallersReturned'
  BY <1>1, <1>2, <1>4 DEF TypeOK
<1>5. ASSUME NEW c \in Calls, NEW b \in Calls \cup {NoCall}, RunRefused(c, b) \/ RunAborted(c, b)
      PROVE  CallersReturned'
  BY <1>4, <1>5 DEF RunRefused, RunAborted
<1>6. ASSUME NEW c \in Calls, Execute(c) \/ Return(c) PROVE CallersReturned'
  BY <1>4, <1>6 DEF Execute, Return
<1>7. ASSUME NEW c \in Calls, NEW b \in Calls \cup {NoCall}, Run(c, b) PROVE CallersReturned'
  <2> DEFINE st == [status EXCEPT ![c] = "queued"]
  <2>1. /\ status[c] = "new" /\ Began(b) /\ ~Reentrant(b) /\ caller' = [caller EXCEPT ![c] = b]
        /\ Drain(Append(queue, c), activeReads, activeWriter, st, Context(b))
    BY <1>7 DEF Run
  <2>2. Append(queue, c) \in Seq(Calls) /\ QueueAgrees(Append(queue, c), st)
    <3>1. Append(queue, c) \in Seq(Calls)
      BY <1>1 DEF TypeOK
    <3> QED BY <1>1, <2>1, <3>1, AppendAgrees
  <2>3. Stay
    <3> SUFFICES ASSUME NEW d \in Calls, status[d] \in {"returned", "done"}
                 PROVE  status'[d] = status[d]
      OBVIOUS
    <3>1. st[d] = status[d] /\ st[d] # "queued"
      BY <1>1, <2>1 DEF TypeOK
    <3> HIDE DEF st
    <3> QED BY <1>1, <2>1, <2>2, <3>1, DrainMoves
  <2>4. b # NoCall => status[b] \in {"returned", "done"}
    BY <2>1 DEF Began, Reentrant, Context, Active
  <2> QED BY <1>1, <2>1, <2>3, <2>4 DEF CallersReturned, TypeOK
<1>8. ASSUME NEW c \in Calls, NEW b \in Calls \cup {NoCall}, Abort(c, b) PROVE CallersReturned'
  <2> DEFINE st == [status EXCEPT ![c] = "aborted"]
  <2>1. PICK k \in 1..Len(queue) :
          /\ queue[k] = c
          /\ Drain(RemoveAt(queue, k), activeReads, activeWriter, st, Context(b))
    BY <1>8 DEF Abort
  <2>2. /\ RemoveAt(queue, k) \in Seq(Calls) /\ QueueAgrees(RemoveAt(queue, k), st)
        /\ status[c] = "queued"
    BY <1>1, <2>1, RemoveAtFacts, SpliceAgrees DEF TypeOK, QueueAgrees
  <2>3. Stay
    <3> SUFFICES ASSUME NEW d \in Calls, status[d] \in {"returned", "done"}
                 PROVE  status'[d] = status[d]
      OBVIOUS
    <3>1. st[d] = status[d] /\ st[d] # "queued"
      BY <1>1, <2>2 DEF TypeOK
    <3> DEFINE q == RemoveAt(queue, k)
    <3>2. q \in Seq(Calls) /\ QueueAgrees(q, st)
      BY <2>2
    <3>3. Drain(q, activeReads, activeWriter, st, Context(b))
      BY <2>1
    <3> HIDE DEF st, q
    <3> QED BY <1>1, <3>1, <3>2, <3>3, DrainMoves
  <2> QED BY <1>2, <1>8, <2>3 DEF Abort
<1>9. ASSUME NEW c \in Calls, Release(c) PROVE CallersReturned'
  <2> DEFINE st == [status EXCEPT ![c] = "done"]
             reads == IF c \in Reads THEN activeReads - 1 ELSE activeReads
             writer == IF c \in Writers THEN FALSE ELSE activeWriter
  <2>1. /\ status[c] = "returned" /\ UNCHANGED caller
        /\ Drain(queue, reads, writer, st, context[c])
    BY <1>9 DEF Release
  <2>2. queue \in Seq(Calls) /\ QueueAgrees(queue, st)
    BY <1>1, <2>1, LenProperties DEF TypeOK, QueueAgrees
  <2>3. reads \in Nat /\ writer \in BOOLEAN
    <3>1. ASSUME c \in Reads PROVE activeReads # 0
      <4>1. c \in HeldBy(Reads, status)
        BY <2>1, <3>1 DEF HeldBy, Holding
      <4>2. Cardinality(HeldBy(Reads, status)) # 0
        BY <4>1, PartsFinite
      <4> QED BY <4>2 DEF IInv, Books
    <3>2. activeReads # 0 => activeReads - 1 \in Nat
      BY <1>1
    <3> QED BY <1>1, <3>1, <3>2
  <2>4. Stay
    <3> SUFFICES ASSUME NEW d \in Calls, status[d] \in {"returned", "done"}
                 PROVE  status'[d] \in {"returned", "done"}
      OBVIOUS
    <3>1. st[d] \in {"returned", "done"}
      BY <1>1 DEF TypeOK
    <3> HIDE DEF st, reads, writer
    <3> QED BY <2>1, <2>2, <2>3, <3>1, DrainMoves
  <2> QED BY <1>2, <2>1, <2>4
<1> QED BY <1>3, <1>5, <1>6, <1>7, <1>8, <1>9, CallAssumption DEF Next

(* Whatever waits, waits for a slot that its holder can give back.         *)
THEOREM QueueMovesTheorem == Spec => []QueueMoves
<1>1. Init => CallersReturned
  BY DEF Init, CallersReturned
<1>2. IInv /\ CallersReturned => QueueMoves
  <2> SUFFICES ASSUME IInv, CallersReturned PROVE QueueMoves
    OBVIOUS
  <2>1. ASSUME queue # <<>>, Holders(Calls) = {} PROVE FALSE
    <3>1. HeldBy(Reads, status) = {} /\ HeldBy(Writers, status) = {}
      BY <2>1 DEF Holders, HeldBy, Calls
    <3>2. activeReads = 0 /\ ~activeWriter
      BY <3>1, FS_EmptySet DEF IInv, Books
    <3>3. MayStart(queue, 1, activeReads)
      BY <3>2, CallAssumption DEF MayStart
    <3> QED BY <2>1, <3>2, <3>3 DEF IInv, NoIdleSlot
  <2>2. ASSUME NEW c \in Calls, NEW d \in Calls, status[c] \in Active
        PROVE  caller[d] # c
    BY <2>2, CallAssumption DEF CallersReturned, Active
  <2> QED BY <2>1, <2>2 DEF QueueMoves
<1> QED BY <1>1, <1>2, CallersNext, InvCorrect, PTL DEF Spec
=============================================================================
