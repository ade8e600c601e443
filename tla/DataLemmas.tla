----------------------------- MODULE DataLemmas -----------------------------
(***************************************************************************)
(* Facts about data that several proofs need: the least element of a set   *)
(* of naturals, cardinalities, and the sum of weights over a finite set.   *)
(* A sum is a fold, and a fold is a recursive function on the subsets of   *)
(* the set; that this function exists, and that the sum does not depend on *)
(* the order of the elements, is shown for a smallest counterexample.      *)
(***************************************************************************)
EXTENDS FiniteSetsExt, FiniteSetTheorems, WellFoundedInduction, TLAPS

(* A nonempty set of natural numbers has a least element.                  *)
LEMMA LeastOf ==
  ASSUME NEW T \in SUBSET Nat, T # {}
  PROVE  \E n \in T : \A i \in T : n <= i
<1> DEFINE less == {ss \in Nat \X Nat : ss[1] < ss[2]}
<1>1. less = OpToRel(<, Nat)
  BY DEF OpToRel
<1>2. IsWellFoundedOn(less, Nat)
  BY <1>1, NatLessThanWellFounded
<1> HIDE DEF less
<1>3. PICK n \in T : \A m \in T : <<m, n>> \notin less
  BY <1>2, WFMin
<1>4. \A m \in T : ~(m < n)
  BY <1>3 DEF less
<1> QED BY <1>4

(* Induction over the finite subsets of T, for a set G of good ones.        *)
LEMMA FiniteInduction ==
  ASSUME NEW T, NEW G \in SUBSET (SUBSET T),
         \A s \in SUBSET T :
           /\ IsFiniteSet(s)
           /\ \A r \in SUBSET T :
                IsFiniteSet(r) /\ Cardinality(r) < Cardinality(s) => r \in G
           => s \in G
  PROVE  \A s \in SUBSET T : IsFiniteSet(s) => s \in G
<1> DEFINE Bad == {n \in Nat : \E s \in SUBSET T :
                     IsFiniteSet(s) /\ Cardinality(s) = n /\ s \notin G}
<1>1. Bad = {}
  <2> SUFFICES ASSUME Bad # {} PROVE FALSE
    OBVIOUS
  <2>1. PICK n \in Bad : \A i \in Bad : n <= i
    <3>1. Bad \in SUBSET Nat
      OBVIOUS
    <3> HIDE DEF Bad
    <3> QED BY <3>1, LeastOf
  <2>2. PICK s \in SUBSET T : IsFiniteSet(s) /\ Cardinality(s) = n /\ s \notin G
    BY <2>1
  <2>3. PICK r \in SUBSET T :
          IsFiniteSet(r) /\ Cardinality(r) < Cardinality(s) /\ r \notin G
    BY <2>2
  <2>4. Cardinality(r) \in Bad /\ Cardinality(r) \in Nat
    BY <2>3, FS_CardinalityType
  <2> QED BY <2>1, <2>2, <2>3, <2>4
<1> QED BY <1>1, FS_CardinalityType

(* How the size of a set moves when a set is got from it by at most one    *)
(* new element, by taking one out, or by putting one in its place.         *)
LEMMA AddedOne ==
  ASSUME NEW X, IsFiniteSet(X), NEW a, NEW Y \in SUBSET (X \cup {a})
  PROVE  /\ IsFiniteSet(Y) /\ Cardinality(X) \in Nat /\ Cardinality(Y) \in Nat
         /\ Cardinality(Y) <= Cardinality(X) + 1
<1>1. /\ IsFiniteSet(X \cup {a}) /\ Cardinality(X) \in Nat
      /\ Cardinality(X \cup {a}) <= Cardinality(X) + 1
  BY FS_AddElement, FS_CardinalityType
<1>2. /\ IsFiniteSet(Y) /\ Cardinality(Y) \in Nat
      /\ Cardinality(Y) <= Cardinality(X \cup {a}) /\ Cardinality(X \cup {a}) \in Nat
  BY <1>1, FS_Subset, FS_CardinalityType
<1> QED BY <1>1, <1>2

LEMMA LostOne ==
  ASSUME NEW X, IsFiniteSet(X), NEW a \in X, NEW Y \in SUBSET (X \ {a})
  PROVE  /\ IsFiniteSet(Y) /\ Cardinality(X) \in Nat /\ Cardinality(Y) \in Nat
         /\ Cardinality(Y) <= Cardinality(X) - 1
<1>1. /\ IsFiniteSet(X \ {a}) /\ Cardinality(X) \in Nat
      /\ Cardinality(X \ {a}) = Cardinality(X) - 1
  BY FS_RemoveElement, FS_CardinalityType
<1>2. IsFiniteSet(Y) /\ Cardinality(Y) \in Nat /\ Cardinality(Y) <= Cardinality(X \ {a})
  BY <1>1, FS_Subset, FS_CardinalityType
<1> QED BY <1>1, <1>2

LEMMA SwappedOne ==
  ASSUME NEW X, IsFiniteSet(X), NEW a \in X, NEW b, NEW Y \in SUBSET ((X \ {a}) \cup {b})
  PROVE  /\ IsFiniteSet(Y) /\ Cardinality(X) \in Nat /\ Cardinality(Y) \in Nat
         /\ Cardinality(Y) <= Cardinality(X)
<1>1. /\ IsFiniteSet(X \ {a}) /\ Cardinality(X) \in Nat
      /\ Cardinality(X \ {a}) = Cardinality(X) - 1
  BY FS_RemoveElement, FS_CardinalityType
<1>2. /\ IsFiniteSet(Y) /\ Cardinality(Y) \in Nat
      /\ Cardinality(Y) <= Cardinality(X \ {a}) + 1
  BY <1>1, AddedOne
<1> QED BY <1>1, <1>2

-----------------------------------------------------------------------------
(* The sum of the weights of the elements of S.                            *)
Weight(w, S) == MapThenSumSet(LAMBDA t : w[t], S)

Pick(s) == CHOOSE x \in s : TRUE

Rule(w, s, f) == IF s = {} THEN 0 ELSE w[Pick(s)] + f[s \ {Pick(s)}]

Table(w, S) == CHOOSE f : f = [s \in SUBSET S |-> Rule(w, s, f)]

(* The fold behind the sum.                                                *)
LEMMA WeightIsTable ==
  ASSUME NEW w, NEW S
  PROVE  Weight(w, S) = Table(w, S)[S]
BY DEF Weight, MapThenSumSet, MapThenFoldSet, Table, Rule, Pick

(* What is left when the chosen element is taken out.                      *)
LEMMA Smaller ==
  ASSUME NEW s, IsFiniteSet(s), s # {}
  PROVE  /\ Pick(s) \in s
         /\ IsFiniteSet(s \ {Pick(s)})
         /\ Cardinality(s) \in Nat /\ Cardinality(s \ {Pick(s)}) \in Nat
         /\ Cardinality(s \ {Pick(s)}) = Cardinality(s) - 1
<1>1. Pick(s) \in s
  BY DEF Pick
<1> QED BY <1>1, FS_RemoveElement, FS_CardinalityType

(* The table exists: it is right for all subsets of up to n elements, for  *)
(* every n.                                                                *)
LEMMA TableRule ==
  ASSUME NEW w, NEW S, IsFiniteSet(S)
  PROVE  Table(w, S) = [s \in SUBSET S |-> Rule(w, s, Table(w, S))]
<1> DEFINE Right(f, n) ==
             \A s \in SUBSET S : Cardinality(s) <= n => f[s] = Rule(w, s, f)
           Bad == {n \in Nat : ~\E f : Right(f, n)}
<1>1. \A s \in SUBSET S : IsFiniteSet(s) /\ Cardinality(s) \in Nat
  BY FS_Subset, FS_CardinalityType
<1>2. Bad = {}
  <2> SUFFICES ASSUME Bad # {} PROVE FALSE
    OBVIOUS
  <2>1. PICK n \in Bad : \A i \in Bad : n <= i
    <3>1. Bad \in SUBSET Nat
      OBVIOUS
    <3> HIDE DEF Bad
    <3> QED BY <3>1, LeastOf
  <2>2. n # 0
    <3> SUFFICES ASSUME n = 0 PROVE FALSE
      OBVIOUS
    <3> DEFINE f == [s \in SUBSET S |-> 0]
    <3>1. Right(f, 0)
      BY <1>1, FS_EmptySet DEF Rule
    <3> QED BY <3>1
  <2>3. n - 1 \in Nat /\ n - 1 \notin Bad
    BY <2>1, <2>2
  <2>4. PICK f : Right(f, n - 1)
    BY <2>3
  <2> DEFINE g == [s \in SUBSET S |-> Rule(w, s, f)]
  <2>5. ASSUME NEW s \in SUBSET S, Cardinality(s) <= n PROVE g[s] = Rule(w, s, g)
    <3>1. CASE s = {}
      BY <3>1 DEF Rule
    <3>2. CASE s # {}
      <4> DEFINE r == s \ {Pick(s)}
      <4>1. r \in SUBSET S /\ Cardinality(r) <= n - 1
        BY <1>1, <2>5, <3>2, Smaller
      <4>2. f[r] = Rule(w, r, f)
        BY <2>4, <4>1
      <4>3. g[r] = f[r]
        BY <4>1, <4>2
      <4> QED BY <3>2, <4>3 DEF Rule
    <3> QED BY <3>1, <3>2
  <2>6. Right(g, n)
    BY <2>5
  <2> HIDE DEF g, Right
  <2> QED BY <2>6
<1>3. PICK f : Right(f, Cardinality(S))
  BY <1>1, <1>2
<1>4. \A s \in SUBSET S : f[s] = Rule(w, s, f)
  BY <1>1, <1>3, FS_Subset
<1> DEFINE g == [s \in SUBSET S |-> f[s]]
<1>5. g = [s \in SUBSET S |-> Rule(w, s, g)]
  <2>1. \A s \in SUBSET S : Rule(w, s, g) = Rule(w, s, f)
    BY DEF Rule
  <2> QED BY <1>4, <2>1
<1> HIDE DEF g
<1>6. \E h : h = [s \in SUBSET S |-> Rule(w, s, h)]
  BY <1>5
<1> QED BY <1>6 DEF Table

(* The tables of two sets agree on the subsets of both.                    *)
LEMMA TablesAgree ==
  ASSUME NEW w, NEW S, IsFiniteSet(S), NEW T \in SUBSET S
  PROVE  Weight(w, T) = Table(w, S)[T]
<1> DEFINE G == {s \in SUBSET T : Table(w, T)[s] = Table(w, S)[s]}
<1>1. IsFiniteSet(T)
  BY FS_Subset
<1>2. \A s \in SUBSET T : /\ Table(w, T)[s] = Rule(w, s, Table(w, T))
                         /\ Table(w, S)[s] = Rule(w, s, Table(w, S))
  <2> DEFINE f == Table(w, T)
             g == Table(w, S)
  <2>1. f = [s \in SUBSET T |-> Rule(w, s, f)] /\ g = [s \in SUBSET S |-> Rule(w, s, g)]
    BY <1>1, TableRule
  <2> HIDE DEF f, g
  <2>2. \A s \in SUBSET T : f[s] = Rule(w, s, f) /\ g[s] = Rule(w, s, g)
    BY <2>1
  <2> QED BY <2>2 DEF f, g
<1>3. ASSUME NEW s \in SUBSET T, IsFiniteSet(s),
             \A r \in SUBSET T :
               IsFiniteSet(r) /\ Cardinality(r) < Cardinality(s) => r \in G
      PROVE  s \in G
  <2>0. IsFiniteSet(s)
    BY <1>3
  <2>1. CASE s = {}
    BY <1>2, <2>1 DEF Rule
  <2>2. CASE s # {}
    <3>1. s \ {Pick(s)} \in G
      <4>1. /\ IsFiniteSet(s \ {Pick(s)})
            /\ Cardinality(s \ {Pick(s)}) < Cardinality(s)
        BY <2>0, <2>2, Smaller
      <4> HIDE DEF G
      <4> QED BY <1>3, <4>1
    <3> QED BY <1>2, <2>2, <3>1 DEF Rule
  <2> QED BY <2>1, <2>2
<1>4. T \in G
  <2>1. G \in SUBSET (SUBSET T)
    OBVIOUS
  <2> HIDE DEF G
  <2> QED BY <1>1, <1>3, <2>1, FiniteInduction
<1> QED BY <1>4, WeightIsTable

(* The sum of nothing, and the sum with the chosen element split off.      *)
LEMMA WeightRule ==
  ASSUME NEW w, NEW S, IsFiniteSet(S)
  PROVE  /\ S = {} => Weight(w, S) = 0
         /\ S # {} => Weight(w, S) = w[Pick(S)] + Weight(w, S \ {Pick(S)})
<1>1. Table(w, S)[S] = Rule(w, S, Table(w, S))
  <2> DEFINE g == Table(w, S)
  <2>1. g = [s \in SUBSET S |-> Rule(w, s, g)]
    BY TableRule
  <2> HIDE DEF g
  <2>2. g[S] = Rule(w, S, g)
    BY <2>1
  <2> QED BY <2>2 DEF g
<1>2. Weight(w, S \ {Pick(S)}) = Table(w, S)[S \ {Pick(S)}]
  BY TablesAgree
<1> QED BY <1>1, <1>2, WeightIsTable DEF Rule

(* A sum of naturals is a natural.                                         *)
LEMMA WeightType ==
  ASSUME NEW T, NEW w \in [T -> Nat], NEW S \in SUBSET T, IsFiniteSet(S)
  PROVE  Weight(w, S) \in Nat
<1> DEFINE G == {s \in SUBSET T : Weight(w, s) \in Nat}
<1>1. ASSUME NEW s \in SUBSET T, IsFiniteSet(s),
             \A r \in SUBSET T :
               IsFiniteSet(r) /\ Cardinality(r) < Cardinality(s) => r \in G
      PROVE  s \in G
  <2>0. IsFiniteSet(s)
    BY <1>1
  <2>1. CASE s = {}
    <3>1. Weight(w, s) = 0
      BY <2>0, <2>1, WeightRule
    <3> QED BY <3>1
  <2>2. CASE s # {}
    <3>1. Pick(s) \in s /\ s \ {Pick(s)} \in G
      <4>1. /\ Pick(s) \in s /\ IsFiniteSet(s \ {Pick(s)})
            /\ Cardinality(s \ {Pick(s)}) < Cardinality(s)
        BY <2>0, <2>2, Smaller
      <4> HIDE DEF G
      <4> QED BY <1>1, <4>1
    <3>2. Weight(w, s) = w[Pick(s)] + Weight(w, s \ {Pick(s)})
      BY <2>0, <2>2, WeightRule
    <3>3. w[Pick(s)] \in Nat /\ Weight(w, s \ {Pick(s)}) \in Nat
      BY <3>1
    <3> QED BY <3>2, <3>3
  <2> QED BY <2>1, <2>2
<1>2. G \in SUBSET (SUBSET T)
  OBVIOUS
<1>3. S \in G
  <2> HIDE DEF G
  <2> QED BY <1>1, <1>2, FiniteInduction
<1> QED BY <1>3

(* The order of the sum does not matter: any element can be split off.     *)
LEMMA WeightWithout ==
  ASSUME NEW T, NEW w \in [T -> Nat], NEW S \in SUBSET T, IsFiniteSet(S), NEW t \in S
  PROVE  Weight(w, S) = w[t] + Weight(w, S \ {t})
<1> DEFINE G == {s \in SUBSET T :
                   \A e \in s : Weight(w, s) = w[e] + Weight(w, s \ {e})}
<1>1. ASSUME NEW s \in SUBSET T, IsFiniteSet(s),
             \A r \in SUBSET T :
               IsFiniteSet(r) /\ Cardinality(r) < Cardinality(s) => r \in G,
             NEW e \in s
      PROVE  Weight(w, s) = w[e] + Weight(w, s \ {e})
  <2> DEFINE p == Pick(s)
  <2>1. p \in s /\ Weight(w, s) = w[p] + Weight(w, s \ {p})
    BY <1>1, WeightRule, Smaller
  <2> HIDE DEF p
  <2>2. CASE p = e
    BY <2>1, <2>2
  <2>3. CASE p # e
    <3>1. ASSUME NEW x \in s
          PROVE  /\ s \ {x} \in SUBSET T /\ IsFiniteSet(s \ {x})
                 /\ Cardinality(s \ {x}) < Cardinality(s)
      <4>1. IsFiniteSet(s \ {x}) /\ Cardinality(s \ {x}) = Cardinality(s) - 1
        BY <1>1, FS_RemoveElement
      <4>2. Cardinality(s) \in Nat
        BY <1>1, FS_CardinalityType
      <4> QED BY <4>1, <4>2
    <3>2. s \ {p} \in G /\ s \ {e} \in G
      BY <1>1, <2>1, <3>1
    <3>3. e \in s \ {p} /\ p \in s \ {e} /\ (s \ {p}) \ {e} = (s \ {e}) \ {p}
      BY <2>1, <2>3
    <3> DEFINE rest == Weight(w, (s \ {e}) \ {p})
    <3>4. Weight(w, s \ {p}) = w[e] + rest /\ Weight(w, s \ {e}) = w[p] + rest
      BY <3>2, <3>3
    <3>5. rest \in Nat /\ w[e] \in Nat /\ w[p] \in Nat
      BY <2>1, <3>1, FS_RemoveElement, WeightType
    <3> HIDE DEF rest
    <3> QED BY <2>1, <3>4, <3>5
  <2> QED BY <2>2, <2>3
<1>2. G \in SUBSET (SUBSET T)
  OBVIOUS
<1>3. \A s \in SUBSET T :
        /\ IsFiniteSet(s)
        /\ \A r \in SUBSET T :
             IsFiniteSet(r) /\ Cardinality(r) < Cardinality(s) => r \in G
        => s \in G
  BY <1>1
<1>4. S \in G
  <2> HIDE DEF G
  <2> QED BY <1>2, <1>3, FiniteInduction
<1> QED BY <1>4

(* The same, for a new element that is put in.                             *)
LEMMA WeightWith ==
  ASSUME NEW T, NEW w \in [T -> Nat], NEW S \in SUBSET T, IsFiniteSet(S),
         NEW t \in T \ S
  PROVE  Weight(w, S \cup {t}) = Weight(w, S) + w[t]
<1>1. IsFiniteSet(S \cup {t}) /\ (S \cup {t}) \ {t} = S /\ S \cup {t} \in SUBSET T
  BY FS_AddElement
<1>2. Weight(w, S \cup {t}) = w[t] + Weight(w, S)
  BY <1>1, WeightWithout
<1>3. Weight(w, S) \in Nat /\ w[t] \in Nat
  BY WeightType
<1> QED BY <1>2, <1>3
=============================================================================
