------------------------------ MODULE SumProofs ------------------------------
(***************************************************************************)
(* Sums over finite sets, as the models write the totals the super block    *)
(* keeps: what MapThenSumSet computes, for every finite set and every       *)
(* function; and folds along the positions of a sequence.  The folds of the *)
(* library are recursive functions; induction is stated with sets of        *)
(* numbers, because a theorem with an operator as a parameter cannot be     *)
(* used by the provers.                                                     *)
(***************************************************************************)
EXTENDS Integers, FiniteSetsExt, FiniteSetTheorems, TLAPS

SumOver(f, S) == MapThenSumSet(LAMBDA x : f[x], S)

\* A set of numbers that is not empty has a least one.
LEMMA LeastNumber ==
  ASSUME NEW Q \in SUBSET Nat, Q # {}
  PROVE  \E n \in Q : \A m \in Q : n <= m
<1> DEFINE Lt == OpToRel(<, Nat)
<1>1. IsWellFoundedOn(Lt, Nat)
  BY NatLessThanWellFounded
<1> HIDE DEF Lt
<1>2. \E n \in Q : \A m \in Q : ~(<<m, n>> \in Lt)
  BY <1>1, WFMin
<1>3. \A m, n \in Nat : m < n => <<m, n>> \in Lt
  BY DEF Lt, OpToRel
<1>4. PICK n \in Q : \A m \in Q : ~(<<m, n>> \in Lt)
  BY <1>2
<1>5. \A m \in Q : ~(m < n)
  BY <1>3, <1>4
<1> QED BY <1>5

\* Induction over the natural numbers.
LEMMA SetInduction ==
  ASSUME NEW Q \in SUBSET Nat, 0 \in Q, \A n \in Q : n + 1 \in Q
  PROVE  Q = Nat
<1> SUFFICES ASSUME Nat \ Q # {} PROVE FALSE
  OBVIOUS
<1>1. Nat \ Q \in SUBSET Nat
  OBVIOUS
<1>2. PICK n \in Nat \ Q : \A m \in Nat \ Q : n <= m
  BY <1>1, LeastNumber
<1>3. n # 0 /\ n - 1 \in Nat
  BY <1>2
<1>4. n - 1 \in Q
  BY <1>2, <1>3
<1>5. (n - 1) + 1 \in Q
  BY <1>4
<1> QED BY <1>2, <1>3, <1>5

-----------------------------------------------------------------------------
Pick(s) == CHOOSE x \in s : TRUE

\* One step of the fold: the sum over s from the sums over the smaller sets.
FoldStep(f, it, s) == IF s = {} THEN 0 ELSE f[Pick(s)] + it[s \ {Pick(s)}]

\* An element taken from a finite set leaves one that has one element less.
LEMMA TakeAny ==
  ASSUME NEW S, IsFiniteSet(S), NEW s \in SUBSET S, s # {}
  PROVE  /\ Pick(s) \in s /\ s \ {Pick(s)} \in SUBSET S
         /\ IsFiniteSet(s) /\ Cardinality(s) \in Nat /\ Cardinality(s \ {Pick(s)}) \in Nat
         /\ Cardinality(s \ {Pick(s)}) = Cardinality(s) - 1
<1>1. Pick(s) \in s
  BY DEF Pick
<1>2. IsFiniteSet(s)
  BY FS_Subset
<1>3. /\ IsFiniteSet(s \ {Pick(s)})
      /\ Cardinality(s \ {Pick(s)}) =
           IF Pick(s) \in s THEN Cardinality(s) - 1 ELSE Cardinality(s)
  BY <1>2, FS_RemoveElement, Zenon
<1>4. Cardinality(s) \in Nat /\ Cardinality(s \ {Pick(s)}) \in Nat
  BY <1>2, <1>3, FS_CardinalityType
<1> QED BY <1>1, <1>2, <1>3, <1>4

\* The recursive function of the fold exists.
LEMMA FoldExists ==
  ASSUME NEW S, IsFiniteSet(S), NEW f
  PROVE  \E it : it = [s \in SUBSET S |-> FoldStep(f, it, s)]
<1> DEFINE Upto(it, n) ==
      \A s \in SUBSET S : Cardinality(s) <= n => it[s] = FoldStep(f, it, s)
    Q == {n \in Nat : \E it : Upto(it, n)}
<1>c. \A s \in SUBSET S : IsFiniteSet(s) /\ Cardinality(s) \in Nat
  BY FS_Subset, FS_CardinalityType
<1>1. 0 \in Q
  <2> DEFINE it == [s \in SUBSET S |-> 0]
  <2>1. ASSUME NEW s \in SUBSET S, Cardinality(s) <= 0 PROVE it[s] = FoldStep(f, it, s)
    <3>1. Cardinality(s) = 0
      BY <1>c, <2>1
    <3>2. s = {}
      BY <1>c, <3>1, FS_EmptySet
    <3> QED BY <3>2 DEF FoldStep
  <2> HIDE DEF it
  <2> QED BY <2>1
<1>2. ASSUME NEW n \in Q PROVE n + 1 \in Q
  <2>1. PICK it : Upto(it, n)
    OBVIOUS
  <2> DEFINE next == [s \in SUBSET S |-> FoldStep(f, it, s)]
  <2>2. ASSUME NEW s \in SUBSET S, Cardinality(s) <= n + 1
        PROVE  next[s] = FoldStep(f, next, s)
    <3>1. CASE s = {}
      BY <3>1 DEF FoldStep
    <3>2. CASE s # {}
      <4>1. /\ s \ {Pick(s)} \in SUBSET S /\ Cardinality(s) \in Nat
            /\ Cardinality(s \ {Pick(s)}) \in Nat
            /\ Cardinality(s \ {Pick(s)}) = Cardinality(s) - 1
        BY <3>2, TakeAny
      <4>2. Cardinality(s \ {Pick(s)}) <= n
        BY <2>2, <4>1
      <4>3. it[s \ {Pick(s)}] = FoldStep(f, it, s \ {Pick(s)})
        BY <2>1, <4>1, <4>2
      <4>4. next[s \ {Pick(s)}] = it[s \ {Pick(s)}]
        BY <4>1, <4>3
      <4>5. next[s] = FoldStep(f, it, s)
        OBVIOUS
      <4> HIDE DEF next
      <4> QED BY <4>4, <4>5 DEF FoldStep
    <3> QED BY <3>1, <3>2
  <2> HIDE DEF next
  <2>3. Upto(next, n + 1)
    BY <2>2
  <2> QED BY <2>3
<1>3. Cardinality(S) \in Nat
  BY FS_CardinalityType
<1>4. Cardinality(S) \in Q
  <2> HIDE DEF Q
  <2>1. Q \in SUBSET Nat
    BY DEF Q
  <2> QED BY <1>1, <1>2, <1>3, <2>1, SetInduction
<1>5. PICK it : Upto(it, Cardinality(S))
  BY <1>4
<1>6. \A s \in SUBSET S : it[s] = FoldStep(f, it, s)
  <2> TAKE s \in SUBSET S
  <2>1. Cardinality(s) <= Cardinality(S)
    BY FS_Subset
  <2> QED BY <1>5, <2>1
<1> DEFINE sum == [s \in SUBSET S |-> it[s]]
<1>7. ASSUME NEW s \in SUBSET S PROVE FoldStep(f, sum, s) = FoldStep(f, it, s)
  <2>1. CASE s = {}
    BY <2>1 DEF FoldStep
  <2>2. CASE s # {}
    <3>1. s \ {Pick(s)} \in SUBSET S
      BY <2>2, TakeAny
    <3>2. sum[s \ {Pick(s)}] = it[s \ {Pick(s)}]
      BY <3>1
    <3> HIDE DEF sum
    <3> QED BY <3>2 DEF FoldStep
  <2> QED BY <2>1, <2>2
<1>8. sum = [s \in SUBSET S |-> FoldStep(f, sum, s)]
  <2>1. \A s \in SUBSET S : it[s] = FoldStep(f, sum, s)
    <3> HIDE DEF sum
    <3> QED BY <1>6, <1>7
  <2> QED BY <2>1
<1> HIDE DEF sum
<1> QED BY <1>8

\* What MapThenSumSet computes: one element after the other is taken out.
LEMMA SumUnfolds ==
  ASSUME NEW S, IsFiniteSet(S), NEW f
  PROVE  \E it : /\ \A s \in SUBSET S : it[s] = FoldStep(f, it, s)
                 /\ SumOver(f, S) = it[S]
<1> DEFINE it == CHOOSE it : it = [s \in SUBSET S |-> FoldStep(f, it, s)]
<1>1. it = [s \in SUBSET S |-> FoldStep(f, it, s)]
  BY FoldExists
<1>2. SumOver(f, S) = it[S]
  BY DEF SumOver, MapThenSumSet, MapThenFoldSet, FoldStep, Pick
<1> HIDE DEF it
<1>3. \A s \in SUBSET S : it[s] = FoldStep(f, it, s)
  BY <1>1
<1> QED BY <1>2, <1>3

\* A sum of natural numbers is one.
LEMMA SumIsNatural ==
  ASSUME NEW S, IsFiniteSet(S), NEW f, \A x \in S : f[x] \in Nat
  PROVE  SumOver(f, S) \in Nat
<1>1. PICK it : /\ \A s \in SUBSET S : it[s] = FoldStep(f, it, s)
                /\ SumOver(f, S) = it[S]
  BY SumUnfolds
<1> DEFINE Q == {n \in Nat : \A s \in SUBSET S : Cardinality(s) = n => it[s] \in Nat}
<1>c. \A s \in SUBSET S : IsFiniteSet(s) /\ Cardinality(s) \in Nat
  BY FS_Subset, FS_CardinalityType
<1>2. 0 \in Q
  <2> SUFFICES ASSUME NEW s \in SUBSET S, Cardinality(s) = 0 PROVE it[s] \in Nat
    OBVIOUS
  <2>1. s = {}
    BY <1>c, FS_EmptySet
  <2> QED BY <1>1, <2>1 DEF FoldStep
<1>3. ASSUME NEW n \in Q PROVE n + 1 \in Q
  <2> SUFFICES ASSUME NEW s \in SUBSET S, Cardinality(s) = n + 1 PROVE it[s] \in Nat
    OBVIOUS
  <2>0. n \in Nat /\ Cardinality({}) = 0
    BY FS_EmptySet
  <2>1. s # {}
    <3> HIDE DEF Q
    <3> QED BY <2>0
  <2>2. /\ Pick(s) \in S /\ s \ {Pick(s)} \in SUBSET S
        /\ Cardinality(s \ {Pick(s)}) = n
    <3>1. /\ Pick(s) \in s /\ s \ {Pick(s)} \in SUBSET S
          /\ Cardinality(s \ {Pick(s)}) = Cardinality(s) - 1
      BY <2>1, TakeAny
    <3> QED BY <1>3, <3>1
  <2>3. it[s \ {Pick(s)}] \in Nat /\ f[Pick(s)] \in Nat
    BY <1>3, <2>2
  <2> QED BY <1>1, <2>1, <2>3 DEF FoldStep
<1>4. \A s \in SUBSET S : it[s] \in Nat
  <2>1. Q \in SUBSET Nat
    OBVIOUS
  <2>2. Q = Nat
    <3> HIDE DEF Q
    <3> QED BY <1>2, <1>3, <2>1, SetInduction
  <2> QED BY <1>c, <2>2
<1> QED BY <1>1, <1>4

\* When one term of a sum changes, the sum changes by as much.
LEMMA SumChanges ==
  ASSUME NEW S, IsFiniteSet(S), NEW f, NEW h, NEW g \in S,
         \A x \in S : f[x] \in Int /\ h[x] \in Int,
         \A x \in S : x # g => h[x] = f[x]
  PROVE  /\ SumOver(f, S) \in Int /\ SumOver(h, S) \in Int
         /\ SumOver(h, S) = SumOver(f, S) + (h[g] - f[g])
<1>1. PICK it : /\ \A s \in SUBSET S : it[s] = FoldStep(f, it, s)
                /\ SumOver(f, S) = it[S]
  BY SumUnfolds
<1>2. PICK jt : /\ \A s \in SUBSET S : jt[s] = FoldStep(h, jt, s)
                /\ SumOver(h, S) = jt[S]
  BY SumUnfolds
<1> DEFINE Same(s) == /\ it[s] \in Int /\ jt[s] \in Int
                      /\ jt[s] = it[s] + (IF g \in s THEN h[g] - f[g] ELSE 0)
           Q == {n \in Nat : \A s \in SUBSET S : Cardinality(s) = n => Same(s)}
<1>c. \A s \in SUBSET S : IsFiniteSet(s) /\ Cardinality(s) \in Nat
  BY FS_Subset, FS_CardinalityType
<1>3. 0 \in Q
  <2> SUFFICES ASSUME NEW s \in SUBSET S, Cardinality(s) = 0 PROVE Same(s)
    OBVIOUS
  <2>1. s = {}
    BY <1>c, FS_EmptySet
  <2>2. it[{}] = 0 /\ jt[{}] = 0
    BY <1>1, <1>2 DEF FoldStep
  <2> QED BY <2>1, <2>2
<1>4. ASSUME NEW n \in Q PROVE n + 1 \in Q
  <2> SUFFICES ASSUME NEW s \in SUBSET S, Cardinality(s) = n + 1 PROVE Same(s)
    OBVIOUS
  <2>0. n \in Nat /\ Cardinality({}) = 0
    BY FS_EmptySet
  <2>1. s # {}
    <3> HIDE DEF Q
    <3> QED BY <2>0
  <2> DEFINE a == Pick(s)
             u == s \ {a}
  <2>2. a \in s /\ a \in S /\ u \in SUBSET S /\ Cardinality(u) = n
    <3>1. /\ Pick(s) \in s /\ s \ {Pick(s)} \in SUBSET S
          /\ Cardinality(s \ {Pick(s)}) = Cardinality(s) - 1
      BY <2>1, TakeAny
    <3> QED BY <1>4, <3>1
  <2>3. Same(u)
    BY <1>4, <2>2
  <2>4. it[s] = f[a] + it[u] /\ jt[s] = h[a] + jt[u]
    BY <1>1, <1>2, <2>1 DEF FoldStep
  <2>5. f[a] \in Int /\ h[a] \in Int /\ (a # g => h[a] = f[a])
    BY <2>2
  <2>6. g \in s <=> g = a \/ g \in u
    BY <2>2
  <2>7. g = a => g \notin u
    OBVIOUS
  <2> HIDE DEF a, u
  <2>8. f[g] \in Int /\ h[g] \in Int
    OBVIOUS
  <2> QED BY <2>3, <2>4, <2>5, <2>6, <2>7, <2>8
<1>5. Same(S)
  <2>1. Q \in SUBSET Nat
    OBVIOUS
  <2>2. Q = Nat
    <3> HIDE DEF Q
    <3> QED BY <1>3, <1>4, <2>1, SetInduction
  <2> QED BY <1>c, <2>2
<1> QED BY <1>1, <1>2, <1>5

-----------------------------------------------------------------------------
\* A finite set of numbers has a bound.
LEMMA FiniteBound ==
  ASSUME NEW S \in SUBSET Nat, IsFiniteSet(S)
  PROVE  \E m \in Nat : \A x \in S : x <= m
<1> DEFINE Bounded(s) == \E m \in Nat : \A x \in s : x <= m
           Q == {n \in Nat : \A s \in SUBSET S : Cardinality(s) = n => Bounded(s)}
<1>c. \A s \in SUBSET S : IsFiniteSet(s) /\ Cardinality(s) \in Nat
  BY FS_Subset, FS_CardinalityType
<1> HIDE DEF Bounded
<1>1. 0 \in Q
  <2> SUFFICES ASSUME NEW s \in SUBSET S, Cardinality(s) = 0 PROVE Bounded(s)
    OBVIOUS
  <2>1. s = {}
    BY <1>c, FS_EmptySet
  <2>2. 0 \in Nat
    OBVIOUS
  <2>3. \A x \in s : x <= 0
    BY <2>1
  <2> QED BY <2>2, <2>3 DEF Bounded
<1>2. ASSUME NEW n \in Q PROVE n + 1 \in Q
  <2> SUFFICES ASSUME NEW s \in SUBSET S, Cardinality(s) = n + 1 PROVE Bounded(s)
    OBVIOUS
  <2>0. n \in Nat /\ Cardinality({}) = 0
    BY FS_EmptySet
  <2>1. s # {}
    <3> HIDE DEF Q
    <3> QED BY <2>0
  <2>2. /\ Pick(s) \in s /\ s \ {Pick(s)} \in SUBSET S
        /\ Cardinality(s \ {Pick(s)}) = n
    <3>1. /\ Pick(s) \in s /\ s \ {Pick(s)} \in SUBSET S
          /\ Cardinality(s \ {Pick(s)}) = Cardinality(s) - 1
      BY <2>1, TakeAny
    <3> QED BY <1>2, <3>1
  <2>3. PICK m \in Nat : \A x \in s \ {Pick(s)} : x <= m
    BY <1>2, <2>2 DEF Bounded
  <2> DEFINE k == IF Pick(s) <= m THEN m ELSE Pick(s)
  <2>4. k \in Nat /\ m <= k /\ Pick(s) <= k
    <3>1. Pick(s) \in Nat
      BY <2>2
    <3> QED BY <3>1
  <2> HIDE DEF k
  <2>5. \A x \in s : x <= k
    <3> TAKE x \in s
    <3>1. x \in Nat /\ (x = Pick(s) \/ x <= m)
      BY <2>2, <2>3
    <3> QED BY <2>4, <3>1
  <2> QED BY <2>4, <2>5 DEF Bounded
<1>3. Bounded(S)
  <2>1. Q \in SUBSET Nat
    OBVIOUS
  <2>2. Q = Nat
    <3> HIDE DEF Q
    <3> QED BY <1>1, <1>2, <2>1, SetInduction
  <2> QED BY <1>c, <2>2
<1> QED BY <1>3 DEF Bounded

\* A finite set of numbers that is not empty has a greatest one, and Max is it.
LEMMA GreatestNumber ==
  ASSUME NEW S \in SUBSET Nat, IsFiniteSet(S), S # {}
  PROVE  Max(S) \in S /\ \A x \in S : x <= Max(S)
<1> DEFINE Q == {m \in Nat : \A x \in S : x <= m}
<1>1. Q \in SUBSET Nat /\ Q # {}
  BY FiniteBound
<1>2. PICK m \in Q : \A k \in Q : m <= k
  BY <1>1, LeastNumber
<1>3. m \in S
  <2> SUFFICES ASSUME m \notin S PROVE FALSE
    OBVIOUS
  <2>1. \A x \in S : x \in Nat /\ x <= m /\ x # m
    BY <1>2
  <2>2. \A x \in S : x <= m - 1
    BY <1>2, <2>1
  <2>3. m - 1 \in Nat
    <3>1. PICK x \in S : TRUE
      OBVIOUS
    <3>2. x \in Nat /\ x <= m /\ x # m /\ m \in Nat
      BY <1>2, <2>1
    <3> QED BY <3>2
  <2>4. m - 1 \in Q
    BY <2>2, <2>3
  <2> QED BY <1>2, <2>4
<1>4. \E x \in S : \A y \in S : x >= y
  BY <1>2, <1>3
<1>5. Max(S) \in S /\ \A y \in S : Max(S) >= y
  BY <1>4, Zenon DEF Max
<1> QED BY <1>5

-----------------------------------------------------------------------------
(* Folds over a sequence.  FoldLeft takes the greatest of the positions that *)
(* are left; its recursive function exists when the operator is total on a   *)
(* set the results stay in.  The operator is given as a function G.          *)

\* One step of the fold over the positions s.
RunStep(base, G, it, s) == IF s = {} THEN base ELSE G[<<it[s \ {Max(s)}], Max(s)>>]
IsRun(n, base, G, it) == it = [s \in SUBSET (1 .. n) |-> RunStep(base, G, it, s)]

\* The last of a set of positions.
LEMMA TakeLast ==
  ASSUME NEW n \in Nat, NEW s \in SUBSET (1 .. n), s # {}
  PROVE  /\ Max(s) \in s /\ s \ {Max(s)} \in SUBSET (1 .. n)
         /\ Cardinality(s) \in Nat /\ Cardinality(s \ {Max(s)}) = Cardinality(s) - 1
<1>1. IsFiniteSet(1 .. n)
  BY FS_Interval
<1>2. IsFiniteSet(s)
  BY <1>1, FS_Subset
<1>3. Max(s) \in s
  <2>1. s \in SUBSET Nat
    OBVIOUS
  <2> QED BY <1>2, <2>1, GreatestNumber
<1>4. Cardinality(s \ {Max(s)}) = IF Max(s) \in s THEN Cardinality(s) - 1 ELSE Cardinality(s)
  BY <1>2, FS_RemoveElement, Zenon
<1>5. Cardinality(s) \in Nat
  BY <1>2, FS_CardinalityType
<1> QED BY <1>3, <1>4, <1>5

\* The recursive function of a fold exists, and its values stay in the set.
LEMMA RunExists ==
  ASSUME NEW n \in Nat, NEW A, NEW base \in A, NEW G \in [A \X (1 .. n) -> A]
  PROVE  \E it : IsRun(n, base, G, it) /\ \A s \in SUBSET (1 .. n) : it[s] \in A
<1> DEFINE P == SUBSET (1 .. n)
    Upto(it, m) ==
      \A s \in P : Cardinality(s) <= m => it[s] = RunStep(base, G, it, s) /\ it[s] \in A
    Q == {m \in Nat : \E it : Upto(it, m)}
<1>f. IsFiniteSet(1 .. n)
  BY FS_Interval
<1>c. \A s \in P : IsFiniteSet(s) /\ Cardinality(s) \in Nat
  BY <1>f, FS_Subset, FS_CardinalityType
<1>1. 0 \in Q
  <2> DEFINE it == [s \in P |-> base]
  <2>1. ASSUME NEW s \in P, Cardinality(s) <= 0
        PROVE  it[s] = RunStep(base, G, it, s) /\ it[s] \in A
    <3>1. Cardinality(s) = 0
      BY <1>c, <2>1
    <3>2. s = {}
      BY <1>c, <3>1, FS_EmptySet
    <3> QED BY <3>2 DEF RunStep
  <2> HIDE DEF it
  <2> QED BY <2>1
<1>2. ASSUME NEW m \in Q PROVE m + 1 \in Q
  <2>1. PICK it : Upto(it, m)
    OBVIOUS
  <2> DEFINE next == [s \in P |-> RunStep(base, G, it, s)]
  <2>2. ASSUME NEW s \in P, Cardinality(s) <= m + 1
        PROVE  next[s] = RunStep(base, G, next, s) /\ next[s] \in A
    <3>1. CASE s = {}
      BY <3>1 DEF RunStep
    <3>2. CASE s # {}
      <4>1. /\ Max(s) \in 1 .. n /\ s \ {Max(s)} \in P /\ Cardinality(s) \in Nat
            /\ Cardinality(s \ {Max(s)}) = Cardinality(s) - 1
        BY <3>2, TakeLast
      <4>2. Cardinality(s \ {Max(s)}) <= m
        BY <2>2, <4>1
      <4>3. /\ it[s \ {Max(s)}] = RunStep(base, G, it, s \ {Max(s)})
            /\ it[s \ {Max(s)}] \in A
        BY <2>1, <4>1, <4>2
      <4>4. next[s \ {Max(s)}] = it[s \ {Max(s)}]
        BY <4>1, <4>3
      <4>5. next[s] = RunStep(base, G, it, s)
        OBVIOUS
      <4> HIDE DEF next
      <4>6. next[s] = RunStep(base, G, next, s)
        BY <4>4, <4>5 DEF RunStep
      <4>7. next[s] = G[<<it[s \ {Max(s)}], Max(s)>>]
        BY <3>2, <4>5 DEF RunStep
      <4>8. <<it[s \ {Max(s)}], Max(s)>> \in A \X (1 .. n)
        BY <4>1, <4>3
      <4> QED BY <4>6, <4>7, <4>8
    <3> QED BY <3>1, <3>2
  <2> HIDE DEF next
  <2>3. Upto(next, m + 1)
    BY <2>2
  <2> QED BY <2>3
<1>3. Cardinality(1 .. n) \in Nat /\ Cardinality(1 .. n) \in Q
  <2> HIDE DEF Q
  <2>1. Q \in SUBSET Nat
    BY DEF Q
  <2>2. Cardinality(1 .. n) \in Nat
    BY <1>c
  <2> QED BY <1>1, <1>2, <2>1, <2>2, SetInduction
<1>4. PICK it : Upto(it, Cardinality(1 .. n))
  BY <1>3
<1>5. \A s \in P : it[s] = RunStep(base, G, it, s) /\ it[s] \in A
  <2> TAKE s \in P
  <2>1. Cardinality(s) <= Cardinality(1 .. n)
    BY <1>f, FS_Subset
  <2> QED BY <1>4, <2>1
<1> DEFINE run == [s \in P |-> it[s]]
<1>6. ASSUME NEW s \in P PROVE RunStep(base, G, run, s) = RunStep(base, G, it, s)
  <2>1. CASE s = {}
    BY <2>1 DEF RunStep
  <2>2. CASE s # {}
    <3>1. s \ {Max(s)} \in P
      BY <2>2, TakeLast
    <3>2. run[s \ {Max(s)}] = it[s \ {Max(s)}]
      BY <3>1
    <3> HIDE DEF run
    <3> QED BY <3>2 DEF RunStep
  <2> QED BY <2>1, <2>2
<1>7. \A s \in P : run[s] = RunStep(base, G, it, s) /\ run[s] \in A
  BY <1>5
<1>8. run = [s \in P |-> run[s]]
  OBVIOUS
<1> HIDE DEF run
<1>9. \A s \in P : run[s] = RunStep(base, G, run, s)
  BY <1>6, <1>7
<1>10. run = [s \in P |-> RunStep(base, G, run, s)]
  BY <1>8, <1>9
<1> QED BY <1>7, <1>10 DEF IsRun

\* The positions up to k: the last of them, and those in front of it.
LEMMA PrefixOf ==
  ASSUME NEW n \in Nat, NEW k \in 1 .. n
  PROVE  /\ Max(1 .. k) = k /\ (1 .. k) \ {k} = 1 .. (k - 1)
         /\ 1 .. k \in SUBSET (1 .. n) /\ 1 .. k # {}
<1>1. 1 .. k \in SUBSET (1 .. n) /\ k \in 1 .. k
  OBVIOUS
<1>2. Max(1 .. k) \in 1 .. k /\ \A x \in 1 .. k : x <= Max(1 .. k)
  <2>1. IsFiniteSet(1 .. k) /\ 1 .. k \in SUBSET Nat
    BY FS_Interval
  <2> QED BY <1>1, <2>1, GreatestNumber
<1>3. Max(1 .. k) = k
  BY <1>1, <1>2
<1>4. (1 .. k) \ {k} = 1 .. (k - 1)
  OBVIOUS
<1> QED BY <1>1, <1>3, <1>4
=============================================================================
