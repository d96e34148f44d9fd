--------------------------- MODULE DirectoryProofs ---------------------------
(***************************************************************************)
(* Proofs about Directory for every set of names, every size and hash of    *)
(* theirs and every size of block, index and disk: its types, that the      *)
(* records of every block tile it, that no name is lost or listed twice,    *)
(* and that the index leads to every name, through splits of records,       *)
(* merges, upgrades and splits of leaves.                                   *)
(***************************************************************************)
EXTENDS Directory, SumProofs, FiniteSetTheorems, SequenceTheorems, TLAPS

Records == [len : 1 .. BlockLen, name : Names \cup Dots \cup {Hole}]
FileRecords == [len : 1 .. BlockLen, name : Names \cup {Hole}]

\* The place of the name i in a sequence is that of no other.
Injective(s) == \A i, j \in DOMAIN s : s[i] = s[j] => i = j

-----------------------------------------------------------------------------
(* Sequences.                                                               *)

LEMMA InsertAtProperties ==
  ASSUME NEW S, NEW s \in Seq(S), NEW e \in S, NEW i \in 1 .. Len(s) + 1
  PROVE  /\ InsertAt(s, i, e) \in Seq(S)
         /\ Len(InsertAt(s, i, e)) = Len(s) + 1
         /\ \A j \in 1 .. Len(s) + 1 :
              InsertAt(s, i, e)[j] = IF j < i THEN s[j] ELSE IF j = i THEN e ELSE s[j - 1]
<1> DEFINE a == SubSeq(s, 1, i - 1)
           b == SubSeq(s, i, Len(s))
<1>0. Len(s) \in Nat /\ i \in Int /\ \A j \in 1 .. Len(s) : s[j] \in S
  BY LenProperties
<1>1. a \in Seq(S) /\ Len(a) = i - 1 /\ \A j \in 1 .. i - 1 : a[j] = s[j]
  <2>1. \A j \in 1 .. i - 1 : s[j] \in S
    BY <1>0
  <2> HIDE DEF a
  <2>2. /\ a \in Seq(S)
        /\ Len(a) = IF 1 <= i - 1 THEN (i - 1) - 1 + 1 ELSE 0
        /\ \A j \in 1 .. (i - 1) - 1 + 1 : a[j] = s[1 + j - 1]
    BY <1>0, <2>1, SubSeqProperties DEF a
  <2> QED BY <1>0, <2>2
<1>2. b \in Seq(S) /\ Len(b) = Len(s) - i + 1 /\ \A j \in 1 .. Len(s) - i + 1 : b[j] = s[j + i - 1]
  <2>1. \A j \in i .. Len(s) : s[j] \in S
    BY <1>0
  <2> HIDE DEF b
  <2>2. /\ b \in Seq(S)
        /\ Len(b) = IF i <= Len(s) THEN Len(s) - i + 1 ELSE 0
        /\ \A j \in 1 .. Len(s) - i + 1 : b[j] = s[i + j - 1]
    BY <1>0, <2>1, SubSeqProperties DEF b
  <2> QED BY <1>0, <2>2
<1>3. InsertAt(s, i, e) = a \o <<e>> \o b
  BY DEF InsertAt
<1> HIDE DEF a, b
<1>4. /\ <<e>> \in Seq(S) /\ Len(<<e>>) = 1 /\ <<e>>[1] = e
  OBVIOUS
<1> DEFINE c == a \o <<e>>
<1>5. /\ c \in Seq(S) /\ Len(c) = i
      /\ \A j \in 1 .. i : c[j] = IF j < i THEN s[j] ELSE e
  <2>1. /\ c \in Seq(S) /\ Len(c) = Len(a) + 1
        /\ \A j \in 1 .. Len(a) + 1 : c[j] = IF j <= Len(a) THEN a[j] ELSE <<e>>[j - Len(a)]
    BY <1>1, <1>4, ConcatProperties
  <2> QED BY <1>0, <1>1, <1>4, <2>1
<1> HIDE DEF c
<1>6. InsertAt(s, i, e) = c \o b
  BY <1>3 DEF c
<1>7. /\ c \o b \in Seq(S) /\ Len(c \o b) = Len(c) + Len(b)
      /\ \A j \in 1 .. Len(c) + Len(b) : (c \o b)[j] = IF j <= Len(c) THEN c[j] ELSE b[j - Len(c)]
  BY <1>2, <1>5, ConcatProperties
<1> QED BY <1>0, <1>2, <1>5, <1>6, <1>7

LEMMA RemoveAtProperties ==
  ASSUME NEW S, NEW s \in Seq(S), NEW i \in 1 .. Len(s)
  PROVE  /\ RemoveAt(s, i) \in Seq(S)
         /\ Len(RemoveAt(s, i)) = Len(s) - 1
         /\ \A j \in 1 .. Len(s) - 1 : RemoveAt(s, i)[j] = IF j < i THEN s[j] ELSE s[j + 1]
<1> DEFINE a == SubSeq(s, 1, i - 1)
           b == SubSeq(s, i + 1, Len(s))
<1>0. Len(s) \in Nat /\ i \in Int /\ \A j \in 1 .. Len(s) : s[j] \in S
  BY LenProperties
<1>1. a \in Seq(S) /\ Len(a) = i - 1 /\ \A j \in 1 .. i - 1 : a[j] = s[j]
  <2>1. \A j \in 1 .. i - 1 : s[j] \in S
    BY <1>0
  <2> HIDE DEF a
  <2>2. /\ a \in Seq(S)
        /\ Len(a) = IF 1 <= i - 1 THEN (i - 1) - 1 + 1 ELSE 0
        /\ \A j \in 1 .. (i - 1) - 1 + 1 : a[j] = s[1 + j - 1]
    BY <1>0, <2>1, SubSeqProperties DEF a
  <2> QED BY <1>0, <2>2
<1>2. b \in Seq(S) /\ Len(b) = Len(s) - i /\ \A j \in 1 .. Len(s) - i : b[j] = s[j + i]
  <2>1. \A j \in i + 1 .. Len(s) : s[j] \in S
    BY <1>0
  <2> HIDE DEF b
  <2>2. /\ b \in Seq(S)
        /\ Len(b) = IF i + 1 <= Len(s) THEN Len(s) - (i + 1) + 1 ELSE 0
        /\ \A j \in 1 .. Len(s) - (i + 1) + 1 : b[j] = s[(i + 1) + j - 1]
    BY <1>0, <2>1, SubSeqProperties DEF b
  <2> QED BY <1>0, <2>2
<1>3. RemoveAt(s, i) = a \o b
  BY DEF RemoveAt
<1> HIDE DEF a, b
<1>4. /\ a \o b \in Seq(S) /\ Len(a \o b) = Len(a) + Len(b)
      /\ \A j \in 1 .. Len(a) + Len(b) : (a \o b)[j] = IF j <= Len(a) THEN a[j] ELSE b[j - Len(a)]
  BY <1>1, <1>2, ConcatProperties
<1> DEFINE c == a \o b
<1>5. RemoveAt(s, i) = c /\ c \in Seq(S)
  BY <1>3, <1>4
<1>6. Len(c) = Len(s) - 1
  BY <1>0, <1>1, <1>2, <1>4
<1>7. \A j \in 1 .. Len(s) - 1 : c[j] = IF j <= i - 1 THEN a[j] ELSE b[j - (i - 1)]
  BY <1>0, <1>1, <1>2, <1>4
<1> HIDE DEF c
<1>8. ASSUME NEW j \in 1 .. Len(s) - 1 PROVE c[j] = IF j < i THEN s[j] ELSE s[j + 1]
  <2>1. CASE j < i
    BY <1>0, <1>1, <1>7, <2>1
  <2>2. CASE ~(j < i)
    <3>1. j - (i - 1) \in 1 .. Len(s) - i /\ j - (i - 1) + i = j + 1 /\ ~(j <= i - 1)
      BY <1>0, <2>2
    <3> QED BY <1>2, <1>7, <2>2, <3>1
  <2> QED BY <2>1, <2>2
<1> QED BY <1>5, <1>6, <1>8

-----------------------------------------------------------------------------
(* Folds along a sequence: the run of a fold is the function f of the       *)
(* results after its first 0, 1, 2, ... elements.                           *)

\* What holds at the start of a run and is kept by its steps holds all along it.
LEMMA StaysIn ==
  ASSUME NEW n \in Nat, NEW A, NEW f, f[0] \in A, \A k \in 1 .. n : f[k - 1] \in A => f[k] \in A
  PROVE  \A k \in 0 .. n : f[k] \in A
<1> DEFINE Q == {k \in Nat : k <= n => f[k] \in A}
<1>1. 0 \in Q
  OBVIOUS
<1>2. ASSUME NEW k \in Q PROVE k + 1 \in Q
  <2>1. CASE k + 1 <= n
    <3>1. k + 1 \in 1 .. n /\ (k + 1) - 1 = k /\ k <= n
      BY <2>1
    <3>2. f[k] \in A
      BY <3>1
    <3>3. f[k + 1] \in A
      BY <3>1, <3>2
    <3> QED BY <3>3
  <2>2. CASE ~(k + 1 <= n)
    BY <2>2
  <2> QED BY <2>1, <2>2
<1>3. Q = Nat
  <2>1. Q \in SUBSET Nat
    OBVIOUS
  <2> HIDE DEF Q
  <2> QED BY <1>1, <1>2, <2>1, SetInduction
<1> QED BY <1>3

\* The places of a block's records, one behind another.
Places(recs, f) ==
  /\ f[0] = 0
  /\ \A k \in 1 .. Len(recs) : f[k] = f[k - 1] + recs[k].len
  /\ \A k \in 0 .. Len(recs) : f[k] \in Nat

\* The records' lengths, added up by the fold in Offset.
LEMMA OffsetRun ==
  ASSUME NEW recs \in Seq(Records)
  PROVE  \E f : Places(recs, f) /\ Offset(recs, Len(recs) + 1) = f[Len(recs)]
<1> DEFINE n == Len(recs)
           P == SUBSET (1 .. n)
           G == [p \in Nat \X (1 .. n) |-> p[1] + recs[p[2]].len]
<1>0. n \in Nat /\ DOMAIN recs = 1 .. n /\ \A k \in 1 .. n : recs[k].len \in Nat
  <2>1. n \in Nat /\ DOMAIN recs = 1 .. n /\ \A k \in 1 .. n : recs[k] \in Records
    BY LenProperties
  <2>2. \A r \in Records : r.len \in Nat
    BY DirectoryAssumption DEF Records
  <2> QED BY <2>1, <2>2
<1>1. G \in [Nat \X (1 .. n) -> Nat]
  BY <1>0
<1> HIDE DEF n
<1>2. PICK it : IsRun(n, 0, G, it) /\ \A s \in P : it[s] \in Nat
  <2> HIDE DEF G
  <2> QED BY <1>0, <1>1, RunExists
<1>3. ASSUME NEW s \in P
      PROVE  RunStep(0, G, it, s) = IF s = {} THEN 0 ELSE it[s \ {Max(s)}] + recs[Max(s)].len
  <2>1. CASE s = {}
    BY <2>1 DEF RunStep
  <2>2. CASE s # {}
    <3>1. Max(s) \in 1 .. n /\ s \ {Max(s)} \in P
      BY <1>0, <2>2, TakeLast
    <3>2. <<it[s \ {Max(s)}], Max(s)>> \in Nat \X (1 .. n)
      BY <1>2, <3>1
    <3>3. G[<<it[s \ {Max(s)}], Max(s)>>] = it[s \ {Max(s)}] + recs[Max(s)].len
      BY <3>2
    <3> QED BY <2>2, <3>3 DEF RunStep
  <2> QED BY <2>1, <2>2
<1>4. it = [s \in P |-> IF s = {} THEN 0 ELSE it[s \ {Max(s)}] + recs[Max(s)].len]
  <2> HIDE DEF G
  <2>1. it = [s \in P |-> RunStep(0, G, it, s)]
    BY <1>2 DEF IsRun
  <2> QED BY <1>3, <2>1
<1> DEFINE w == CHOOSE w : w = [s \in SUBSET DOMAIN recs |->
                                  IF s = {} THEN 0 ELSE w[s \ {Max(s)}] + recs[Max(s)].len]
<1>5. w = [s \in P |-> IF s = {} THEN 0 ELSE w[s \ {Max(s)}] + recs[Max(s)].len]
  BY <1>0, <1>4
<1>6. FoldLeft(LAMBDA a, r : a + r.len, 0, recs) = w[1 .. n]
  BY <1>0 DEF FoldLeft, MapThenFoldSet
<1> HIDE DEF w
<1> DEFINE f == [k \in 0 .. n |-> w[1 .. k]]
<1>7. f[0] = 0
  <2>1. 1 .. 0 = {} /\ {} \in P
    OBVIOUS
  <2>2. w[{}] = 0
    BY <1>5
  <2> QED BY <1>0, <2>1, <2>2
<1>8. ASSUME NEW k \in 1 .. n PROVE f[k] = f[k - 1] + recs[k].len
  <2>1. /\ Max(1 .. k) = k /\ (1 .. k) \ {k} = 1 .. (k - 1)
        /\ 1 .. k \in P /\ 1 .. k # {}
    BY <1>0, PrefixOf
  <2>2. w[1 .. k] = w[1 .. (k - 1)] + recs[k].len
    BY <1>5, <2>1
  <2> QED BY <1>0, <2>2
<1>9. Offset(recs, n + 1) = f[n]
  <2>1. (n + 1) - 1 = n /\ n \in 0 .. n
    BY <1>0
  <2>2. SubSeq(recs, 1, n) = recs
    BY SubSeqFull DEF n
  <2>3. Offset(recs, n + 1) = FoldLeft(LAMBDA a, r : a + r.len, 0, recs)
    BY <2>1, <2>2 DEF Offset
  <2> QED BY <1>6, <2>1, <2>3
<1> HIDE DEF f
<1>10. \A k \in 0 .. n : f[k] \in Nat
  <2>1. \A k \in 1 .. n : f[k - 1] \in Nat => f[k] \in Nat
    BY <1>0, <1>8
  <2> HIDE DEF P
  <2>2. f[0] \in Nat
    BY <1>7
  <2> QED BY <1>0, <2>1, <2>2, StaysIn
<1> QED BY <1>7, <1>8, <1>9, <1>10 DEF Places, n

\* The names that are collected from the first records of a block, and at last
\* from all.
LEMMA CollectRun ==
  ASSUME NEW recs \in Seq(Records)
  PROVE  \E f : /\ f[0] = << >> /\ Collect(recs) = f[Len(recs)]
                /\ \A k \in 1 .. Len(recs) : f[k] = CollectOne(f[k - 1], recs[k])
                /\ \A k \in 0 .. Len(recs) : f[k] \in Seq(Names \cup Dots)
<1> DEFINE n == Len(recs)
           A == Seq(Names \cup Dots)
<1>0. /\ n \in Nat /\ DOMAIN recs = 1 .. n
      /\ \A k \in 1 .. n : recs[k].name \in Names \cup Dots \cup {Hole}
  <2>1. n \in Nat /\ DOMAIN recs = 1 .. n /\ \A k \in 1 .. n : recs[k] \in Records
    BY LenProperties
  <2>2. \A r \in Records : r.name \in Names \cup Dots \cup {Hole}
    BY DEF Records
  <2> QED BY <2>1, <2>2
<1>a. \A a \in A, k \in 1 .. n : CollectOne(a, recs[k]) \in A
  <2> TAKE a \in A, k \in 1 .. n
  <2>1. CASE recs[k].name = Hole
    BY <2>1 DEF CollectOne
  <2>2. CASE recs[k].name # Hole
    <3>1. recs[k].name \in Names \cup Dots
      BY <1>0, <2>2
    <3>2. Append(a, recs[k].name) \in A
      BY <3>1, AppendProperties
    <3> QED BY <2>2, <3>2 DEF CollectOne
  <2> QED BY <2>1, <2>2
<1>b. << >> \in A
  OBVIOUS
<1> HIDE DEF n, A
<1> DEFINE P == SUBSET (1 .. n)
           G == [p \in A \X (1 .. n) |-> CollectOne(p[1], recs[p[2]])]
<1>1. G \in [A \X (1 .. n) -> A]
  BY <1>0, <1>a
<1>2. PICK it : IsRun(n, << >>, G, it) /\ \A pos \in P : it[pos] \in A
  <2> HIDE DEF G
  <2> QED BY <1>0, <1>1, <1>b, RunExists
<1>3. ASSUME NEW pos \in P
      PROVE  RunStep(<< >>, G, it, pos) =
               IF pos = {} THEN << >> ELSE CollectOne(it[pos \ {Max(pos)}], recs[Max(pos)])
  <2>1. CASE pos = {}
    BY <2>1 DEF RunStep
  <2>2. CASE pos # {}
    <3>1. Max(pos) \in 1 .. n /\ pos \ {Max(pos)} \in P
      BY <1>0, <2>2, TakeLast
    <3>2. <<it[pos \ {Max(pos)}], Max(pos)>> \in A \X (1 .. n)
      BY <1>2, <3>1
    <3>3. G[<<it[pos \ {Max(pos)}], Max(pos)>>] = CollectOne(it[pos \ {Max(pos)}], recs[Max(pos)])
      BY <3>2
    <3> QED BY <2>2, <3>3 DEF RunStep
  <2> QED BY <2>1, <2>2
<1>4. it = [pos \in P |-> IF pos = {} THEN << >> ELSE CollectOne(it[pos \ {Max(pos)}], recs[Max(pos)])]
  <2> HIDE DEF G
  <2>1. it = [pos \in P |-> RunStep(<< >>, G, it, pos)]
    BY <1>2 DEF IsRun
  <2> QED BY <1>3, <2>1
<1> DEFINE w == CHOOSE w : w = [pos \in SUBSET DOMAIN recs |->
                     IF pos = {} THEN << >> ELSE CollectOne(w[pos \ {Max(pos)}], recs[Max(pos)])]
<1>5. w = [pos \in P |-> IF pos = {} THEN << >> ELSE CollectOne(w[pos \ {Max(pos)}], recs[Max(pos)])]
  BY <1>0, <1>4
<1>6. FoldLeft(CollectOne, << >>, recs) = w[1 .. n]
  BY <1>0 DEF FoldLeft, MapThenFoldSet
<1> HIDE DEF w
<1> DEFINE f == [k \in 0 .. n |-> w[1 .. k]]
<1>7. f[0] = << >>
  <2>1. 1 .. 0 = {} /\ {} \in P
    OBVIOUS
  <2>2. w[{}] = << >>
    BY <1>5
  <2> QED BY <1>0, <2>1, <2>2
<1>8. ASSUME NEW k \in 1 .. n PROVE f[k] = CollectOne(f[k - 1], recs[k])
  <2>1. /\ Max(1 .. k) = k /\ (1 .. k) \ {k} = 1 .. (k - 1)
        /\ 1 .. k \in P /\ 1 .. k # {}
    BY <1>0, PrefixOf
  <2>2. w[1 .. k] = CollectOne(w[1 .. (k - 1)], recs[k])
    BY <1>5, <2>1
  <2>3. f[k] = w[1 .. k] /\ f[k - 1] = w[1 .. (k - 1)]
    BY <1>0
  <2> HIDE DEF f
  <2> QED BY <2>2, <2>3
<1>9. FoldLeft(CollectOne, << >>, recs) = f[n]
  BY <1>0, <1>6
<1> HIDE DEF f, P
<1>10. \A k \in 0 .. n : f[k] \in A
  <2>1. \A k \in 1 .. n : f[k - 1] \in A => f[k] \in A
    BY <1>8, <1>a
  <2>2. f[0] \in A
    BY <1>7, <1>b
  <2> QED BY <1>0, <2>1, <2>2, StaysIn
<1> QED BY <1>7, <1>8, <1>9, <1>10 DEF Collect, n, A

-----------------------------------------------------------------------------
(* Sorting by exchanges keeps the elements, whatever they are sorted by.    *)

Arrangements(s) ==
  {t \in Seq(ToSet(s)) : Len(t) = Len(s) /\ Injective(t) /\ ToSet(t) = ToSet(s)}

LEMMA ExchangeKeeps ==
  ASSUME NEW s, NEW key, NEW t \in Arrangements(s), NEW i \in 1 .. Len(s), NEW j \in 1 .. Len(s)
  PROVE  Exchange(t, key, i, j) \in Arrangements(s)
<1> DEFINE u == [t EXCEPT ![i] = t[j], ![j] = t[i]]
<1>1. /\ t \in Seq(ToSet(s)) /\ Len(t) = Len(s) /\ Injective(t) /\ ToSet(t) = ToSet(s)
      /\ DOMAIN t = 1 .. Len(s) /\ Len(s) \in Nat /\ \A k \in 1 .. Len(s) : t[k] \in ToSet(s)
  BY LenProperties DEF Arrangements
<1>2. /\ u \in Seq(ToSet(s)) /\ Len(u) = Len(s) /\ DOMAIN u = 1 .. Len(s)
      /\ \A k \in 1 .. Len(s) : u[k] = IF k = j THEN t[i] ELSE IF k = i THEN t[j] ELSE t[k]
  <2> DEFINE v == [t EXCEPT ![i] = t[j]]
  <2>1. /\ v \in Seq(ToSet(s)) /\ Len(v) = Len(s)
        /\ \A k \in 1 .. Len(s) : v[k] = IF k = i THEN t[j] ELSE t[k]
    BY <1>1, ExceptSeq
  <2> HIDE DEF v
  <2>2. /\ [v EXCEPT ![j] = t[i]] \in Seq(ToSet(s)) /\ Len([v EXCEPT ![j] = t[i]]) = Len(s)
        /\ \A k \in 1 .. Len(s) : [v EXCEPT ![j] = t[i]][k] = IF k = j THEN t[i] ELSE v[k]
    BY <1>1, <2>1, ExceptSeq
  <2>3. u = [v EXCEPT ![j] = t[i]]
    BY DEF v
  <2>4. DOMAIN u = 1 .. Len(u)
    BY <2>2, <2>3, LenProperties
  <2> HIDE DEF u
  <2> QED BY <2>1, <2>2, <2>3, <2>4
<1> HIDE DEF u
<1>3. Injective(u)
  BY <1>1, <1>2 DEF Injective
<1>4. ToSet(u) = ToSet(s)
  <2>1. \A k \in 1 .. Len(s) : u[k] \in ToSet(t)
    BY <1>1, <1>2
  <2>2. \A k \in 1 .. Len(s) : \E m \in 1 .. Len(s) : t[k] = u[m]
    <3> TAKE k \in 1 .. Len(s)
    <3>1. CASE k = i
      BY <1>2, <3>1
    <3>2. CASE k = j
      BY <1>2, <3>2
    <3>3. CASE k # i /\ k # j
      BY <1>2, <3>3
    <3> QED BY <3>1, <3>2, <3>3
  <2>3. ToSet(t) = {t[k] : k \in 1 .. Len(s)} /\ ToSet(u) = {u[k] : k \in 1 .. Len(s)}
    BY <1>1, <1>2 DEF ToSet
  <2>4. ToSet(u) \subseteq ToSet(t) /\ ToSet(t) \subseteq ToSet(u)
    BY <2>1, <2>2, <2>3
  <2> QED BY <1>1, <2>4
<1>5. u \in Arrangements(s)
  BY <1>1, <1>2, <1>3, <1>4 DEF Arrangements
<1>6. Exchange(t, key, i, j) = u \/ Exchange(t, key, i, j) = t
  BY DEF Exchange, u
<1> QED BY <1>5, <1>6

\* One pass of the sort is a fold of exchanges.
PassRun(s, key, t, i, f) ==
  /\ f[0] = t /\ SortPass(t, key, i) = f[Len(s) - i]
  /\ \A k \in 1 .. Len(s) - i : f[k] = Exchange(f[k - 1], key, i, i + k)
  /\ \A k \in 0 .. Len(s) - i : f[k] \in Arrangements(s)

LEMMA PassRunExists ==
  ASSUME NEW s, NEW key, NEW t \in Arrangements(s), NEW i \in 1 .. Len(s)
  PROVE  \E f : PassRun(s, key, t, i, f)
<1> DEFINE n == Len(s) - i
           A == Arrangements(s)
           q == [k \in 1 .. Len(t) - i |-> k]
<1>0. /\ n \in Nat /\ DOMAIN q = 1 .. n /\ Len(s) \in Nat
      /\ \A k \in 1 .. n : q[k] = k /\ i + k \in 1 .. Len(s)
  <2>1. Len(t) = Len(s) /\ Len(s) \in Nat
    BY LenProperties DEF Arrangements
  <2> QED BY <2>1
<1>a. \A a \in A, k \in 1 .. n : Exchange(a, key, i, i + q[k]) \in A
  <2> HIDE DEF n, q
  <2> QED BY <1>0, ExchangeKeeps
<1> HIDE DEF n, A, q
<1> DEFINE P == SUBSET (1 .. n)
           G == [p \in A \X (1 .. n) |-> Exchange(p[1], key, i, i + q[p[2]])]
<1>1. G \in [A \X (1 .. n) -> A]
  BY <1>0, <1>a
<1>2. PICK it : IsRun(n, t, G, it) /\ \A pos \in P : it[pos] \in A
  <2> HIDE DEF G
  <2>1. t \in A
    BY DEF A
  <2> QED BY <1>0, <1>1, <2>1, RunExists
<1>3. ASSUME NEW pos \in P
      PROVE  RunStep(t, G, it, pos) =
               IF pos = {} THEN t ELSE Exchange(it[pos \ {Max(pos)}], key, i, i + q[Max(pos)])
  <2>1. CASE pos = {}
    BY <2>1 DEF RunStep
  <2>2. CASE pos # {}
    <3>1. Max(pos) \in 1 .. n /\ pos \ {Max(pos)} \in P
      BY <1>0, <2>2, TakeLast
    <3>2. <<it[pos \ {Max(pos)}], Max(pos)>> \in A \X (1 .. n)
      BY <1>2, <3>1
    <3>3. G[<<it[pos \ {Max(pos)}], Max(pos)>>] = Exchange(it[pos \ {Max(pos)}], key, i, i + q[Max(pos)])
      BY <3>2
    <3> QED BY <2>2, <3>3 DEF RunStep
  <2> QED BY <2>1, <2>2
<1>4. it = [pos \in P |-> IF pos = {} THEN t ELSE Exchange(it[pos \ {Max(pos)}], key, i, i + q[Max(pos)])]
  <2> HIDE DEF G
  <2>1. it = [pos \in P |-> RunStep(t, G, it, pos)]
    BY <1>2 DEF IsRun
  <2> QED BY <1>3, <2>1
<1> DEFINE w == CHOOSE w : w = [pos \in SUBSET DOMAIN q |->
                     IF pos = {} THEN t ELSE Exchange(w[pos \ {Max(pos)}], key, i, i + q[Max(pos)])]
<1>5. w = [pos \in P |-> IF pos = {} THEN t ELSE Exchange(w[pos \ {Max(pos)}], key, i, i + q[Max(pos)])]
  BY <1>0, <1>4
<1>6. SortPass(t, key, i) = w[1 .. n]
  BY <1>0 DEF FoldLeft, MapThenFoldSet, SortPass, q
<1> HIDE DEF w
<1> DEFINE f == [k \in 0 .. n |-> w[1 .. k]]
<1>7. f[0] = t
  <2>1. 1 .. 0 = {} /\ {} \in P
    OBVIOUS
  <2>2. w[{}] = t
    BY <1>5
  <2> QED BY <1>0, <2>1, <2>2
<1>8. ASSUME NEW k \in 1 .. n PROVE f[k] = Exchange(f[k - 1], key, i, i + q[k])
  <2>1. /\ Max(1 .. k) = k /\ (1 .. k) \ {k} = 1 .. (k - 1)
        /\ 1 .. k \in P /\ 1 .. k # {}
    BY <1>0, PrefixOf
  <2>2. w[1 .. k] = Exchange(w[1 .. (k - 1)], key, i, i + q[k])
    BY <1>5, <2>1
  <2>3. f[k] = w[1 .. k] /\ f[k - 1] = w[1 .. (k - 1)]
    BY <1>0
  <2> HIDE DEF f
  <2> QED BY <2>2, <2>3
<1>9. SortPass(t, key, i) = f[n]
  BY <1>0, <1>6
<1> HIDE DEF f, P
<1>10. \A k \in 0 .. n : f[k] \in A
  <2>1. \A k \in 1 .. n : f[k - 1] \in A => f[k] \in A
    BY <1>8, <1>a
  <2>2. f[0] \in A
    BY <1>7 DEF A
  <2> QED BY <1>0, <2>1, <2>2, StaysIn
<1>11. \A k \in 1 .. n : f[k] = Exchange(f[k - 1], key, i, i + k)
  BY <1>0, <1>8
<1>12. PassRun(s, key, t, i, f)
  BY <1>7, <1>9, <1>10, <1>11 DEF A, n, PassRun
<1> QED BY <1>12

LEMMA SortPassKeeps ==
  ASSUME NEW s, NEW key, NEW t \in Arrangements(s), NEW i \in 1 .. Len(s)
  PROVE  SortPass(t, key, i) \in Arrangements(s)
<1>1. PICK f : PassRun(s, key, t, i, f)
  BY PassRunExists
<1>2. Len(s) - i \in 0 .. Len(s) - i
  BY LenProperties DEF Arrangements
<1> QED BY <1>1, <1>2 DEF PassRun

\* The sort is a fold of passes.
SortRun(s, key, f) ==
  /\ f[0] = s /\ ExchangeSort(s, key) = f[Len(s)]
  /\ \A k \in 1 .. Len(s) : f[k] = SortPass(f[k - 1], key, k)
  /\ \A k \in 0 .. Len(s) : f[k] \in Arrangements(s)

LEMMA SortRunExists ==
  ASSUME NEW S, NEW s \in Seq(S), NEW key, Injective(s)
  PROVE  \E f : SortRun(s, key, f)
<1> DEFINE n == Len(s)
           A == Arrangements(s)
           q == [i \in DOMAIN s |-> i]
<1>0. /\ n \in Nat /\ DOMAIN q = 1 .. n
      /\ \A k \in 1 .. n : q[k] = k
  <2>1. DOMAIN s = 1 .. Len(s) /\ Len(s) \in Nat
    BY LenProperties
  <2> QED BY <2>1
<1>a. \A a \in A, k \in 1 .. n : SortPass(a, key, q[k]) \in A
  <2> HIDE DEF q
  <2> QED BY <1>0, SortPassKeeps
<1>b. s \in A
  <2>1. DOMAIN s = 1 .. Len(s) /\ s \in [1 .. Len(s) -> S] /\ Len(s) \in Nat
    BY LenProperties
  <2>2. s \in Seq(ToSet(s))
    BY <2>1 DEF ToSet
  <2> QED BY <2>2 DEF Arrangements
<1> HIDE DEF n, A, q
<1> DEFINE P == SUBSET (1 .. n)
           G == [p \in A \X (1 .. n) |-> SortPass(p[1], key, q[p[2]])]
<1>1. G \in [A \X (1 .. n) -> A]
  BY <1>0, <1>a
<1>2. PICK it : IsRun(n, s, G, it) /\ \A pos \in P : it[pos] \in A
  <2> HIDE DEF G
  <2> QED BY <1>0, <1>1, <1>b, RunExists
<1>3. ASSUME NEW pos \in P
      PROVE  RunStep(s, G, it, pos) =
               IF pos = {} THEN s ELSE SortPass(it[pos \ {Max(pos)}], key, q[Max(pos)])
  <2>1. CASE pos = {}
    BY <2>1 DEF RunStep
  <2>2. CASE pos # {}
    <3>1. Max(pos) \in 1 .. n /\ pos \ {Max(pos)} \in P
      BY <1>0, <2>2, TakeLast
    <3>2. <<it[pos \ {Max(pos)}], Max(pos)>> \in A \X (1 .. n)
      BY <1>2, <3>1
    <3>3. G[<<it[pos \ {Max(pos)}], Max(pos)>>] = SortPass(it[pos \ {Max(pos)}], key, q[Max(pos)])
      BY <3>2
    <3> QED BY <2>2, <3>3 DEF RunStep
  <2> QED BY <2>1, <2>2
<1>4. it = [pos \in P |-> IF pos = {} THEN s ELSE SortPass(it[pos \ {Max(pos)}], key, q[Max(pos)])]
  <2> HIDE DEF G
  <2>1. it = [pos \in P |-> RunStep(s, G, it, pos)]
    BY <1>2 DEF IsRun
  <2> QED BY <1>3, <2>1
<1> DEFINE w == CHOOSE w : w = [pos \in SUBSET DOMAIN q |->
                     IF pos = {} THEN s ELSE SortPass(w[pos \ {Max(pos)}], key, q[Max(pos)])]
<1>5. w = [pos \in P |-> IF pos = {} THEN s ELSE SortPass(w[pos \ {Max(pos)}], key, q[Max(pos)])]
  BY <1>0, <1>4
<1>6. ExchangeSort(s, key) = w[1 .. n]
  BY <1>0 DEF FoldLeft, MapThenFoldSet, ExchangeSort, q
<1> HIDE DEF w
<1> DEFINE f == [k \in 0 .. n |-> w[1 .. k]]
<1>7. f[0] = s
  <2>1. 1 .. 0 = {} /\ {} \in P
    OBVIOUS
  <2>2. w[{}] = s
    BY <1>5
  <2> QED BY <1>0, <2>1, <2>2
<1>8. ASSUME NEW k \in 1 .. n PROVE f[k] = SortPass(f[k - 1], key, q[k])
  <2>1. /\ Max(1 .. k) = k /\ (1 .. k) \ {k} = 1 .. (k - 1)
        /\ 1 .. k \in P /\ 1 .. k # {}
    BY <1>0, PrefixOf
  <2>2. w[1 .. k] = SortPass(w[1 .. (k - 1)], key, q[k])
    BY <1>5, <2>1
  <2>3. f[k] = w[1 .. k] /\ f[k - 1] = w[1 .. (k - 1)]
    BY <1>0
  <2> HIDE DEF f
  <2> QED BY <2>2, <2>3
<1>9. ExchangeSort(s, key) = f[n]
  BY <1>0, <1>6
<1> HIDE DEF f, P
<1>10. \A k \in 0 .. n : f[k] \in A
  <2>1. \A k \in 1 .. n : f[k - 1] \in A => f[k] \in A
    BY <1>8, <1>a
  <2>2. f[0] \in A
    BY <1>7, <1>b
  <2> QED BY <1>0, <2>1, <2>2, StaysIn
<1>11. \A k \in 1 .. n : f[k] = SortPass(f[k - 1], key, k)
  BY <1>0, <1>8
<1>12. SortRun(s, key, f)
  BY <1>7, <1>9, <1>10, <1>11 DEF A, n, SortRun
<1> QED BY <1>12

\* The sorted sequence is an arrangement of the given one.
LEMMA SortKeeps ==
  ASSUME NEW S, NEW s \in Seq(S), NEW key, Injective(s)
  PROVE  ExchangeSort(s, key) \in Arrangements(s)
<1>1. PICK f : SortRun(s, key, f)
  BY SortRunExists
<1>2. Len(s) \in 0 .. Len(s)
  BY LenProperties
<1> QED BY <1>1, <1>2 DEF SortRun

LEMMA CountUp ==
  ASSUME NEW n \in Nat, NEW Q, 0 \in Q, \A k \in 1 .. n : k - 1 \in Q => k \in Q
  PROVE  \A k \in 0 .. n : k \in Q
<1> DEFINE f == [k \in 0 .. n |-> k]
<1>1. f[0] \in Q /\ \A k \in 1 .. n : f[k - 1] \in Q => f[k] \in Q
  OBVIOUS
<1>2. \A k \in 0 .. n : f[k] \in Q
  <2> HIDE DEF f
  <2> QED BY <1>1, StaysIn
<1> QED BY <1>2

\* Whether t's elements from place i on are again in u from place i on, and those
\* before it are where they were.
Later(t, u, i) ==
  /\ \A j \in 1 .. Len(t) : j < i => u[j] = t[j]
  /\ \A j \in i .. Len(t) : \E m \in i .. Len(t) : u[j] = t[m]

LEMMA ArrangementFacts ==
  ASSUME NEW s, NEW t \in Arrangements(s)
  PROVE  /\ Len(s) \in Nat /\ Len(t) = Len(s) /\ DOMAIN t = 1 .. Len(s)
         /\ \A k \in 1 .. Len(s) : t[k] \in ToSet(s)
<1>1. t \in Seq(ToSet(s)) /\ Len(t) = Len(s)
  BY DEF Arrangements
<1> QED BY <1>1, LenProperties

\* Every element has a hash.
Keyed(s, key) == \A e \in ToSet(s) : key[e] \in Nat

\* What an exchange of the elements at i and j makes of t.
Exchanged(t, u, key, i, j) ==
  /\ Later(t, u, i)
  /\ key[u[i]] <= key[t[i]] /\ key[u[i]] <= key[u[j]]
  /\ \A k \in 1 .. Len(t) : k # i /\ k # j => u[k] = t[k]

\* An exchange puts the lesser of two elements first.
LEMMA ExchangeOrders ==
  ASSUME NEW s, NEW key, Keyed(s, key),
         NEW t \in Arrangements(s), NEW i \in 1 .. Len(s), NEW j \in 1 .. Len(s), i < j
  PROVE  Exchanged(t, Exchange(t, key, i, j), key, i, j)
<1>0. /\ Len(s) \in Nat /\ Len(t) = Len(s) /\ DOMAIN t = 1 .. Len(s)
      /\ key[t[i]] \in Nat /\ key[t[j]] \in Nat
  BY ArrangementFacts DEF Keyed
<1>1. PICK u : u = Exchange(t, key, i, j)
  OBVIOUS
<1>2. CASE key[t[i]] > key[t[j]]
  <2>1. u = [t EXCEPT ![i] = t[j], ![j] = t[i]]
    BY <1>1, <1>2 DEF Exchange
  <2>2. \A k \in 1 .. Len(s) : u[k] = IF k = j THEN t[i] ELSE IF k = i THEN t[j] ELSE t[k]
    BY <1>0, <2>1
  <2>3. u[i] = t[j] /\ u[j] = t[i]
    BY <2>2
  <2>4. Later(t, u, i)
    <3>1. \A k \in 1 .. Len(t) : k < i => u[k] = t[k]
      BY <1>0, <2>2
    <3>2. ASSUME NEW k \in i .. Len(t) PROVE \E m \in i .. Len(t) : u[k] = t[m]
      <4>1. i \in i .. Len(t) /\ j \in i .. Len(t) /\ k \in 1 .. Len(s)
        BY <1>0
      <4>2. u[k] = t[i] \/ u[k] = t[j] \/ u[k] = t[k]
        BY <2>2, <4>1
      <4> QED BY <4>1, <4>2
    <3> QED BY <3>1, <3>2 DEF Later
  <2> QED BY <1>0, <1>1, <1>2, <2>2, <2>3, <2>4 DEF Exchanged
<1>3. CASE ~(key[t[i]] > key[t[j]])
  <2>1. u = t
    BY <1>1, <1>3 DEF Exchange
  <2>2. Later(t, t, i)
    BY DEF Later
  <2>3. key[t[i]] <= key[t[j]] /\ key[t[i]] <= key[t[i]]
    BY <1>0, <1>3
  <2> QED BY <1>1, <2>1, <2>2, <2>3 DEF Exchanged
<1> QED BY <1>2, <1>3

\* What a pass for place i makes of t.
Selected(t, u, key, i) ==
  Later(t, u, i) /\ \A j \in i .. Len(t) : key[u[i]] <= key[u[j]]

\* A pass puts the least element of the rest at its place.
LEMMA PassOrders ==
  ASSUME NEW s, NEW key, Keyed(s, key), NEW t \in Arrangements(s), NEW i \in 1 .. Len(s)
  PROVE  Selected(t, SortPass(t, key, i), key, i)
<1>1. PICK f : PassRun(s, key, t, i, f)
  BY PassRunExists
<1>2. PICK n : n = Len(s) - i
  OBVIOUS
<1>3. /\ f[0] = t /\ SortPass(t, key, i) = f[n]
      /\ \A k \in 1 .. n : f[k] = Exchange(f[k - 1], key, i, i + k)
      /\ \A k \in 0 .. n : f[k] \in Arrangements(s)
  BY <1>1, <1>2 DEF PassRun
<1>4. Len(s) \in Nat /\ Len(t) = Len(s) /\ n \in Nat /\ i + n = Len(s)
  BY <1>2, ArrangementFacts
<1> DEFINE Q == {k \in 0 .. n : Later(t, f[k], i) /\ \A j \in i .. i + k : key[f[k][i]] <= key[f[k][j]]}
<1>5. 0 \in Q
  <2>1. Later(t, t, i)
    BY DEF Later
  <2>2. i .. i + 0 = {i} /\ key[t[i]] <= key[t[i]]
    <3>1. key[t[i]] \in Nat
      BY ArrangementFacts DEF Keyed
    <3> QED BY <3>1
  <2> QED BY <1>3, <1>4, <2>1, <2>2
<1>6. ASSUME NEW k \in 1 .. n, k - 1 \in Q PROVE k \in Q
  <2>0. k - 1 \in 0 .. n /\ k \in 0 .. n /\ i + k \in 1 .. Len(s) /\ i < i + k
    BY <1>4
  <2>1. PICK a \in Arrangements(s) : a = f[k - 1]
    BY <1>3, <2>0
  <2>2. PICK b \in Arrangements(s) : b = f[k]
    BY <1>3, <2>0
  <2>3. Later(t, a, i) /\ \A j \in i .. i + (k - 1) : key[a[i]] <= key[a[j]]
    BY <1>6, <2>1
  <2>4. b = Exchange(a, key, i, i + k)
    BY <1>3, <2>1, <2>2
  <2>5. /\ Later(a, b, i) /\ key[b[i]] <= key[a[i]] /\ key[b[i]] <= key[b[i + k]]
        /\ \A m \in 1 .. Len(s) : m # i /\ m # i + k => b[m] = a[m]
    <3>1. PICK p \in 1 .. Len(s) : p = i + k /\ i < p
      BY <2>0
    <3>2. b = Exchange(a, key, i, p)
      BY <2>4, <3>1
    <3>3. Exchanged(a, b, key, i, p)
      BY <3>1, <3>2, ExchangeOrders
    <3>4. Len(a) = Len(s)
      BY ArrangementFacts
    <3> QED BY <3>1, <3>3, <3>4 DEF Exchanged
  <2>6. /\ Len(a) = Len(s) /\ Len(b) = Len(s)
        /\ \A m \in 1 .. Len(s) : key[a[m]] \in Nat /\ key[b[m]] \in Nat
    BY ArrangementFacts DEF Keyed
  <2>7. Later(t, b, i)
    <3>1. ASSUME NEW j \in 1 .. Len(t), j < i PROVE b[j] = t[j]
      BY <1>4, <2>3, <2>5, <2>6, <3>1 DEF Later
    <3>2. ASSUME NEW j \in i .. Len(t) PROVE \E m \in i .. Len(t) : b[j] = t[m]
      <4>1. PICK m \in i .. Len(t) : b[j] = a[m]
        BY <1>4, <2>5, <2>6 DEF Later
      <4>2. PICK p \in i .. Len(t) : a[m] = t[p]
        BY <2>3 DEF Later
      <4> QED BY <4>1, <4>2
    <3> QED BY <3>1, <3>2 DEF Later
  <2>8. ASSUME NEW j \in i .. i + k PROVE key[b[i]] <= key[b[j]]
    <3>1. CASE j = i + k
      BY <2>5, <3>1
    <3>2. CASE j = i
      BY <2>6, <3>2
    <3>3. CASE j # i /\ j # i + k
      <4>1. j \in i .. i + (k - 1) /\ j \in 1 .. Len(s)
        BY <1>4, <3>3
      <4>2. b[j] = a[j] /\ key[a[i]] <= key[a[j]]
        BY <2>3, <2>5, <3>3, <4>1
      <4>3. key[b[i]] \in Nat /\ key[a[i]] \in Nat /\ key[a[j]] \in Nat
        BY <2>6, <4>1
      <4> QED BY <2>5, <4>2, <4>3
    <3> QED BY <3>1, <3>2, <3>3
  <2> QED BY <2>0, <2>2, <2>7, <2>8
<1>7. n \in Q
  <2> HIDE DEF Q
  <2>1. \A k \in 0 .. n : k \in Q
    BY <1>4, <1>5, <1>6, CountUp
  <2> QED BY <1>4, <2>1
<1> QED BY <1>3, <1>4, <1>7 DEF Selected

\* In ascending order of their keys.
Ascending(s, key) == \A i, j \in 1 .. Len(s) : i < j => key[s[i]] <= key[s[j]]

LEMMA SortOrders ==
  ASSUME NEW S, NEW s \in Seq(S), NEW key, Injective(s), Keyed(s, key)
  PROVE  Ascending(ExchangeSort(s, key), key)
<1>1. PICK f : SortRun(s, key, f)
  BY SortRunExists
<1>2. PICK n \in Nat : n = Len(s)
  BY LenProperties
<1>3. /\ f[0] = s /\ ExchangeSort(s, key) = f[n]
      /\ \A k \in 1 .. n : f[k] = SortPass(f[k - 1], key, k)
      /\ \A k \in 0 .. n : f[k] \in Arrangements(s)
  BY <1>1, <1>2 DEF SortRun
<1> DEFINE Q == {k \in 0 .. n : \A i \in 1 .. k, j \in 1 .. n : i < j => key[f[k][i]] <= key[f[k][j]]}
<1>4. 0 \in Q
  BY <1>2
<1>5. ASSUME NEW k \in 1 .. n, k - 1 \in Q PROVE k \in Q
  <2>0. k - 1 \in 0 .. n /\ k \in 0 .. n /\ k \in 1 .. Len(s)
    BY <1>2
  <2>1. PICK a \in Arrangements(s) : a = f[k - 1]
    BY <1>3, <2>0
  <2>2. PICK b : b = f[k]
    OBVIOUS
  <2>3. b = SortPass(a, key, k)
    BY <1>3, <2>1, <2>2
  <2>4. Later(a, b, k) /\ \A j \in k .. n : key[b[k]] <= key[b[j]]
    <3>1. Selected(a, b, key, k)
      BY <2>0, <2>3, PassOrders
    <3>2. Len(a) = n
      BY <1>2, ArrangementFacts
    <3> QED BY <3>1, <3>2 DEF Selected
  <2>5. \A i \in 1 .. k - 1, j \in 1 .. n : i < j => key[a[i]] <= key[a[j]]
    BY <1>5, <2>1
  <2>6. Len(a) = n
    BY <1>2, ArrangementFacts
  <2>7. ASSUME NEW i \in 1 .. k, NEW j \in 1 .. n, i < j PROVE key[b[i]] <= key[b[j]]
    <3>1. CASE i = k
      BY <2>4, <2>7, <3>1
    <3>2. CASE i # k
      <4>1. i \in 1 .. k - 1 /\ i \in 1 .. n /\ i < k
        BY <3>2
      <4>2. b[i] = a[i]
        BY <2>4, <2>6, <4>1 DEF Later
      <4>3. CASE j < k
        <5>1. b[j] = a[j]
          BY <2>4, <2>6, <4>3 DEF Later
        <5> QED BY <2>5, <2>7, <4>1, <4>2, <5>1
      <4>4. CASE ~(j < k)
        <5>1. j \in k .. n
          BY <4>4
        <5>2. PICK m \in k .. n : b[j] = a[m]
          BY <2>4, <2>6, <5>1 DEF Later
        <5>3. m \in 1 .. n /\ i < m
          BY <4>1
        <5> QED BY <2>5, <4>1, <4>2, <5>2, <5>3
      <4> QED BY <4>3, <4>4
    <3> QED BY <3>1, <3>2
  <2> QED BY <2>0, <2>2, <2>7
<1>6. n \in Q
  <2> HIDE DEF Q
  <2>1. \A k \in 0 .. n : k \in Q
    BY <1>4, <1>5, CountUp
  <2> QED BY <2>1
<1>7. n \in 0 .. n /\ Len(f[n]) = n
  BY <1>2, <1>3, ArrangementFacts
<1> QED BY <1>3, <1>6, <1>7 DEF Ascending

-----------------------------------------------------------------------------
(* Records that tile a block.                                               *)

Distinct(recs) ==
  \A i, j \in DOMAIN recs : recs[i].name = recs[j].name /\ recs[i].name # Hole => i = j

Tiles(recs) ==
  /\ \E f : Places(recs, f) /\ f[Len(recs)] = BlockLen
  /\ \A j \in 1 .. Len(recs) : UsedLen(recs[j]) <= recs[j].len

\* What is known of the records of a block.
LEMMA RecordFacts ==
  /\ \A recs \in Seq(Records) :
        /\ Len(recs) \in Nat /\ DOMAIN recs = 1 .. Len(recs)
        /\ \A i \in 1 .. Len(recs) :
              /\ recs[i] \in Records /\ recs[i].len \in 1 .. BlockLen
              /\ recs[i].name \in Names \cup Dots \cup {Hole}
  /\ FileRecords \subseteq Records /\ Seq(FileRecords) \subseteq Seq(Records)
  /\ \A r \in FileRecords : r.name \in Names \cup {Hole}
  /\ \A r \in Records : UsedLen(r) \in Nat
  /\ \A n \in Names : Size[n] \in 1 .. BlockLen
  /\ \A n \in Names \cup Dots : Size[n] \in 1 .. BlockLen
  /\ BlockLen \in Nat /\ Dot # DotDot /\ Hole \notin Names /\ Hole \notin Dots
<1>1. ASSUME NEW recs \in Seq(Records)
      PROVE  /\ Len(recs) \in Nat /\ DOMAIN recs = 1 .. Len(recs)
             /\ \A i \in 1 .. Len(recs) :
                  /\ recs[i] \in Records /\ recs[i].len \in 1 .. BlockLen
                  /\ recs[i].name \in Names \cup Dots \cup {Hole}
  <2>1. /\ Len(recs) \in Nat /\ DOMAIN recs = 1 .. Len(recs)
        /\ \A i \in 1 .. Len(recs) : recs[i] \in Records
    BY LenProperties
  <2>2. \A r \in Records : r.len \in 1 .. BlockLen /\ r.name \in Names \cup Dots \cup {Hole}
    BY DEF Records
  <2> QED BY <2>1, <2>2
<1>2. FileRecords \subseteq Records /\ \A r \in FileRecords : r.name \in Names \cup {Hole}
  BY DEF Records, FileRecords
<1>3. Seq(FileRecords) \subseteq Seq(Records)
  <2>1. \A s \in Seq(FileRecords) : s \in Seq(Records)
    BY <1>2, SeqMonotonic
  <2> QED BY <2>1
<1>4. /\ \A n \in Names : Size[n] \in 1 .. BlockLen
      /\ \A n \in Names \cup Dots : Size[n] \in 1 .. BlockLen
  <2>1. \A n \in Names \cup Dots : Size[n] \in Nat /\ Size[n] >= 1
    BY DirectoryAssumption
  <2>2. Size[Dot] + Size[DotDot] < BlockLen /\ BlockLen \in Nat /\ Dot \in Dots /\ DotDot \in Dots
        /\ \A n \in Dots : n = Dot \/ n = DotDot
    BY DirectoryAssumption DEF Dots
  <2>3. \A n \in Dots : Size[n] <= BlockLen
    BY <2>1, <2>2
  <2> QED BY <2>1, <2>2, <2>3, DirectoryAssumption
<1>5. Dot # DotDot /\ Hole \notin Dots /\ Hole \notin Names /\ BlockLen \in Nat
  BY DirectoryAssumption DEF Dot, DotDot, Hole, Dots
<1>6. \A r \in Records : UsedLen(r) \in Nat
  <2>1. \A r \in Records : r.name \in Names \cup Dots \cup {Hole}
    BY DEF Records
  <2> QED BY <1>4, <2>1 DEF UsedLen
<1> QED BY <1>1, <1>2, <1>3, <1>4, <1>5, <1>6

\* The places of a block's records are determined by their lengths.
LEMMA PlacesUnique ==
  ASSUME NEW recs, Len(recs) \in Nat, NEW f, NEW g, Places(recs, f), Places(recs, g)
  PROVE  \A k \in 0 .. Len(recs) : f[k] = g[k]
<1> DEFINE n == Len(recs)
           e == [k \in 0 .. n |-> f[k] - g[k]]
<1>1. e[0] \in {0}
  BY DEF Places
<1>2. ASSUME NEW k \in 1 .. n, e[k - 1] \in {0} PROVE e[k] \in {0}
  <2>1. /\ f[k] = f[k - 1] + recs[k].len /\ g[k] = g[k - 1] + recs[k].len
        /\ f[k - 1] \in Nat /\ g[k - 1] \in Nat /\ f[k] \in Nat /\ g[k] \in Nat
    BY DEF Places
  <2>2. f[k - 1] = g[k - 1]
    BY <1>2, <2>1
  <2> QED BY <2>1, <2>2
<1>3. \A k \in 0 .. n : e[k] \in {0}
  <2> DEFINE A == {0}
  <2>1. n \in Nat /\ e[0] \in A /\ \A k \in 1 .. n : e[k - 1] \in A => e[k] \in A
    <3> HIDE DEF e
    <3> QED BY <1>1, <1>2
  <2>2. \A k \in 0 .. n : e[k] \in A
    <3> HIDE DEF e, n, A
    <3> QED BY <2>1, StaysIn
  <2> QED BY <2>2
<1>4. ASSUME NEW k \in 0 .. n PROVE f[k] = g[k]
  <2>1. e[k] = 0 /\ f[k] \in Nat /\ g[k] \in Nat
    BY <1>3 DEF Places
  <2> QED BY <2>1
<1> QED BY <1>4

\* The lengths of records that tile a block add up to the block's.
LEMMA TilesOffset ==
  ASSUME NEW recs \in Seq(Records)
  PROVE  (\E f : Places(recs, f) /\ f[Len(recs)] = BlockLen)
           <=> Offset(recs, Len(recs) + 1) = BlockLen
<1>0. Len(recs) \in Nat
  BY RecordFacts
<1>1. PICK f : Places(recs, f) /\ Offset(recs, Len(recs) + 1) = f[Len(recs)]
  BY OffsetRun
<1>2. \A g : Places(recs, g) => f[Len(recs)] = g[Len(recs)]
  BY <1>0, <1>1, PlacesUnique
<1> QED BY <1>1, <1>2

\* A place lies inside the block.
LEMMA PlacesBounded ==
  ASSUME NEW recs \in Seq(Records), NEW f, Places(recs, f), NEW m \in 0 .. Len(recs)
  PROVE  f[m] <= f[Len(recs)]
<1> DEFINE n == Len(recs) - m
           e == [k \in 0 .. n |-> f[m + k]]
           A == {x \in Nat : f[m] <= x}
<1>0. Len(recs) \in Nat /\ \A k \in 1 .. Len(recs) : recs[k].len \in Nat
  BY RecordFacts
<1>1. n \in Nat /\ m + n = Len(recs) /\ m \in Nat
  BY <1>0
<1>2. e[0] \in A
  BY <1>1 DEF Places
<1>3. ASSUME NEW k \in 1 .. n, e[k - 1] \in A PROVE e[k] \in A
  <2>1. m + k \in 1 .. Len(recs) /\ (m + k) - 1 = m + (k - 1) /\ k - 1 \in 0 .. n
    BY <1>0, <1>1
  <2>2. /\ f[m + k] = f[m + (k - 1)] + recs[m + k].len /\ recs[m + k].len \in Nat
        /\ f[m + (k - 1)] \in Nat /\ f[m] <= f[m + (k - 1)] /\ f[m] \in Nat /\ f[m + k] \in Nat
    BY <1>0, <1>3, <2>1 DEF Places
  <2>3. f[m] <= f[m + k]
    BY <2>2
  <2> QED BY <2>2, <2>3
<1>4. \A k \in 0 .. n : e[k] \in A
  <2> HIDE DEF e, n, A
  <2> QED BY <1>1, <1>2, <1>3, StaysIn
<1>5. e[n] = f[Len(recs)]
  BY <1>1
<1>6. e[n] \in A
  <2> HIDE DEF e, n, A
  <2>1. n \in 0 .. n
    BY <1>1
  <2> QED BY <1>4, <2>1
<1> QED BY <1>5, <1>6

-----------------------------------------------------------------------------
(* What the ways to change a block do to its records.  A leaf of the index   *)
(* has no dots: F is the set of records of any block, or of a leaf.          *)

BlockSorts == {Records, FileRecords}

\* The records of a sort, with another length or another name.
WithLen(r, len) == [r EXCEPT !.len = len]
WithName(r, name) == [r EXCEPT !.name = name]

LEMMA RecordChanges ==
  ASSUME NEW F \in BlockSorts, NEW r \in F
  PROVE  /\ \A len \in 1 .. BlockLen :
              /\ WithLen(r, len) \in F /\ WithLen(r, len).len = len
              /\ WithLen(r, len).name = r.name
         /\ \A name \in Names \cup {Hole} :
              /\ WithName(r, name) \in F /\ WithName(r, name).name = name
              /\ WithName(r, name).len = r.len
         /\ \A len \in 1 .. BlockLen, name \in Names \cup {Hole} :
              /\ Rec(len, name) \in F /\ Rec(len, name).len = len /\ Rec(len, name).name = name
<1>1. CASE F = Records
  BY <1>1 DEF Records, Rec, WithLen, WithName
<1>2. CASE F = FileRecords
  BY <1>2 DEF FileRecords, Rec, WithLen, WithName
<1> QED BY <1>1, <1>2 DEF BlockSorts

LEMMA NameFacts ==
  /\ \A recs \in Seq(Records) : \A n : n \in NamesIn(recs) <=>
        n # Hole /\ \E i \in 1 .. Len(recs) : recs[i].name = n
  /\ \A recs \in Seq(Records) : NamesIn(recs) \subseteq Names \cup Dots
  /\ \A recs \in Seq(FileRecords) : NamesIn(recs) \subseteq Names
  /\ \A F \in BlockSorts : Seq(F) \subseteq Seq(Records) /\ F \subseteq Records
<1>1. ASSUME NEW recs \in Seq(Records), NEW n
      PROVE  n \in NamesIn(recs) <=> n # Hole /\ \E i \in 1 .. Len(recs) : recs[i].name = n
  <2>1. ToSet(recs) = {recs[i] : i \in 1 .. Len(recs)}
    BY RecordFacts DEF ToSet
  <2> QED BY <2>1 DEF NamesIn
<1>2. \A recs \in Seq(Records) : NamesIn(recs) \subseteq Names \cup Dots
  <2> SUFFICES ASSUME NEW recs \in Seq(Records), NEW n \in NamesIn(recs)
               PROVE  n \in Names \cup Dots
    OBVIOUS
  <2>1. PICK i \in 1 .. Len(recs) : recs[i].name = n /\ n # Hole
    BY <1>1
  <2>2. recs[i].name \in Names \cup Dots \cup {Hole}
    BY RecordFacts
  <2> QED BY <2>1, <2>2
<1>3. \A recs \in Seq(FileRecords) : NamesIn(recs) \subseteq Names
  <2> SUFFICES ASSUME NEW recs \in Seq(FileRecords), NEW n \in NamesIn(recs)
               PROVE  n \in Names
    OBVIOUS
  <2>0. recs \in Seq(Records)
    BY RecordFacts
  <2>1. PICK i \in 1 .. Len(recs) : recs[i].name = n /\ n # Hole
    BY <1>1, <2>0
  <2>2. recs[i] \in FileRecords
    BY ElementOfSeq
  <2>3. recs[i].name \in Names \cup {Hole}
    BY <2>2, RecordFacts
  <2> QED BY <2>1, <2>3
<1>4. \A F \in BlockSorts : Seq(F) \subseteq Seq(Records) /\ F \subseteq Records
  BY RecordFacts DEF BlockSorts
<1> QED BY <1>1, <1>2, <1>3, <1>4

LEMMA FillProperties ==
  ASSUME NEW F \in BlockSorts, NEW recs \in Seq(F),
         NEW i \in 1 .. Len(recs), recs[i].name = Hole, NEW name \in Names
  PROVE  /\ Fill(recs, i, name) \in Seq(F)
         /\ Distinct(recs) /\ name \notin NamesIn(recs) => Distinct(Fill(recs, i, name))
         /\ NamesIn(Fill(recs, i, name)) = NamesIn(recs) \cup {name}
         /\ Tiles(recs) /\ Size[name] <= recs[i].len => Tiles(Fill(recs, i, name))
<1> DEFINE u == Fill(recs, i, name)
<1>0. recs \in Seq(Records) /\ Len(recs) \in Nat /\ DOMAIN recs = 1 .. Len(recs)
  BY RecordFacts, NameFacts
<1>1. PICK r \in F : r.len = recs[i].len /\ r.name = name /\ u = [recs EXCEPT ![i] = r]
  <2>1. recs[i] \in F
    BY ElementOfSeq
  <2>2. u = [recs EXCEPT ![i] = WithName(recs[i], name)]
    BY DEF Fill, WithName
  <2>3. PICK r : r = WithName(recs[i], name)
    OBVIOUS
  <2>4. r \in F /\ r.len = recs[i].len /\ r.name = name
    BY <2>1, <2>3, RecordChanges
  <2>5. u = [recs EXCEPT ![i] = r]
    BY <2>2, <2>3
  <2> HIDE DEF u
  <2> QED BY <2>4, <2>5, Zenon
<1> HIDE DEF u
<1>2. u \in Seq(F) /\ Len(u) = Len(recs) /\ \A j \in 1 .. Len(recs) : u[j] = IF j = i THEN r ELSE recs[j]
  BY <1>1, ExceptSeq
<1>3. u \in Seq(Records) /\ DOMAIN u = 1 .. Len(recs)
  BY <1>2, RecordFacts, NameFacts
<1>5. ASSUME Distinct(recs), name \notin NamesIn(recs) PROVE Distinct(u)
  <2>1. \A j \in 1 .. Len(recs) : recs[j].name # name
    BY <1>0, <1>5, NameFacts, RecordFacts
  <2> QED BY <1>0, <1>1, <1>2, <1>3, <1>5, <2>1 DEF Distinct
<1>6. NamesIn(u) = NamesIn(recs) \cup {name}
  <2>1. ASSUME NEW n PROVE n \in NamesIn(u) <=> n \in NamesIn(recs) \/ n = name
    <3>1. n \in NamesIn(u) <=> n # Hole /\ \E j \in 1 .. Len(recs) : u[j].name = n
      BY <1>2, <1>3, NameFacts
    <3>2. n \in NamesIn(recs) <=> n # Hole /\ \E j \in 1 .. Len(recs) : recs[j].name = n
      BY <1>0, NameFacts
    <3>3. name # Hole
      BY RecordFacts
    <3>4. ASSUME n \in NamesIn(u) PROVE n \in NamesIn(recs) \/ n = name
      BY <1>1, <1>2, <3>1, <3>2, <3>4
    <3>5. ASSUME n \in NamesIn(recs) PROVE n \in NamesIn(u)
      BY <1>2, <3>1, <3>2, <3>5
    <3>6. ASSUME n = name PROVE n \in NamesIn(u)
      BY <1>1, <1>2, <3>1, <3>3, <3>6
    <3> QED BY <3>4, <3>5, <3>6
  <2> QED BY <2>1
<1>7. ASSUME Tiles(recs), Size[name] <= recs[i].len PROVE Tiles(u)
  <2>1. PICK f : Places(recs, f) /\ f[Len(recs)] = BlockLen
    BY <1>7 DEF Tiles
  <2>2. \A j \in 1 .. Len(recs) : u[j].len = recs[j].len
    BY <1>1, <1>2
  <2>3. Places(u, f)
    BY <1>2, <2>1, <2>2 DEF Places
  <2>4. \A j \in 1 .. Len(recs) : UsedLen(u[j]) <= u[j].len
    <3> TAKE j \in 1 .. Len(recs)
    <3>1. CASE j = i
      <4>1. UsedLen(u[j]) = Size[name]
        BY <1>1, <1>2, <3>1, RecordFacts DEF UsedLen
      <4> QED BY <1>7, <2>2, <3>1, <4>1
    <3>2. CASE j # i
      BY <1>2, <1>7, <3>2 DEF Tiles
    <3> QED BY <3>1, <3>2
  <2> QED BY <1>2, <2>1, <2>3, <2>4 DEF Tiles
<1> QED BY <1>2, <1>5, <1>6, <1>7 DEF u

LEMMA DivideProperties ==
  ASSUME NEW F \in BlockSorts, NEW recs \in Seq(F),
         NEW i \in 1 .. Len(recs), NEW len \in 1 .. BlockLen, len < recs[i].len,
         NEW name \in Names
  PROVE  /\ Divide(recs, i, len, name) \in Seq(F)
         /\ Distinct(recs) /\ name \notin NamesIn(recs) => Distinct(Divide(recs, i, len, name))
         /\ NamesIn(Divide(recs, i, len, name)) = NamesIn(recs) \cup {name}
         /\ Tiles(recs) /\ UsedLen(recs[i]) <= len /\ Size[name] <= recs[i].len - len
              => Tiles(Divide(recs, i, len, name))
<1> DEFINE u == Divide(recs, i, len, name)
<1>0. /\ recs \in Seq(Records) /\ Len(recs) \in Nat /\ DOMAIN recs = 1 .. Len(recs)
      /\ recs[i].len \in 1 .. BlockLen /\ BlockLen \in Nat
  BY RecordFacts, NameFacts
<1>1. PICK r : r = WithLen(recs[i], len)
  OBVIOUS
<1>a. r \in F /\ r.len = len /\ r.name = recs[i].name
  <2>1. recs[i] \in F
    BY ElementOfSeq
  <2> QED BY <1>1, <2>1, RecordChanges
<1>2. PICK q \in F : q.len = recs[i].len - len /\ q.name = name /\ q = Rec(recs[i].len - len, name)
  <2>1. recs[i].len - len \in 1 .. BlockLen
    BY <1>0
  <2> QED BY <2>1, RecordChanges
<1>3. PICK v : v = [recs EXCEPT ![i] = r]
  OBVIOUS
<1>4. v \in Seq(F) /\ Len(v) = Len(recs) /\ \A j \in 1 .. Len(recs) : v[j] = IF j = i THEN r ELSE recs[j]
  BY <1>a, <1>3, ExceptSeq
<1>5. u = InsertAt(v, i + 1, q)
  <2>1. [recs EXCEPT ![i].len = len] = [recs EXCEPT ![i] = WithLen(recs[i], len)]
    BY DEF WithLen
  <2>2. v = [recs EXCEPT ![i].len = len]
    BY <1>1, <1>3, <2>1
  <2> QED BY <1>2, <2>2 DEF Divide
<1> HIDE DEF u
<1>6. /\ u \in Seq(F) /\ Len(u) = Len(recs) + 1
      /\ \A j \in 1 .. Len(recs) + 1 :
           u[j] = IF j < i THEN recs[j] ELSE IF j = i THEN r ELSE IF j = i + 1 THEN q ELSE recs[j - 1]
  <2>1. PICK m : m = i + 1 /\ m \in 1 .. Len(recs) + 1
    BY <1>0
  <2>2. r \in F /\ q \in F /\ v \in Seq(F) /\ Len(v) = Len(recs)
        /\ \A j \in 1 .. Len(recs) : v[j] = IF j = m - 1 THEN r ELSE recs[j]
    BY <1>0, <1>a, <1>2, <1>4, <2>1
  <2>3. u = InsertAt(v, m, q)
    BY <1>5, <2>1
  <2>4. m \in 1 .. Len(v) + 1
    BY <2>1, <2>2
  <2>a. v \in Seq(F) /\ q \in F
    BY <2>2
  <2>5. InsertAt(v, m, q) \in Seq(F)
    BY <2>a, <2>4, InsertAtProperties
  <2>6. Len(InsertAt(v, m, q)) = Len(v) + 1
    BY <2>a, <2>4, InsertAtProperties
  <2>7. \A j \in 1 .. Len(v) + 1 :
          InsertAt(v, m, q)[j] = IF j < m THEN v[j] ELSE IF j = m THEN q ELSE v[j - 1]
    BY <2>a, <2>4, InsertAtProperties
  <2>8. ASSUME NEW j \in 1 .. Len(recs) + 1
        PROVE u[j] = IF j < i THEN recs[j] ELSE IF j = i THEN r ELSE IF j = i + 1 THEN q ELSE recs[j - 1]
    <3>1. u[j] = IF j < i + 1 THEN v[j] ELSE IF j = i + 1 THEN q ELSE v[j - 1]
      BY <2>1, <2>2, <2>3, <2>7
    <3>2. CASE j <= i
      <4>1. j \in 1 .. Len(recs) /\ v[j] = IF j = i THEN r ELSE recs[j]
        BY <1>0, <1>4, <3>2
      <4> QED BY <3>1, <3>2, <4>1
    <3>3. CASE j > i + 1
      <4>1. j - 1 \in 1 .. Len(recs) /\ j - 1 # i /\ v[j - 1] = recs[j - 1]
        BY <1>0, <1>4, <3>3
      <4> QED BY <3>1, <3>3, <4>1
    <3>4. CASE j = i + 1
      BY <3>1, <3>4
    <3> QED BY <1>0, <3>2, <3>3, <3>4
  <2> QED BY <2>2, <2>3, <2>5, <2>6, <2>8
<1>7. u \in Seq(Records) /\ DOMAIN u = 1 .. Len(recs) + 1
  BY <1>6, RecordFacts, NameFacts
\* Each record but the new one has the name of a record there was.
<1> DEFINE old(j) == IF j <= i THEN j ELSE j - 1
<1>9. \A j \in 1 .. Len(recs) + 1 : j # i + 1 => old(j) \in 1 .. Len(recs) /\ u[j].name = recs[old(j)].name
  BY <1>0, <1>a, <1>6
<1>10. u[i + 1].name = name /\ i + 1 \in 1 .. Len(recs) + 1
  BY <1>0, <1>2, <1>6
<1>11. ASSUME Distinct(recs), name \notin NamesIn(recs) PROVE Distinct(u)
  <2>a. \A j \in 1 .. Len(recs) : recs[j].name # name
    BY <1>0, <1>11, NameFacts, RecordFacts
  <2> SUFFICES ASSUME NEW j \in 1 .. Len(recs) + 1, NEW k \in 1 .. Len(recs) + 1,
                      u[j].name = u[k].name, u[j].name # Hole
               PROVE  j = k
    BY <1>7 DEF Distinct
  <2>1. CASE j = i + 1 \/ k = i + 1
    <3> HIDE DEF old
    <3> QED BY <2>a, <1>9, <1>10, <2>1
  <2>2. CASE j # i + 1 /\ k # i + 1
    <3>1. old(j) = old(k)
      <4> HIDE DEF old
      <4> QED BY <1>0, <1>9, <1>11, <2>2 DEF Distinct
    <3> QED BY <1>0, <2>2, <3>1
  <2> QED BY <2>1, <2>2
<1>12. NamesIn(u) = NamesIn(recs) \cup {name}
  <2>1. ASSUME NEW n PROVE n \in NamesIn(u) <=> n \in NamesIn(recs) \/ n = name
    <3>1. n \in NamesIn(u) <=> n # Hole /\ \E j \in 1 .. Len(recs) + 1 : u[j].name = n
      <4>1. n \in NamesIn(u) <=> n # Hole /\ \E j \in 1 .. Len(u) : u[j].name = n
        BY <1>7, NameFacts
      <4>2. Len(u) = Len(recs) + 1
        BY <1>6
      <4> QED BY <4>1, <4>2
    <3>2. n \in NamesIn(recs) <=> n # Hole /\ \E j \in 1 .. Len(recs) : recs[j].name = n
      BY <1>0, NameFacts
    <3>3. name # Hole
      BY RecordFacts
    <3>4. ASSUME n \in NamesIn(u) PROVE n \in NamesIn(recs) \/ n = name
      <4> HIDE DEF old
      <4> QED BY <1>9, <1>10, <3>1, <3>2, <3>4
    <3>5. ASSUME n \in NamesIn(recs) PROVE n \in NamesIn(u)
      <4>1. PICK j \in 1 .. Len(recs) : recs[j].name = n /\ n # Hole
        BY <3>2, <3>5
      <4> DEFINE k == IF j <= i THEN j ELSE j + 1
      <4>2. k \in 1 .. Len(recs) + 1 /\ k # i + 1 /\ old(k) = j
        BY <1>0
      <4> HIDE DEF k, old
      <4> QED BY <1>9, <3>1, <4>1, <4>2
    <3>6. ASSUME n = name PROVE n \in NamesIn(u)
      BY <1>10, <3>1, <3>3, <3>6
    <3> QED BY <3>4, <3>5, <3>6
  <2> QED BY <2>1
<1>13. ASSUME Tiles(recs), UsedLen(recs[i]) <= len, Size[name] <= recs[i].len - len PROVE Tiles(u)
  <2>1. PICK f : Places(recs, f) /\ f[Len(recs)] = BlockLen
    BY <1>13 DEF Tiles
  <2> DEFINE g == [k \in 0 .. Len(recs) + 1 |->
                     IF k < i THEN f[k] ELSE IF k = i THEN f[i - 1] + len ELSE f[k - 1]]
  <2>2. /\ \A k \in 1 .. Len(recs) : f[k] = f[k - 1] + recs[k].len
        /\ \A k \in 0 .. Len(recs) : f[k] \in Nat
        /\ f[0] = 0 /\ \A k \in 1 .. Len(recs) : recs[k].len \in Nat
    BY <1>0, <2>1, RecordFacts DEF Places
  <2>3. ASSUME NEW k \in 1 .. Len(recs) + 1 PROVE g[k] = g[k - 1] + u[k].len
    <3>1. CASE k < i
      BY <1>0, <1>6, <2>2, <3>1
    <3>2. CASE k = i
      BY <1>0, <1>a, <1>6, <2>2, <3>2
    <3>3. CASE k = i + 1
      <4>1. k - 1 = i /\ k \in 0 .. Len(recs) + 1 /\ i \in 0 .. Len(recs) + 1 /\ ~(k < i) /\ k # i
        BY <1>0, <3>3
      <4>2. g[k] = f[i] /\ g[i] = f[i - 1] + len
        BY <1>0, <4>1
      <4>3. u[k].len = recs[i].len - len
        <5> HIDE DEF g
        <5> QED BY <1>0, <1>2, <1>6, <3>3, <4>1
      <4>4. f[i] = f[i - 1] + recs[i].len /\ f[i - 1] \in Nat /\ recs[i].len \in Nat /\ len \in Nat
        BY <1>0, <2>2
      <4> HIDE DEF g
      <4>5. PICK a, b \in Nat : a = f[i - 1] /\ b = recs[i].len
        BY <4>4
      <4>6. g[k] = a + b /\ g[k - 1] = a + len /\ u[k].len = b - len
        BY <4>1, <4>2, <4>3, <4>4, <4>5
      <4>7. a + b = (a + len) + (b - len)
        BY <4>4
      <4> QED BY <4>6, <4>7
    <3>4. CASE k > i + 1
      <4>1. g[k] = f[k - 1] /\ g[k - 1] = f[(k - 1) - 1] /\ u[k].len = recs[k - 1].len
            /\ k - 1 \in 1 .. Len(recs)
        BY <1>0, <1>6, <3>4
      <4> HIDE DEF g
      <4> QED BY <2>2, <4>1
    <3> QED BY <1>0, <3>1, <3>2, <3>3, <3>4
  <2>4. \A k \in 0 .. Len(recs) + 1 : g[k] \in Nat
    BY <1>0, <2>2
  <2>5. g[0] = 0 /\ g[Len(recs) + 1] = f[Len(recs)]
    BY <1>0, <2>2
  <2> HIDE DEF g
  <2>6. Places(u, g) /\ g[Len(u)] = BlockLen
    BY <1>6, <2>1, <2>3, <2>4, <2>5 DEF Places
  <2>7. ASSUME NEW j \in 1 .. Len(recs) + 1 PROVE UsedLen(u[j]) <= u[j].len
    <3>1. CASE j < i
      BY <1>0, <1>6, <1>13, <3>1 DEF Tiles
    <3>2. CASE j = i
      <4>1. UsedLen(u[j]) = UsedLen(recs[i]) /\ u[j].len = len
        BY <1>0, <1>a, <1>6, <3>2 DEF UsedLen
      <4> QED BY <1>13, <4>1
    <3>3. CASE j = i + 1
      <4>a. u[j] = q
        BY <1>0, <1>6, <3>3
      <4>1. UsedLen(u[j]) = Size[name] /\ u[j].len = recs[i].len - len
        BY <1>2, <4>a, RecordFacts DEF UsedLen
      <4> QED BY <1>13, <4>1
    <3>4. CASE j > i + 1
      <4>1. u[j] = recs[j - 1] /\ j - 1 \in 1 .. Len(recs)
        BY <1>0, <1>6, <3>4
      <4> QED BY <1>13, <4>1 DEF Tiles
    <3> QED BY <1>0, <3>1, <3>2, <3>3, <3>4
  <2> QED BY <1>6, <2>6, <2>7 DEF Tiles
<1> QED BY <1>6, <1>11, <1>12, <1>13 DEF u

LEMMA CutProperties ==
  ASSUME NEW F \in BlockSorts, NEW recs \in Seq(F), Distinct(recs), Tiles(recs),
         NEW i \in 1 .. Len(recs)
  PROVE  /\ Cut(recs, i) \in Seq(F) /\ Distinct(Cut(recs, i)) /\ Tiles(Cut(recs, i))
         /\ NamesIn(Cut(recs, i)) = NamesIn(recs) \ {recs[i].name}
<1> DEFINE u == Cut(recs, i)
<1>0. /\ recs \in Seq(Records) /\ Len(recs) \in Nat /\ DOMAIN recs = 1 .. Len(recs)
      /\ \A j \in 1 .. Len(recs) : recs[j].len \in 1 .. BlockLen
      /\ BlockLen \in Nat
  BY RecordFacts, NameFacts
<1>f. PICK f : Places(recs, f) /\ f[Len(recs)] = BlockLen
  BY DEF Tiles
<1>g. /\ \A k \in 1 .. Len(recs) : f[k] = f[k - 1] + recs[k].len
      /\ \A k \in 0 .. Len(recs) : f[k] \in Nat /\ f[0] = 0
  BY <1>f DEF Places
<1>d. \A j, k \in 1 .. Len(recs) : recs[j].name = recs[k].name /\ recs[j].name # Hole => j = k
  BY <1>0 DEF Distinct
<1>t. \A j \in 1 .. Len(recs) : UsedLen(recs[j]) <= recs[j].len
  BY DEF Tiles
\* A first record becomes a hole.
<1>1. CASE i = 1
  <2>1. PICK r : r = WithName(recs[1], Hole)
    OBVIOUS
  <2>2. r \in F /\ r.len = recs[1].len /\ r.name = Hole
    <3>1. recs[1] \in F
      BY <1>1, ElementOfSeq
    <3> QED BY <2>1, <3>1, RecordChanges
  <2>3. u = [recs EXCEPT ![1] = r]
    BY <1>1, <2>1 DEF Cut, WithName
  <2> HIDE DEF u
  <2>4. u \in Seq(F) /\ Len(u) = Len(recs) /\ \A j \in 1 .. Len(recs) : u[j] = IF j = 1 THEN r ELSE recs[j]
    BY <1>1, <2>2, <2>3, ExceptSeq
  <2>5. u \in Seq(Records) /\ DOMAIN u = 1 .. Len(recs)
    BY <2>4, RecordFacts, NameFacts
  <2>6. Distinct(u)
    BY <1>d, <2>2, <2>4, <2>5 DEF Distinct
  <2>7. NamesIn(u) = NamesIn(recs) \ {recs[i].name}
    <3>1. ASSUME NEW n PROVE n \in NamesIn(u) <=> n \in NamesIn(recs) /\ n # recs[1].name
      <4>1. n \in NamesIn(u) <=> n # Hole /\ \E j \in 1 .. Len(recs) : u[j].name = n
        BY <2>4, <2>5, NameFacts
      <4>2. n \in NamesIn(recs) <=> n # Hole /\ \E j \in 1 .. Len(recs) : recs[j].name = n
        BY <1>0, NameFacts
      <4> QED BY <1>1, <1>d, <2>2, <2>4, <4>1, <4>2
    <3> QED BY <1>1, <3>1
  <2>8. Tiles(u)
    <3>1. \A j \in 1 .. Len(recs) : u[j].len = recs[j].len
      BY <2>2, <2>4
    <3>2. Places(u, f)
      BY <1>f, <2>4, <3>1 DEF Places
    <3>3. \A j \in 1 .. Len(recs) : UsedLen(u[j]) <= u[j].len
      <4> TAKE j \in 1 .. Len(recs)
      <4>1. CASE j = 1
        BY <1>0, <1>1, <2>2, <2>4, <4>1 DEF UsedLen
      <4>2. CASE j # 1
        BY <1>t, <2>4, <4>2
      <4> QED BY <4>1, <4>2
    <3> QED BY <1>f, <2>4, <3>2, <3>3 DEF Tiles
  <2> QED BY <2>4, <2>6, <2>7, <2>8 DEF u
\* Another one is merged with the record in front of it.
<1>2. CASE i # 1
  <2>1. PICK p : p = i - 1 /\ p \in 1 .. Len(recs) /\ p < i /\ i = p + 1
    BY <1>0, <1>2
  <2>2. recs[p].len + recs[i].len \in 1 .. BlockLen
    <3>1. f[p] = f[p - 1] + recs[p].len /\ f[i] = f[p] + recs[i].len /\ f[p - 1] \in Nat /\ f[i] \in Nat
      BY <1>g, <1>0, <2>1
    <3>2. f[i] <= BlockLen
      BY <1>0, <1>f, PlacesBounded
    <3>3. recs[p].len \in 1 .. BlockLen /\ recs[i].len \in 1 .. BlockLen
      BY <1>0, <2>1
    <3>b. recs[p].len \in Nat /\ recs[i].len \in Nat
      BY <1>0, <3>3
    <3>4. PICK a, b, c \in Nat : a = f[p - 1] /\ b = recs[p].len /\ c = recs[i].len
      BY <3>1, <3>b
    <3>5. a + b + c <= BlockLen /\ b >= 1
      <4>1. f[i] = a + b + c
        BY <3>1, <3>4
      <4> QED BY <3>2, <3>3, <3>4, <4>1
    <3>6. b + c \in 1 .. BlockLen
      <4>1. b + c \in Nat /\ b + c >= 1 /\ b + c <= BlockLen
        BY <1>0, <3>5
      <4> QED BY <4>1
    <3> QED BY <3>4, <3>6
  <2>3. PICK r : r = WithLen(recs[p], recs[p].len + recs[i].len)
    OBVIOUS
  <2>4. r \in F /\ r.len = recs[p].len + recs[i].len /\ r.name = recs[p].name
    <3>1. recs[p] \in F
      BY <2>1, ElementOfSeq
    <3> QED BY <2>2, <2>3, <3>1, RecordChanges
  <2>5. PICK v : v = [recs EXCEPT ![p] = r]
    OBVIOUS
  <2>6. v \in Seq(F) /\ Len(v) = Len(recs) /\ \A j \in 1 .. Len(recs) : v[j] = IF j = p THEN r ELSE recs[j]
    <3>1. p \in 1 .. Len(recs) /\ r \in F
      BY <2>1, <2>4
    <3>2. v \in Seq(F)
      BY <2>5, <3>1, ExceptSeq
    <3>3. Len(v) = Len(recs)
      BY <2>5, <3>1, ExceptSeq
    <3>4. \A j \in 1 .. Len(recs) : v[j] = IF j = p THEN r ELSE recs[j]
      BY <2>5, <3>1, ExceptSeq
    <3> QED BY <3>2, <3>3, <3>4
  <2>7. u = RemoveAt(v, i)
    <3>1. [recs EXCEPT ![i - 1].len = @ + recs[i].len] = [recs EXCEPT ![p] = r]
      BY <2>1, <2>3 DEF WithLen
    <3> QED BY <1>2, <2>5, <3>1 DEF Cut
  <2> HIDE DEF u
  <2>8. u \in Seq(F) /\ Len(u) = Len(recs) - 1
        /\ \A j \in 1 .. Len(recs) - 1 : u[j] = IF j < p THEN recs[j] ELSE IF j = p THEN r ELSE recs[j + 1]
    <3>1. v \in Seq(F) /\ i \in 1 .. Len(v)
      BY <2>6
    <3>2. RemoveAt(v, i) \in Seq(F)
      BY <3>1, RemoveAtProperties
    <3>3. Len(RemoveAt(v, i)) = Len(v) - 1
      BY <3>1, RemoveAtProperties
    <3>4. \A j \in 1 .. Len(v) - 1 : RemoveAt(v, i)[j] = IF j < i THEN v[j] ELSE v[j + 1]
      BY <3>1, RemoveAtProperties
    <3>5. ASSUME NEW j \in 1 .. Len(recs) - 1
          PROVE u[j] = IF j < p THEN recs[j] ELSE IF j = p THEN r ELSE recs[j + 1]
      <4>1. u[j] = IF j < i THEN v[j] ELSE v[j + 1]
        BY <2>6, <2>7, <3>4
      <4>2. j \in 1 .. Len(recs) /\ j + 1 \in 1 .. Len(recs)
        BY <1>0
      <4>3. v[j] = (IF j = p THEN r ELSE recs[j]) /\ v[j + 1] = IF j + 1 = p THEN r ELSE recs[j + 1]
        BY <2>6, <4>2
      <4> QED BY <2>1, <4>1, <4>3
    <3> QED BY <2>6, <2>7, <3>2, <3>3, <3>5
  <2>9. u \in Seq(Records) /\ DOMAIN u = 1 .. Len(recs) - 1
    BY <2>8, RecordFacts, NameFacts
  <2> DEFINE old(j) == IF j <= p THEN j ELSE j + 1
  <2>10. \A j \in 1 .. Len(recs) - 1 :
            old(j) \in 1 .. Len(recs) /\ old(j) # i /\ u[j].name = recs[old(j)].name
    BY <1>0, <2>1, <2>4, <2>8
  <2>11. Distinct(u)
    <3> SUFFICES ASSUME NEW j \in 1 .. Len(recs) - 1, NEW k \in 1 .. Len(recs) - 1,
                        u[j].name = u[k].name, u[j].name # Hole
                 PROVE  j = k
      BY <2>9 DEF Distinct
    <3>1. old(j) = old(k)
      <4> HIDE DEF old
      <4> QED BY <1>d, <2>10
    <3> QED BY <1>0, <2>1, <3>1
  <2>12. NamesIn(u) = NamesIn(recs) \ {recs[i].name}
    <3>1. ASSUME NEW n PROVE n \in NamesIn(u) <=> n \in NamesIn(recs) /\ n # recs[i].name
      <4>1. n \in NamesIn(u) <=> n # Hole /\ \E j \in 1 .. Len(recs) - 1 : u[j].name = n
        <5>1. n \in NamesIn(u) <=> n # Hole /\ \E j \in 1 .. Len(u) : u[j].name = n
          BY <2>9, NameFacts
        <5>2. Len(u) = Len(recs) - 1
          BY <2>8
        <5> QED BY <5>1, <5>2
      <4>2. n \in NamesIn(recs) <=> n # Hole /\ \E j \in 1 .. Len(recs) : recs[j].name = n
        BY <1>0, NameFacts
      <4>3. ASSUME n \in NamesIn(u) PROVE n \in NamesIn(recs) /\ n # recs[i].name
        <5>1. PICK j \in 1 .. Len(recs) - 1 : u[j].name = n /\ n # Hole
          BY <4>1, <4>3
        <5> HIDE DEF old
        <5> QED BY <1>d, <2>10, <4>2, <5>1
      <4>4. ASSUME n \in NamesIn(recs), n # recs[i].name PROVE n \in NamesIn(u)
        <5>1. PICK j \in 1 .. Len(recs) : recs[j].name = n /\ n # Hole
          BY <4>2, <4>4
        <5>2. j # i
          BY <4>4, <5>1
        <5> DEFINE k == IF j <= p THEN j ELSE j - 1
        <5>3. k \in 1 .. Len(recs) - 1 /\ old(k) = j
          BY <1>0, <2>1, <5>2
        <5> HIDE DEF old, k
        <5> QED BY <2>10, <4>1, <5>1, <5>3
      <4> QED BY <4>3, <4>4
    <3> QED BY <3>1
  <2>13. Tiles(u)
    <3> DEFINE g == [k \in 0 .. Len(recs) - 1 |-> IF k < p THEN f[k] ELSE f[k + 1]]
    <3>1. ASSUME NEW k \in 1 .. Len(recs) - 1 PROVE g[k] = g[k - 1] + u[k].len
      <4>0. k + 1 \in 1 .. Len(recs) /\ k \in 1 .. Len(recs) /\ (k + 1) - 1 = k
        BY <1>0
      <4>1. CASE k < p
        <5>1. g[k] = f[k] /\ g[k - 1] = f[k - 1] /\ u[k].len = recs[k].len
          BY <1>0, <2>1, <2>8, <4>1
        <5> HIDE DEF g
        <5> QED BY <1>g, <4>0, <5>1
      <4>2. CASE k = p
        <5>1. g[k] = f[i] /\ g[k - 1] = f[p - 1]
          BY <1>0, <2>1, <4>2
        <5>2. u[k].len = recs[p].len + recs[i].len
          <6> HIDE DEF g
          <6> QED BY <1>0, <2>1, <2>4, <2>8, <4>2
        <5>3. f[p] = f[p - 1] + recs[p].len /\ f[i] = f[p] + recs[i].len /\ f[p - 1] \in Nat /\ f[i] \in Nat
          BY <1>g, <1>0, <2>1
        <5>4. recs[p].len \in Nat /\ recs[i].len \in Nat
          BY <1>0, <2>1
        <5> HIDE DEF g
        <5> QED BY <5>1, <5>2, <5>3, <5>4
      <4>3. CASE k > p
        <5>a. u[k] = recs[k + 1]
          BY <1>0, <2>1, <2>8, <4>3
        <5>b. g[k] = f[k + 1] /\ g[k - 1] = f[(k - 1) + 1] /\ (k - 1) + 1 = k
          BY <1>0, <2>1, <4>3
        <5>1. g[k] = f[k + 1] /\ g[k - 1] = f[k] /\ u[k].len = recs[k + 1].len
          <6> HIDE DEF g
          <6> QED BY <5>a, <5>b
        <5>2. f[k + 1] = f[(k + 1) - 1] + recs[k + 1].len
          BY <1>g, <4>0
        <5> HIDE DEF g
        <5> QED BY <4>0, <5>1, <5>2
      <4> QED BY <2>1, <4>1, <4>2, <4>3
    <3>2. \A k \in 0 .. Len(recs) - 1 : g[k] \in Nat
      BY <1>0, <1>g
    <3>3. g[0] = 0 /\ g[Len(recs) - 1] = f[Len(recs)]
      BY <1>0, <1>g, <2>1
    <3> HIDE DEF g
    <3>4. Places(u, g) /\ g[Len(u)] = BlockLen
      BY <1>f, <2>8, <3>1, <3>2, <3>3 DEF Places
    <3>5. ASSUME NEW j \in 1 .. Len(recs) - 1 PROVE UsedLen(u[j]) <= u[j].len
      <4>1. CASE j < p
        BY <1>0, <1>t, <2>1, <2>8, <4>1
      <4>2. CASE j = p
        <5>1. UsedLen(u[j]) = UsedLen(recs[p]) /\ u[j].len = recs[p].len + recs[i].len
          BY <1>0, <2>1, <2>4, <2>8, <4>2 DEF UsedLen
        <5>2. UsedLen(recs[p]) <= recs[p].len /\ recs[p].len \in Nat /\ recs[i].len \in Nat
              /\ UsedLen(recs[p]) \in Nat
          BY <1>0, <1>t, <2>1, RecordFacts
        <5> QED BY <5>1, <5>2
      <4>3. CASE j > p
        <5>1. u[j] = recs[j + 1] /\ j + 1 \in 1 .. Len(recs)
          BY <1>0, <2>1, <2>8, <4>3
        <5> QED BY <1>t, <5>1
      <4> QED BY <2>1, <4>1, <4>2, <4>3
    <3> QED BY <2>8, <3>4, <3>5 DEF Tiles
  <2> QED BY <2>8, <2>11, <2>12, <2>13 DEF u
<1> QED BY <1>1, <1>2

-----------------------------------------------------------------------------
(* A name is added to a block.                                              *)

\* The first of a set of places, or none.
LEMMA FirstIn ==
  ASSUME NEW S \in SUBSET (Nat \ {0})
  PROVE  (S = {} /\ First(S) = 0) \/ First(S) \in S
<1>1. CASE S = {}
  BY <1>1 DEF First
<1>2. CASE S # {}
  <2>1. \E n \in S : \A m \in S : n <= m
    BY <1>2, LeastNumber
  <2>2. Min(S) \in S
    BY <2>1, Zenon DEF Min
  <2> QED BY <1>2, <2>2 DEF First
<1> QED BY <1>1, <1>2

\* The linear directory puts a name where LinearFit has found room.
LEMMA LinearPutProperties ==
  ASSUME NEW F \in BlockSorts, NEW recs \in Seq(F), Distinct(recs), NEW i \in 1 .. Len(recs),
         NEW name \in Names, name \notin NamesIn(recs),
         recs[i].len >= UsedLen(recs[i]) + Size[name]
  PROVE  /\ LinearPut(recs, i, name) \in Seq(F) /\ Distinct(LinearPut(recs, i, name))
         /\ NamesIn(LinearPut(recs, i, name)) = NamesIn(recs) \cup {name}
         /\ Tiles(recs) => Tiles(LinearPut(recs, i, name))
<1>0. /\ recs[i].len \in 1 .. BlockLen /\ recs[i].name \in Names \cup Dots \cup {Hole}
      /\ BlockLen \in Nat /\ Size[name] \in 1 .. BlockLen
  BY RecordFacts, NameFacts
<1>1. CASE recs[i].name = Hole
  <2>1. Size[name] <= recs[i].len
    BY <1>0, <1>1 DEF UsedLen
  <2>2. LinearPut(recs, i, name) = Fill(recs, i, name)
    BY <1>1 DEF LinearPut
  <2> QED BY <1>1, <2>1, <2>2, FillProperties
<1>2. CASE recs[i].name # Hole
  <2>1. UsedLen(recs[i]) \in 1 .. BlockLen
    BY <1>0, <1>2, RecordFacts DEF UsedLen
  <2>2. UsedLen(recs[i]) < recs[i].len /\ Size[name] <= recs[i].len - UsedLen(recs[i])
        /\ UsedLen(recs[i]) <= UsedLen(recs[i])
    BY <1>0, <2>1
  <2>3. LinearPut(recs, i, name) = Divide(recs, i, UsedLen(recs[i]), name)
    BY <1>2 DEF LinearPut
  <2>4. PICK len \in 1 .. BlockLen : len = UsedLen(recs[i])
    BY <2>1
  <2>5. LinearPut(recs, i, name) = Divide(recs, i, len, name)
    BY <2>3, <2>4
  <2>6. len < recs[i].len /\ Size[name] <= recs[i].len - len /\ UsedLen(recs[i]) <= len
    BY <2>2, <2>4
  <2> QED BY <2>5, <2>6, DivideProperties
<1> QED BY <1>1, <1>2

\* The leaf of an index takes a name where it seems to fit; torn if it does not.
Leaves == [ok : BOOLEAN, recs : Seq(FileRecords), torn : BOOLEAN]

LEMMA TryInsertType ==
  ASSUME NEW F \in BlockSorts, NEW recs \in Seq(F), NEW name \in Names
  PROVE  /\ TryInsertLeaf(recs, name) \in [ok : BOOLEAN, recs : Seq(F), torn : BOOLEAN]
         /\ TryInsertLeaf(recs, name).ok =>
              NamesIn(TryInsertLeaf(recs, name).recs) = NamesIn(recs) \cup {name}
         /\ ~TryInsertLeaf(recs, name).ok =>
              TryInsertLeaf(recs, name) = [ok |-> FALSE, recs |-> recs, torn |-> FALSE]
         /\ Distinct(recs) /\ name \notin NamesIn(recs) => Distinct(TryInsertLeaf(recs, name).recs)
         /\ Tiles(recs) /\ ~TryInsertLeaf(recs, name).torn => Tiles(TryInsertLeaf(recs, name).recs)
<1> DEFINE t == TryInsertLeaf(recs, name)
           need == Size[name]
           S == {j \in DOMAIN recs :
                   /\ Offset(recs, j) + need <= BlockLen
                   /\ recs[j].name = Hole \/ recs[j].len >= need + UsedLen(recs[j])}
<1>0. /\ Len(recs) \in Nat /\ DOMAIN recs = 1 .. Len(recs) /\ BlockLen \in Nat
      /\ \A j \in 1 .. Len(recs) :
           recs[j].len \in 1 .. BlockLen /\ recs[j].name \in Names \cup Dots \cup {Hole}
      /\ need \in 1 .. BlockLen
  BY RecordFacts, NameFacts
<1>1. PICK i : i = First(S)
  OBVIOUS
<1>2. i = 0 \/ i \in S
  <2>1. S \in SUBSET (Nat \ {0})
    BY <1>0
  <2> HIDE DEF S
  <2> QED BY <1>1, <2>1, FirstIn
<1>3. CASE i = 0
  <2>1. t = [ok |-> FALSE, recs |-> recs, torn |-> FALSE]
    BY <1>1, <1>3 DEF TryInsertLeaf
  <2> HIDE DEF t
  <2>2. t \in [ok : BOOLEAN, recs : Seq(F), torn : BOOLEAN] /\ ~t.ok /\ t.recs = recs
    BY <2>1
  <2> QED BY <2>1, <2>2 DEF t
<1>4. CASE i # 0 /\ recs[i].name = Hole
  <2>1. t = [ok |-> TRUE, recs |-> Fill(recs, i, name), torn |-> recs[i].len < need]
    BY <1>1, <1>4 DEF TryInsertLeaf
  <2>2. i \in 1 .. Len(recs)
    BY <1>0, <1>2, <1>4
  <2> HIDE DEF t, S
  <2>3. t.ok /\ t.recs = Fill(recs, i, name) /\ (t.torn <=> recs[i].len < need)
    BY <2>1
  <2>4. Fill(recs, i, name) \in Seq(F)
    BY <1>4, <2>2, FillProperties
  <2>5. t \in [ok : BOOLEAN, recs : Seq(F), torn : BOOLEAN]
    BY <2>1, <2>4
  <2>6. NamesIn(t.recs) = NamesIn(recs) \cup {name}
    BY <1>4, <2>2, <2>3, FillProperties
  <2>7. Distinct(recs) /\ name \notin NamesIn(recs) => Distinct(t.recs)
    BY <1>4, <2>2, <2>3, FillProperties
  <2>8. ASSUME Tiles(recs), ~t.torn PROVE Tiles(t.recs)
    <3>1. Size[name] <= recs[i].len
      BY <1>0, <2>2, <2>3, <2>8
    <3> HIDE DEF need
    <3> QED BY <1>4, <2>2, <2>3, <2>8, <3>1, FillProperties
  <2> QED BY <2>3, <2>5, <2>6, <2>7, <2>8 DEF t
<1>5. CASE i # 0 /\ recs[i].name # Hole
  <2>1. t = [ok |-> TRUE, recs |-> Divide(recs, i, need, name),
             torn |-> need < UsedLen(recs[i]) \/ recs[i].len - need < need]
    BY <1>1, <1>5 DEF TryInsertLeaf
  <2>2. i \in 1 .. Len(recs) /\ recs[i].len >= need + UsedLen(recs[i])
    BY <1>0, <1>2, <1>5
  <2> HIDE DEF t, S
  <2>3. t.ok /\ t.recs = Divide(recs, i, need, name)
        /\ (t.torn <=> need < UsedLen(recs[i]) \/ recs[i].len - need < need)
    BY <2>1
  <2>4. UsedLen(recs[i]) \in 1 .. BlockLen /\ recs[i].len \in 1 .. BlockLen
    BY <1>0, <1>5, <2>2, RecordFacts DEF UsedLen
  <2>5. PICK len \in 1 .. BlockLen : len = need
    BY <1>0
  <2>6. len < recs[i].len
    BY <1>0, <2>2, <2>4, <2>5
  <2>7. t.recs = Divide(recs, i, len, name)
    BY <2>3, <2>5
  <2>8. Divide(recs, i, len, name) \in Seq(F)
    BY <2>2, <2>6, DivideProperties
  <2>9. t \in [ok : BOOLEAN, recs : Seq(F), torn : BOOLEAN]
    BY <2>1, <2>5, <2>8
  <2>10. NamesIn(t.recs) = NamesIn(recs) \cup {name}
    BY <2>2, <2>6, <2>7, DivideProperties
  <2>11. Distinct(recs) /\ name \notin NamesIn(recs) => Distinct(t.recs)
    BY <2>2, <2>6, <2>7, DivideProperties
  <2>12. ASSUME Tiles(recs), ~t.torn PROVE Tiles(t.recs)
    <3>1. UsedLen(recs[i]) <= len /\ Size[name] <= recs[i].len - len
      BY <1>0, <2>3, <2>4, <2>5, <2>12
    <3> HIDE DEF need
    <3> QED BY <2>2, <2>6, <2>7, <2>12, <3>1, DivideProperties
  <2> QED BY <2>3, <2>9, <2>10, <2>11, <2>12 DEF t
<1> QED BY <1>3, <1>4, <1>5

-----------------------------------------------------------------------------
(* The names of a block, collected, divided and packed again.               *)

\* One more element behind different ones.
LEMMA AppendNew ==
  ASSUME NEW S, NEW s \in Seq(S), Injective(s), NEW x \in S, x \notin ToSet(s)
  PROVE  Injective(Append(s, x)) /\ ToSet(Append(s, x)) = ToSet(s) \cup {x}
<1>1. PICK t : t = Append(s, x)
  OBVIOUS
<1>2. PICK m : m = Len(s)
  OBVIOUS
<1>3. /\ m \in Nat /\ Len(t) = m + 1
      /\ t[m + 1] = x /\ DOMAIN s = 1 .. m /\ DOMAIN t = 1 .. m + 1
  <2>1. t \in Seq(S)
    BY <1>1, AppendProperties
  <2>2. Len(t) = m + 1 /\ m \in Nat
    BY <1>1, <1>2, AppendProperties, LenProperties
  <2>3. t[m + 1] = x
    BY <1>1, <1>2, AppendProperties
  <2>4. DOMAIN s = 1 .. m /\ DOMAIN t = 1 .. m + 1
    BY <1>2, <2>1, <2>2, LenProperties
  <2> QED BY <2>2, <2>3, <2>4
<1>4. \A i \in 1 .. m : t[i] = s[i]
  BY <1>1, <1>2, AppendProperties
<1>5. ToSet(s) = {s[i] : i \in 1 .. m} /\ ToSet(t) = {t[i] : i \in 1 .. m + 1}
  BY <1>3 DEF ToSet
<1>6. \A i \in 1 .. m : t[i] # x
  BY <1>4, <1>5
<1>7. Injective(t)
  <2> SUFFICES ASSUME NEW i \in 1 .. m + 1, NEW j \in 1 .. m + 1, t[i] = t[j] PROVE i = j
    BY <1>3 DEF Injective
  <2>1. (i \in 1 .. m \/ i = m + 1) /\ (j \in 1 .. m \/ j = m + 1)
    BY <1>3
  <2>2. CASE i \in 1 .. m /\ j \in 1 .. m
    <3>1. s[i] = s[j]
      BY <1>4, <2>2
    <3> QED BY <1>3, <2>2, <3>1 DEF Injective
  <2> QED BY <1>3, <1>6, <2>1, <2>2
<1>8. ToSet(t) = ToSet(s) \cup {x}
  <2>1. 1 .. m + 1 = (1 .. m) \cup {m + 1}
    BY <1>3
  <2> QED BY <1>3, <1>4, <1>5, <2>1
<1> QED BY <1>1, <1>7, <1>8

\* A leaf's names are collected once each.
LEMMA CollectProperties ==
  ASSUME NEW recs \in Seq(Records), Distinct(recs)
  PROVE  /\ Collect(recs) \in Seq(Names \cup Dots) /\ Injective(Collect(recs))
         /\ ToSet(Collect(recs)) = NamesIn(recs)
<1> DEFINE n == Len(recs)
<1>0. n \in Nat /\ DOMAIN recs = 1 .. n
  BY RecordFacts
<1>1. PICK f : /\ f[0] = << >> /\ Collect(recs) = f[n]
               /\ \A k \in 1 .. n : f[k] = CollectOne(f[k - 1], recs[k])
               /\ \A k \in 0 .. n : f[k] \in Seq(Names \cup Dots)
  BY CollectRun
<1> HIDE DEF n
<1> DEFINE Found(k) == {recs[j].name : j \in 1 .. k} \ {Hole}
           Good(k) == Injective(f[k]) /\ ToSet(f[k]) = Found(k)
           e == [k \in 0 .. n |-> IF Good(k) THEN TRUE ELSE FALSE]
<1>2. Good(0)
  <2>1. ToSet(<< >>) = {} /\ Injective(<< >>)
    BY DEF ToSet, Injective
  <2>2. Found(0) = {}
    OBVIOUS
  <2> QED BY <1>1, <2>1, <2>2
<1>3. ASSUME NEW k \in 1 .. n, Good(k - 1) PROVE Good(k)
  <2>0. k - 1 \in 0 .. n /\ k \in 0 .. n /\ 1 .. k = (1 .. (k - 1)) \cup {k} /\ k \notin 1 .. (k - 1)
    BY <1>0
  <2>1. Found(k) = Found(k - 1) \cup ({recs[k].name} \ {Hole})
    BY <2>0
  <2>2. f[k] = CollectOne(f[k - 1], recs[k])
    BY <1>1
  <2>3. CASE recs[k].name = Hole
    <3>1. f[k] = f[k - 1]
      BY <2>2, <2>3 DEF CollectOne
    <3>2. Found(k) = Found(k - 1)
      BY <2>1, <2>3
    <3> HIDE DEF Found
    <3> QED BY <1>3, <3>1, <3>2
  <2>4. CASE recs[k].name # Hole
    <3>0. PICK s \in Seq(Names \cup Dots) : s = f[k - 1]
      BY <1>1, <2>0
    <3>x. PICK x : x = recs[k].name
      OBVIOUS
    <3>1. s = f[k - 1] /\ x = recs[k].name
      BY <3>0, <3>x
    <3>2. x \in Names \cup Dots
      <4>1. recs[k].name \in Names \cup Dots \cup {Hole}
        BY RecordFacts DEF n
      <4> QED BY <2>4, <3>1, <4>1
    <3>3. f[k] = Append(s, x)
      BY <2>2, <2>4, <3>1 DEF CollectOne
    <3>4. Injective(s) /\ ToSet(s) = Found(k - 1)
      BY <1>3, <3>1
    <3>5. x \notin Found(k - 1)
      <4> SUFFICES ASSUME NEW j \in 1 .. (k - 1), recs[j].name = x PROVE FALSE
        OBVIOUS
      <4>1. j \in 1 .. n /\ k \in 1 .. n /\ j # k
        BY <1>0, <2>0
      <4> QED BY <1>0, <2>4, <3>1, <4>1 DEF Distinct
    <3> HIDE DEF Found
    <3>6. Injective(Append(s, x)) /\ ToSet(Append(s, x)) = ToSet(s) \cup {x}
      BY <3>2, <3>4, <3>5, AppendNew
    <3>7. ToSet(Append(s, x)) = Found(k)
      BY <2>1, <2>4, <3>1, <3>4, <3>6
    <3> QED BY <3>3, <3>6, <3>7
  <2> QED BY <2>3, <2>4
<1>4. \A k \in 0 .. n : Good(k)
  <2> DEFINE A == {TRUE}
  <2>1. e[0] \in A /\ \A k \in 1 .. n : e[k - 1] \in A => e[k] \in A
    <3>1. ASSUME NEW k \in 1 .. n, e[k - 1] \in A PROVE e[k] \in A
      <4>1. k - 1 \in 0 .. n /\ k \in 0 .. n
        BY <1>0
      <4>2. Good(k - 1)
        <5> HIDE DEF Good
        <5> QED BY <3>1, <4>1
      <4>3. Good(k)
        <5> HIDE DEF Good
        <5> QED BY <1>3, <4>2
      <4> HIDE DEF Good
      <4> QED BY <4>1, <4>3
    <3>2. e[0] \in A
      <4> HIDE DEF Good
      <4> QED BY <1>0, <1>2
    <3> HIDE DEF e, A
    <3> QED BY <3>1, <3>2
  <2>2. \A k \in 0 .. n : e[k] \in A
    <3> HIDE DEF e, A
    <3> QED BY <1>0, <2>1, StaysIn
  <2> HIDE DEF Good
  <2> QED BY <2>2
<1>5. Good(n)
  <2> HIDE DEF Good
  <2> QED BY <1>0, <1>4
<1>6. Found(n) = NamesIn(recs)
  <2>1. ToSet(recs) = {recs[j] : j \in 1 .. n}
    BY <1>0 DEF ToSet
  <2> QED BY <2>1 DEF NamesIn
<1>7. f[n] \in Seq(Names \cup Dots)
  BY <1>0, <1>1
<1> HIDE DEF Found
<1> QED BY <1>1, <1>5, <1>6, <1>7

\* Elements of one set are those of a larger one, if they are all in it.
LEMMA SeqInto ==
  ASSUME NEW S, NEW s \in Seq(S), NEW T, ToSet(s) \subseteq T
  PROVE  s \in Seq(T)
<1>1. s \in [1 .. Len(s) -> S] /\ Len(s) \in Nat /\ DOMAIN s = 1 .. Len(s)
  BY LenProperties
<1>2. \A i \in 1 .. Len(s) : s[i] \in T
  BY <1>1 DEF ToSet
<1> QED BY <1>1, <1>2

\* The halves of a sequence of different names share none of them.
\* The halves of a sequence of members of S.
Halves(S, s, h, mid) ==
  /\ h.left \in Seq(S) /\ Len(h.left) = mid
  /\ h.right \in Seq(S) /\ Len(h.right) = Len(s) - mid
  /\ \A j \in 1 .. mid : h.left[j] = s[j]
  /\ \A j \in 1 .. Len(s) - mid : h.right[j] = s[j + mid]

LEMMA SplitAtIs ==
  ASSUME NEW S, NEW s \in Seq(S), Len(s) >= 2
  PROVE  \E mid \in 1 .. Len(s) - 1 : Halves(S, s, SplitAt(s), mid)
<1> DEFINE mid == Len(s) \div 2
           a == SubSeq(s, 1, mid)
           b == SubSeq(s, mid + 1, Len(s))
<1>0. Len(s) \in Nat /\ \A j \in 1 .. Len(s) : s[j] \in S
  BY LenProperties
<1>1. mid \in 1 .. Len(s) - 1
  BY <1>0
<1>2. SplitAt(s).left = a /\ SplitAt(s).right = b
  BY DEF SplitAt
<1> HIDE DEF mid
<1>3. a \in Seq(S) /\ Len(a) = mid /\ \A j \in 1 .. mid : a[j] = s[j]
  <2>1. \A j \in 1 .. mid : s[j] \in S
    BY <1>0, <1>1
  <2>2. mid \in Int
    BY <1>1
  <2> HIDE DEF a
  <2>3. /\ a \in Seq(S) /\ Len(a) = (IF 1 <= mid THEN mid - 1 + 1 ELSE 0)
        /\ \A j \in 1 .. mid - 1 + 1 : a[j] = s[1 + j - 1]
    BY <2>1, <2>2, SubSeqProperties DEF a
  <2> QED BY <1>0, <1>1, <2>3
<1>4. b \in Seq(S) /\ Len(b) = Len(s) - mid /\ \A j \in 1 .. Len(s) - mid : b[j] = s[j + mid]
  <2>1. \A j \in mid + 1 .. Len(s) : s[j] \in S
    BY <1>0, <1>1
  <2>2. mid + 1 \in Int /\ Len(s) \in Int
    BY <1>0, <1>1
  <2> HIDE DEF b
  <2>3. /\ b \in Seq(S) /\ Len(b) = (IF mid + 1 <= Len(s) THEN Len(s) - (mid + 1) + 1 ELSE 0)
        /\ \A j \in 1 .. Len(s) - (mid + 1) + 1 : b[j] = s[(mid + 1) + j - 1]
    BY <2>1, <2>2, SubSeqProperties DEF b
  <2> QED BY <1>0, <1>1, <2>3
<1> HIDE DEF a, b
<1>5. Halves(S, s, SplitAt(s), mid)
  BY <1>2, <1>3, <1>4 DEF Halves
<1> QED BY <1>1, <1>5

LEMMA SplitAtProperties ==
  ASSUME NEW S, NEW s \in Seq(S), Injective(s), Len(s) >= 2
  PROVE  LET h == SplitAt(s)
         IN  /\ h.left \in Seq(S) /\ Injective(h.left)
             /\ h.right \in Seq(S) /\ Injective(h.right) /\ Len(h.right) >= 1
             /\ ToSet(h.left) \cup ToSet(h.right) = ToSet(s)
             /\ ToSet(h.left) \cap ToSet(h.right) = {}
<1>1. PICK mid \in 1 .. Len(s) - 1 : Halves(S, s, SplitAt(s), mid)
  BY SplitAtIs
<1>2. PICK a, b : SplitAt(s).left = a /\ SplitAt(s).right = b
  OBVIOUS
<1>3. a \in Seq(S) /\ Len(a) = mid /\ \A j \in 1 .. mid : a[j] = s[j]
  BY <1>1, <1>2 DEF Halves
<1>4. b \in Seq(S) /\ Len(b) = Len(s) - mid /\ \A j \in 1 .. Len(s) - mid : b[j] = s[j + mid]
  BY <1>1, <1>2 DEF Halves
<1>0. /\ Len(s) \in Nat /\ DOMAIN s = 1 .. Len(s) /\ \A j \in 1 .. Len(s) : s[j] \in S
      /\ ToSet(s) = {s[j] : j \in 1 .. Len(s)}
  BY LenProperties DEF ToSet
<1>5. /\ DOMAIN a = 1 .. mid /\ DOMAIN b = 1 .. Len(s) - mid
      /\ ToSet(a) = {a[j] : j \in 1 .. mid} /\ ToSet(b) = {b[j] : j \in 1 .. Len(s) - mid}
  <2>1. DOMAIN a = 1 .. mid
    BY <1>3, LenProperties
  <2>2. DOMAIN b = 1 .. Len(s) - mid
    BY <1>4, LenProperties
  <2> QED BY <2>1, <2>2 DEF ToSet
<1>6. \A i, j \in 1 .. Len(s) : s[i] = s[j] => i = j
  BY <1>0 DEF Injective
<1>7. Injective(a)
  BY <1>0, <1>1, <1>3, <1>5, <1>6 DEF Injective
<1>8. Injective(b)
  <2> SUFFICES ASSUME NEW i \in 1 .. Len(s) - mid, NEW j \in 1 .. Len(s) - mid, b[i] = b[j]
               PROVE  i = j
    BY <1>5 DEF Injective
  <2>1. i + mid \in 1 .. Len(s) /\ j + mid \in 1 .. Len(s) /\ s[i + mid] = s[j + mid]
    BY <1>0, <1>1, <1>4
  <2>2. i + mid = j + mid
    BY <1>6, <2>1
  <2> QED BY <1>1, <2>2
<1>9. ToSet(a) \cup ToSet(b) = ToSet(s)
  <2>1. \A i \in 1 .. mid : i \in 1 .. Len(s) /\ a[i] = s[i]
    BY <1>0, <1>1, <1>3
  <2>2. \A i \in 1 .. Len(s) - mid : i + mid \in 1 .. Len(s) /\ b[i] = s[i + mid]
    BY <1>0, <1>1, <1>4
  <2>3. ToSet(a) \cup ToSet(b) \subseteq ToSet(s)
    BY <1>0, <1>5, <2>1, <2>2
  <2>4. ASSUME NEW i \in 1 .. Len(s) PROVE s[i] \in ToSet(a) \cup ToSet(b)
    <3>1. CASE i <= mid
      <4>1. i \in 1 .. mid /\ a[i] = s[i]
        BY <1>0, <1>1, <1>3, <3>1
      <4> QED BY <1>5, <4>1
    <3>2. CASE i > mid
      <4>1. i - mid \in 1 .. Len(s) - mid /\ (i - mid) + mid = i
        BY <1>0, <1>1, <3>2
      <4>2. b[i - mid] = s[i]
        BY <1>4, <4>1
      <4> QED BY <1>5, <4>1, <4>2
    <3> QED BY <1>0, <1>1, <3>1, <3>2
  <2> QED BY <1>0, <2>3, <2>4
<1>10. ToSet(a) \cap ToSet(b) = {}
  <2> SUFFICES ASSUME NEW i \in 1 .. mid, NEW j \in 1 .. Len(s) - mid, a[i] = b[j] PROVE FALSE
    BY <1>5
  <2>1. i \in 1 .. Len(s) /\ j + mid \in 1 .. Len(s) /\ i # j + mid
    BY <1>0, <1>1
  <2>2. s[i] = s[j + mid]
    BY <1>3, <1>4
  <2> QED BY <1>6, <2>1, <2>2
<1>11. Len(b) >= 1
  BY <1>0, <1>1, <1>4
<1> QED BY <1>2, <1>3, <1>4, <1>7, <1>8, <1>9, <1>10, <1>11

\* The hash of the first name on the right parts the names of the two halves.
Parted(h) ==
  /\ h.right[1] \in ToSet(h.right)
  /\ \A n \in ToSet(h.left) : Hash[n] <= Hash[h.right[1]]
  /\ \A n \in ToSet(h.right) : Hash[h.right[1]] <= Hash[n]

LEMMA SplitAtParts ==
  ASSUME NEW s \in Seq(Names), Len(s) >= 2, Ascending(s, Hash)
  PROVE  Parted(SplitAt(s))
<1>1. PICK h : h = SplitAt(s)
  OBVIOUS
<1>2. PICK mid \in 1 .. Len(s) - 1 : Halves(Names, s, h, mid)
  BY <1>1, SplitAtIs
<1>a. /\ h.left \in Seq(Names) /\ Len(h.left) = mid
      /\ h.right \in Seq(Names) /\ Len(h.right) = Len(s) - mid
      /\ \A j \in 1 .. mid : h.left[j] = s[j]
      /\ \A j \in 1 .. Len(s) - mid : h.right[j] = s[j + mid]
  BY <1>2 DEF Halves
<1>3. /\ Len(s) \in Nat /\ mid \in Nat
      /\ \A j \in 1 .. Len(s) : s[j] \in Names /\ Hash[s[j]] \in Nat
  <2>1. Len(s) \in Nat /\ \A j \in 1 .. Len(s) : s[j] \in Names
    BY LenProperties
  <2>2. \A n \in Names : Hash[n] \in Nat
    BY DirectoryAssumption
  <2> QED BY <2>1, <2>2
<1>4. /\ \A n \in ToSet(h.left) : \E j \in 1 .. mid : n = s[j]
      /\ \A n \in ToSet(h.right) : \E j \in 1 .. Len(s) - mid : n = s[j + mid]
      /\ \A j \in 1 .. Len(s) - mid : s[j + mid] \in ToSet(h.right)
  <2>1. DOMAIN h.left = 1 .. mid
    BY <1>a, LenProperties
  <2>2. DOMAIN h.right = 1 .. Len(s) - mid
    BY <1>a, LenProperties
  <2>3. ToSet(h.left) = {h.left[j] : j \in 1 .. mid}
    BY <2>1 DEF ToSet
  <2>4. ToSet(h.right) = {h.right[j] : j \in 1 .. Len(s) - mid}
    BY <2>2 DEF ToSet
  <2> QED BY <1>a, <2>3, <2>4
<1>5. 1 \in 1 .. Len(s) - mid /\ mid + 1 \in 1 .. Len(s) /\ h.right[1] = s[1 + mid]
  BY <1>a, <1>3
<1>6. \A i, j \in 1 .. Len(s) : i <= j => Hash[s[i]] <= Hash[s[j]]
  <2> TAKE i, j \in 1 .. Len(s)
  <2>1. CASE i = j
    BY <1>3, <2>1
  <2>2. CASE i < j
    BY <2>2 DEF Ascending
  <2> QED BY <2>1, <2>2
<1>7. ASSUME NEW j \in 1 .. mid PROVE Hash[s[j]] <= Hash[s[1 + mid]]
  BY <1>3, <1>5, <1>6
<1>8. ASSUME NEW j \in 1 .. Len(s) - mid PROVE Hash[s[1 + mid]] <= Hash[s[j + mid]]
  <2>1. j + mid \in 1 .. Len(s) /\ 1 + mid \in 1 .. Len(s) /\ 1 + mid <= j + mid
    BY <1>3
  <2> QED BY <1>6, <2>1
<1>9. s[1 + mid] \in ToSet(h.right)
  BY <1>4, <1>5
<1> QED BY <1>1, <1>4, <1>5, <1>7, <1>8, <1>9 DEF Parted

\* Names packed into an empty leaf, one record each; what is left is a hole.
LEMMA PackProperties ==
  ASSUME NEW items \in Seq(Names), Injective(items)
  PROVE  /\ PackLeaf(items) \in Seq(FileRecords) /\ Distinct(PackLeaf(items))
         /\ NamesIn(PackLeaf(items)) = ToSet(items)
         /\ PackLen(items) \in Nat
         /\ ~(PackLen(items) > BlockLen) => Tiles(PackLeaf(items))
<1> DEFINE n == Len(items)
           p == Packed(items)
<1>0. /\ n \in Nat /\ DOMAIN items = 1 .. n /\ \A i \in 1 .. n : items[i] \in Names
      /\ ToSet(items) = {items[i] : i \in 1 .. n}
  BY LenProperties DEF ToSet
<1>1. \A i \in 1 .. n : /\ Rec(Size[items[i]], items[i]) \in FileRecords
                        /\ Rec(Size[items[i]], items[i]).len = Size[items[i]]
                        /\ Rec(Size[items[i]], items[i]).name = items[i]
  <2>1. \A m \in Names : Size[m] \in 1 .. BlockLen
    BY RecordFacts
  <2>3. \A len \in 1 .. BlockLen, name \in Names \cup {Hole} :
          /\ Rec(len, name) \in FileRecords /\ Rec(len, name).len = len /\ Rec(len, name).name = name
    BY DEF Rec, FileRecords
  <2> QED BY <1>0, <2>1, <2>3
<1>2. p = [i \in 1 .. n |-> Rec(Size[items[i]], items[i])]
  BY <1>0 DEF Packed
<1>3. /\ p \in Seq(FileRecords) /\ Len(p) = n /\ DOMAIN p = 1 .. n
      /\ \A i \in 1 .. n : p[i].len = Size[items[i]] /\ p[i].name = items[i]
  <2>1. p \in [1 .. n -> FileRecords]
    BY <1>1, <1>2
  <2> HIDE DEF p
  <2>2. p \in Seq(FileRecords) /\ DOMAIN p = 1 .. n
    BY <1>0, <2>1
  <2>3. Len(p) = n
    BY <1>0, <2>2, LenProperties
  <2>4. \A i \in 1 .. n : p[i].len = Size[items[i]] /\ p[i].name = items[i]
    BY <1>1, <1>2
  <2> QED BY <2>2, <2>3, <2>4
<1>4. p \in Seq(Records)
  BY <1>3, RecordFacts
<1>5. PICK f : Places(p, f) /\ Offset(p, n + 1) = f[n]
  <2> HIDE DEF p, n
  <2>1. PICK f : Places(p, f) /\ Offset(p, Len(p) + 1) = f[Len(p)]
    BY <1>4, OffsetRun
  <2> QED BY <1>3, <2>1
<1>6. PackLen(items) = f[n] /\ f[n] \in Nat
  BY <1>0, <1>3, <1>5 DEF PackLen, Places
<1>7. PackLeaf(items) =
        IF f[n] < BlockLen THEN Append(p, Rec(BlockLen - f[n], Hole)) ELSE p
  BY <1>6 DEF PackLeaf
<1>n. \A i, j \in 1 .. n : items[i] = items[j] => i = j
  BY <1>0 DEF Injective
<1>u. \A i \in 1 .. n : UsedLen(p[i]) <= p[i].len
  <2>1. \A i \in 1 .. n : items[i] # Hole /\ Size[items[i]] \in Nat
    BY <1>0, RecordFacts
  <2> HIDE DEF p, n
  <2> QED BY <1>3, <2>1 DEF UsedLen
<1> HIDE DEF n, p
<1>8. CASE ~(f[n] < BlockLen)
  <2>1. PackLeaf(items) = p
    BY <1>7, <1>8
  <2>2. Distinct(p)
    BY <1>3, <1>n DEF Distinct
  <2>3. NamesIn(p) = ToSet(items)
    <3>1. \A m : m \in NamesIn(p) <=> m # Hole /\ \E i \in 1 .. n : p[i].name = m
      BY <1>3, <1>4, NameFacts
    <3>2. Hole \notin Names
      BY RecordFacts
    <3> QED BY <1>0, <1>3, <3>1, <3>2
  <2>4. ASSUME ~(PackLen(items) > BlockLen) PROVE Tiles(p)
    <3>1. f[n] = BlockLen
      BY <1>6, <1>8, <2>4, DirectoryAssumption
    <3> QED BY <1>3, <1>5, <1>u, <3>1 DEF Tiles
  <2> QED BY <1>3, <1>6, <2>1, <2>2, <2>3, <2>4
<1>9. CASE f[n] < BlockLen
  <2>1. PICK r : r = Rec(BlockLen - f[n], Hole)
    OBVIOUS
  <2>2. r \in FileRecords /\ r.len = BlockLen - f[n] /\ r.name = Hole
    <3>1. BlockLen - f[n] \in 1 .. BlockLen
      BY <1>6, <1>9, DirectoryAssumption
    <3> QED BY <2>1, <3>1 DEF Rec, FileRecords
  <2>3. PICK u : u = Append(p, r)
    OBVIOUS
  <2>4. PackLeaf(items) = u
    BY <1>7, <1>9, <2>1, <2>3
  <2>5. u \in Seq(FileRecords) /\ Len(u) = n + 1
    <3>1. u \in Seq(FileRecords)
      BY <1>3, <2>2, <2>3, AppendProperties
    <3>2. Len(u) = Len(p) + 1
      BY <1>3, <2>2, <2>3, AppendProperties
    <3> QED BY <1>3, <3>1, <3>2
  <2>6. (\A i \in 1 .. n : u[i] = p[i]) /\ u[n + 1] = r
    <3>1. \A i \in 1 .. Len(p) : u[i] = p[i]
      BY <1>3, <2>2, <2>3, AppendProperties
    <3>2. u[Len(p) + 1] = r
      BY <1>3, <2>2, <2>3, AppendProperties
    <3> QED BY <1>3, <3>1, <3>2
  <2>7. PICK m : m = n + 1
    OBVIOUS
  <2>8. /\ DOMAIN u = 1 .. m /\ u \in Seq(Records) /\ m \in Nat
        /\ \A i \in 1 .. m : i \in 1 .. n \/ i = m
        /\ \A i \in 1 .. n : i \in 1 .. m /\ i # m
    BY <1>0, <2>5, <2>7, RecordFacts, LenProperties
  <2>9. Hole \notin Names /\ \A i \in 1 .. n : p[i].name # Hole
    BY <1>0, <1>3, RecordFacts
  <2>10. Distinct(u)
    BY <1>3, <1>n, <2>2, <2>6, <2>7, <2>8, <2>9 DEF Distinct
  <2>11. NamesIn(u) = ToSet(items)
    <3>1. \A x : x \in NamesIn(u) <=> x # Hole /\ \E i \in 1 .. m : u[i].name = x
      BY <2>5, <2>7, <2>8, NameFacts
    <3>2. ASSUME NEW x \in NamesIn(u) PROVE x \in ToSet(items)
      <4>1. PICK i \in 1 .. m : u[i].name = x /\ x # Hole
        BY <3>1
      <4>2. i \in 1 .. n
        BY <2>2, <2>6, <2>7, <2>8, <4>1
      <4> QED BY <1>0, <1>3, <2>6, <4>1, <4>2
    <3>3. ASSUME NEW i \in 1 .. n PROVE items[i] \in NamesIn(u)
      <4>1. u[i].name = items[i] /\ items[i] # Hole /\ i \in 1 .. m
        BY <1>3, <2>6, <2>8, <2>9
      <4> QED BY <3>1, <4>1
    <3> QED BY <1>0, <3>2, <3>3
  <2>12. Tiles(u)
    <3> DEFINE g == [k \in 0 .. m |-> IF k = m THEN BlockLen ELSE f[k]]
    <3>0. /\ f[0] = 0 /\ \A k \in 1 .. n : f[k] = f[k - 1] + p[k].len
          /\ \A k \in 0 .. n : f[k] \in Nat
      BY <1>3, <1>5 DEF Places
    <3>1. /\ \A k \in 0 .. n : g[k] = f[k] /\ k \in 0 .. m
          /\ g[m] = BlockLen /\ m - 1 = n /\ m # 0
      BY <1>0, <2>7
    <3> HIDE DEF g
    <3>2. ASSUME NEW k \in 1 .. m PROVE g[k] = g[k - 1] + u[k].len
      <4>1. CASE k = m
        <5>1. g[k - 1] = f[n] /\ g[k] = BlockLen /\ u[k].len = BlockLen - f[n]
          BY <1>0, <2>2, <2>6, <2>7, <3>1, <4>1
        <5> QED BY <1>6, <5>1, DirectoryAssumption
      <4>2. CASE k # m
        <5>1. k \in 1 .. n /\ k - 1 \in 0 .. n /\ k \in 0 .. n
          BY <1>0, <2>8, <4>2
        <5>2. g[k] = f[k] /\ g[k - 1] = f[k - 1] /\ u[k] = p[k]
          BY <2>6, <3>1, <5>1
        <5> QED BY <3>0, <5>1, <5>2
      <4> QED BY <4>1, <4>2
    <3>3. \A k \in 0 .. m : g[k] \in Nat
      <4>1. \A k \in 0 .. m : k \in 0 .. n \/ k = m
        BY <1>0, <2>7
      <4> QED BY <3>0, <3>1, <4>1, DirectoryAssumption
    <3>4. g[0] = 0
      BY <1>0, <3>0, <3>1
    <3>5. Places(u, g) /\ g[Len(u)] = BlockLen
      BY <2>5, <2>7, <3>1, <3>2, <3>3, <3>4 DEF Places
    <3>6. ASSUME NEW k \in 1 .. Len(u) PROVE UsedLen(u[k]) <= u[k].len
      <4>1. CASE k = m
        <5>1. UsedLen(u[k]) = 0 /\ u[k].len \in Nat
          BY <1>6, <1>9, <2>2, <2>6, <2>7, <4>1, DirectoryAssumption DEF UsedLen
        <5> QED BY <5>1
      <4>2. CASE k # m
        <5>1. k \in 1 .. n /\ u[k] = p[k]
          BY <2>5, <2>6, <2>7, <2>8, <4>2
        <5> QED BY <1>u, <5>1
      <4> QED BY <4>1, <4>2
    <3> QED BY <3>5, <3>6 DEF Tiles
  <2> QED BY <1>6, <2>4, <2>5, <2>10, <2>11, <2>12
<1> QED BY <1>8, <1>9

-----------------------------------------------------------------------------
(* The names of block 0 move to the new leaf of an upgrade.                 *)

NewLeaf == [ok |-> TRUE, recs |-> Empty, torn |-> FALSE]

\* A leaf whose records tile it, unless one was torn.
SoundLeaf(leaf) == Distinct(leaf.recs) /\ (~leaf.torn => Tiles(leaf.recs))

LEMMA NewLeafProperties ==
  /\ Empty \in Seq(FileRecords) /\ Len(Empty) = 1 /\ Empty[1] = Rec(BlockLen, Hole)
  /\ Distinct(Empty) /\ Tiles(Empty) /\ NamesIn(Empty) = {}
  /\ NewLeaf \in Leaves /\ NewLeaf.ok /\ NewLeaf.recs = Empty /\ SoundLeaf(NewLeaf)
<1>0. BlockLen \in Nat \ {0}
  <2>1. Size[Dot] \in Nat /\ Size[DotDot] \in Nat
    BY DirectoryAssumption DEF Dots
  <2> QED BY <2>1, DirectoryAssumption
<1>1. PICK r : r = Rec(BlockLen, Hole)
  OBVIOUS
<1>2. r \in FileRecords /\ r.len = BlockLen /\ r.name = Hole
  BY <1>0, <1>1 DEF Rec, FileRecords
<1>3. Empty = <<r>>
  BY <1>1 DEF Empty
<1>4. Empty \in Seq(FileRecords) /\ Len(Empty) = 1 /\ Empty[1] = r /\ DOMAIN Empty = 1 .. 1
  BY <1>2, <1>3
<1>5. Distinct(Empty)
  BY <1>4 DEF Distinct
<1>6. NamesIn(Empty) = {}
  <2>1. \A n : n \in NamesIn(Empty) <=> n # Hole /\ \E i \in 1 .. Len(Empty) : Empty[i].name = n
    BY <1>4, RecordFacts, NameFacts
  <2> QED BY <1>2, <1>4, <2>1
<1>7. Tiles(Empty)
  <2> DEFINE f == [k \in 0 .. 1 |-> IF k = 0 THEN 0 ELSE BlockLen]
  <2>1. f[0] = 0 /\ f[1] = BlockLen
    OBVIOUS
  <2> HIDE DEF f
  <2>2. \A k \in 0 .. 1 : k = 0 \/ k = 1
    OBVIOUS
  <2>3. \A k \in 1 .. 1 : f[k] = f[k - 1] + Empty[k].len
    BY <1>0, <1>2, <1>4, <2>1
  <2>4. \A k \in 0 .. 1 : f[k] \in Nat
    BY <1>0, <2>1, <2>2
  <2>5. Places(Empty, f) /\ f[Len(Empty)] = BlockLen
    BY <1>4, <2>1, <2>3, <2>4 DEF Places
  <2>6. \A j \in 1 .. Len(Empty) : UsedLen(Empty[j]) <= Empty[j].len
    BY <1>0, <1>2, <1>4 DEF UsedLen
  <2> QED BY <2>5, <2>6 DEF Tiles
<1>8. NewLeaf \in Leaves /\ NewLeaf.ok /\ NewLeaf.recs = Empty
  BY <1>4 DEF NewLeaf, Leaves
<1> QED BY <1>1, <1>4, <1>5, <1>6, <1>7, <1>8 DEF SoundLeaf

LEMMA MoveNameProperties ==
  ASSUME NEW leaf \in Leaves, NEW n \in Names \cup Dots
  PROVE  /\ MoveName(leaf, n) \in Leaves
         /\ MoveName(leaf, n).ok => leaf.ok
         /\ MoveName(leaf, n).ok =>
              NamesIn(MoveName(leaf, n).recs) = NamesIn(leaf.recs) \cup ({n} \ Dots)
         /\ SoundLeaf(leaf) /\ n \notin NamesIn(leaf.recs) => SoundLeaf(MoveName(leaf, n))
<1>1. leaf.recs \in Seq(FileRecords) /\ leaf.torn \in BOOLEAN /\ leaf.ok \in BOOLEAN
  BY DEF Leaves
<1>2. CASE ~leaf.ok \/ n \in Dots
  <2>1. MoveName(leaf, n) = leaf
    BY <1>2 DEF MoveName
  <2>2. leaf.ok => {n} \ Dots = {}
    BY <1>2
  <2> QED BY <2>1, <2>2
<1>3. CASE leaf.ok /\ n \notin Dots
  <2>1. PICK t : t = TryInsertLeaf(leaf.recs, n)
    OBVIOUS
  <2>0. n \in Names /\ FileRecords \in BlockSorts
    BY <1>3 DEF BlockSorts
  <2>2. t \in Leaves
    BY <1>1, <2>0, <2>1, TryInsertType DEF Leaves
  <2>3. PICK u : u = MoveName(leaf, n)
    OBVIOUS
  <2>4. u = [t EXCEPT !.torn = @ \/ leaf.torn]
    BY <1>3, <2>1, <2>3 DEF MoveName
  <2>5. u \in Leaves /\ u.ok = t.ok /\ u.recs = t.recs /\ (u.torn <=> t.torn \/ leaf.torn)
    BY <1>1, <2>2, <2>4 DEF Leaves
  <2>6. t.ok => NamesIn(t.recs) = NamesIn(leaf.recs) \cup {n}
    BY <1>1, <2>0, <2>1, TryInsertType
  <2>7. Distinct(leaf.recs) /\ n \notin NamesIn(leaf.recs) => Distinct(t.recs)
    BY <1>1, <2>0, <2>1, TryInsertType
  <2>8. Tiles(leaf.recs) /\ ~t.torn => Tiles(t.recs)
    BY <1>1, <2>0, <2>1, TryInsertType
  <2>9. u.ok => NamesIn(u.recs) = NamesIn(leaf.recs) \cup ({n} \ Dots)
    BY <1>3, <2>5, <2>6
  <2>10. SoundLeaf(leaf) /\ n \notin NamesIn(leaf.recs) => SoundLeaf(u)
    BY <2>5, <2>7, <2>8 DEF SoundLeaf
  <2> QED BY <1>3, <2>3, <2>5, <2>9, <2>10
<1> QED BY <1>2, <1>3

\* The leaf after the first names, and at last after all.
LEMMA MovedRun ==
  ASSUME NEW recs, Collect(recs) \in Seq(Names \cup Dots)
  PROVE  \E f : /\ f[0] = NewLeaf /\ Moved(recs) = f[Len(Collect(recs))]
                /\ \A k \in 1 .. Len(Collect(recs)) : f[k] = MoveName(f[k - 1], Collect(recs)[k])
                /\ \A k \in 0 .. Len(Collect(recs)) : f[k] \in Leaves
<1> DEFINE n == Len(Collect(recs))
           A == Leaves
           q == Collect(recs)
<1>0. /\ n \in Nat /\ DOMAIN q = 1 .. n
      /\ \A k \in 1 .. n : q[k] \in Names \cup Dots
  BY LenProperties
<1>a. \A a \in A, k \in 1 .. n : MoveName(a, q[k]) \in A
  <2> HIDE DEF n, q
  <2> QED BY <1>0, MoveNameProperties
<1>b. NewLeaf \in A
  BY NewLeafProperties
<1> HIDE DEF n, A, q
<1> DEFINE P == SUBSET (1 .. n)
           G == [p \in A \X (1 .. n) |-> MoveName(p[1], q[p[2]])]
<1>1. G \in [A \X (1 .. n) -> A]
  BY <1>0, <1>a
<1>2. PICK it : IsRun(n, NewLeaf, G, it) /\ \A pos \in P : it[pos] \in A
  <2> HIDE DEF G
  <2> QED BY <1>0, <1>1, <1>b, RunExists
<1>3. ASSUME NEW pos \in P
      PROVE  RunStep(NewLeaf, G, it, pos) =
               IF pos = {} THEN NewLeaf ELSE MoveName(it[pos \ {Max(pos)}], q[Max(pos)])
  <2>1. CASE pos = {}
    BY <2>1 DEF RunStep
  <2>2. CASE pos # {}
    <3>1. Max(pos) \in 1 .. n /\ pos \ {Max(pos)} \in P
      BY <1>0, <2>2, TakeLast
    <3>2. <<it[pos \ {Max(pos)}], Max(pos)>> \in A \X (1 .. n)
      BY <1>2, <3>1
    <3>3. G[<<it[pos \ {Max(pos)}], Max(pos)>>] = MoveName(it[pos \ {Max(pos)}], q[Max(pos)])
      BY <3>2
    <3> QED BY <2>2, <3>3 DEF RunStep
  <2> QED BY <2>1, <2>2
<1>4. it = [pos \in P |-> IF pos = {} THEN NewLeaf ELSE MoveName(it[pos \ {Max(pos)}], q[Max(pos)])]
  <2> HIDE DEF G
  <2>1. it = [pos \in P |-> RunStep(NewLeaf, G, it, pos)]
    BY <1>2 DEF IsRun
  <2> QED BY <1>3, <2>1
<1> DEFINE w == CHOOSE w : w = [pos \in SUBSET DOMAIN q |->
                     IF pos = {} THEN NewLeaf ELSE MoveName(w[pos \ {Max(pos)}], q[Max(pos)])]
<1>5. w = [pos \in P |-> IF pos = {} THEN NewLeaf ELSE MoveName(w[pos \ {Max(pos)}], q[Max(pos)])]
  BY <1>0, <1>4
<1>6. Moved(recs) = w[1 .. n]
  BY <1>0 DEF FoldLeft, MapThenFoldSet, Moved, NewLeaf, q
<1> HIDE DEF w
<1> DEFINE f == [k \in 0 .. n |-> w[1 .. k]]
<1>7. f[0] = NewLeaf
  <2>1. 1 .. 0 = {} /\ {} \in P
    OBVIOUS
  <2>2. w[{}] = NewLeaf
    BY <1>5
  <2> QED BY <1>0, <2>1, <2>2
<1>8. ASSUME NEW k \in 1 .. n PROVE f[k] = MoveName(f[k - 1], q[k])
  <2>1. /\ Max(1 .. k) = k /\ (1 .. k) \ {k} = 1 .. (k - 1)
        /\ 1 .. k \in P /\ 1 .. k # {}
    BY <1>0, PrefixOf
  <2>2. w[1 .. k] = MoveName(w[1 .. (k - 1)], q[k])
    BY <1>5, <2>1
  <2>3. f[k] = w[1 .. k] /\ f[k - 1] = w[1 .. (k - 1)]
    BY <1>0
  <2> HIDE DEF f
  <2> QED BY <2>2, <2>3
<1>9. Moved(recs) = f[n]
  BY <1>0, <1>6
<1> HIDE DEF f, P
<1>10. \A k \in 0 .. n : f[k] \in A
  <2>1. \A k \in 1 .. n : f[k - 1] \in A => f[k] \in A
    BY <1>8, <1>a
  <2>2. f[0] \in A
    BY <1>7, <1>b
  <2> QED BY <1>0, <2>1, <2>2, StaysIn
<1> QED BY <1>7, <1>8, <1>9, <1>10 DEF n, A, q

\* Every name but the dots is moved, or the upgrade fails.
LEMMA MovedProperties ==
  ASSUME NEW recs \in Seq(Records), Distinct(recs)
  PROVE  /\ Moved(recs) \in Leaves
         /\ Moved(recs).ok => NamesIn(Moved(recs).recs) = NamesIn(recs) \ Dots
         /\ Moved(recs).ok => SoundLeaf(Moved(recs))
<1> DEFINE q == Collect(recs)
           n == Len(q)
<1>0. /\ q \in Seq(Names \cup Dots) /\ Injective(q) /\ ToSet(q) = NamesIn(recs)
  BY CollectProperties
<1>1. PICK f : /\ f[0] = NewLeaf /\ Moved(recs) = f[n]
               /\ \A k \in 1 .. n : f[k] = MoveName(f[k - 1], q[k])
               /\ \A k \in 0 .. n : f[k] \in Leaves
  BY <1>0, MovedRun
<1> HIDE DEF q
<1>2. /\ n \in Nat /\ DOMAIN q = 1 .. n /\ \A k \in 1 .. n : q[k] \in Names \cup Dots
      /\ ToSet(q) = {q[k] : k \in 1 .. n}
  BY <1>0, LenProperties DEF ToSet
<1> HIDE DEF n
<1> DEFINE Taken(k) == {q[j] : j \in 1 .. k} \ Dots
           Good(k) == f[k].ok => NamesIn(f[k].recs) = Taken(k) /\ SoundLeaf(f[k])
           e == [k \in 0 .. n |-> IF Good(k) THEN TRUE ELSE FALSE]
<1>3. Good(0)
  <2>1. Taken(0) = {}
    OBVIOUS
  <2> QED BY <1>1, <2>1, NewLeafProperties
<1>4. ASSUME NEW k \in 1 .. n, Good(k - 1) PROVE Good(k)
  <2>0. k - 1 \in 0 .. n /\ k \in 0 .. n /\ 1 .. k = (1 .. (k - 1)) \cup {k} /\ k \notin 1 .. (k - 1)
    BY <1>2
  <2>1. Taken(k) = Taken(k - 1) \cup ({q[k]} \ Dots)
    BY <2>0
  <2>2. f[k] = MoveName(f[k - 1], q[k])
    BY <1>1
  <2>3. PICK leaf \in Leaves : leaf = f[k - 1]
    BY <1>1, <2>0
  <2>4. PICK x \in Names \cup Dots : x = q[k]
    BY <1>2
  <2>5. PICK u : u = MoveName(leaf, x)
    OBVIOUS
  <2>6. f[k] = u
    BY <2>2, <2>3, <2>4, <2>5
  <2>7. u.ok => leaf.ok
    BY <2>5, MoveNameProperties
  <2>8. u.ok => NamesIn(u.recs) = NamesIn(leaf.recs) \cup ({x} \ Dots)
    BY <2>5, MoveNameProperties
  <2>9. SoundLeaf(leaf) /\ x \notin NamesIn(leaf.recs) => SoundLeaf(u)
    BY <2>5, MoveNameProperties
  <2>10. leaf.ok => NamesIn(leaf.recs) = Taken(k - 1) /\ SoundLeaf(leaf)
    BY <1>4, <2>3
  <2>11. x \notin Taken(k - 1)
    <3> SUFFICES ASSUME NEW j \in 1 .. (k - 1), q[j] = x PROVE FALSE
      OBVIOUS
    <3>1. j \in 1 .. n /\ j # k
      BY <1>2, <2>0
    <3> QED BY <1>0, <1>2, <2>4, <3>1 DEF Injective
  <2> HIDE DEF Taken
  <2>12. u.ok => NamesIn(u.recs) = Taken(k) /\ SoundLeaf(u)
    BY <2>1, <2>4, <2>7, <2>8, <2>9, <2>10, <2>11
  <2> QED BY <2>6, <2>12
<1>5. \A k \in 0 .. n : Good(k)
  <2> DEFINE A == {TRUE}
  <2>1. e[0] \in A /\ \A k \in 1 .. n : e[k - 1] \in A => e[k] \in A
    <3>1. ASSUME NEW k \in 1 .. n, e[k - 1] \in A PROVE e[k] \in A
      <4>1. k - 1 \in 0 .. n /\ k \in 0 .. n
        BY <1>2
      <4>2. Good(k - 1)
        <5> HIDE DEF Good
        <5> QED BY <3>1, <4>1
      <4>3. Good(k)
        <5> HIDE DEF Good
        <5> QED BY <1>4, <4>2
      <4> HIDE DEF Good
      <4> QED BY <4>1, <4>3
    <3>2. e[0] \in A
      <4> HIDE DEF Good
      <4> QED BY <1>2, <1>3
    <3> HIDE DEF e, A
    <3> QED BY <3>1, <3>2
  <2>2. \A k \in 0 .. n : e[k] \in A
    <3> HIDE DEF e, A
    <3> QED BY <1>2, <2>1, StaysIn
  <2> HIDE DEF Good
  <2> QED BY <2>2
<1>6. Good(n)
  <2> HIDE DEF Good
  <2> QED BY <1>2, <1>5
<1>7. Taken(n) = NamesIn(recs) \ Dots
  BY <1>0, <1>2
<1>8. f[n] \in Leaves
  BY <1>1, <1>2
<1> HIDE DEF Taken
<1> QED BY <1>1, <1>6, <1>7, <1>8

-----------------------------------------------------------------------------
(* The blocks of a directory.  Only the first has dots, and no name is in    *)
(* two of them.                                                             *)

SortOf(l) == IF l = 1 THEN Records ELSE FileRecords

BlockSeqs ==
  {s \in Seq(Seq(Records)) :
      /\ \A l \in 1 .. Len(s) : s[l] \in Seq(SortOf(l)) /\ Distinct(s[l])
      /\ \A l, m \in 1 .. Len(s) : l # m => NamesIn(s[l]) \cap NamesIn(s[m]) = {}}

AllNames(blks) == UNION {NamesIn(blks[l]) : l \in 1 .. Len(blks)}
AllTile(blks) == \A l \in 1 .. Len(blks) : Tiles(blks[l])
Put(blks, l, recs) == [blks EXCEPT ![l] = recs]

LEMMA SortFacts ==
  ASSUME NEW l
  PROVE  /\ SortOf(l) \in BlockSorts /\ Seq(SortOf(l)) \subseteq Seq(Records)
         /\ Seq(FileRecords) \subseteq Seq(SortOf(l))
         /\ l # 1 => SortOf(l) = FileRecords
<1>1. CASE l = 1
  BY <1>1, RecordFacts DEF SortOf, BlockSorts
<1>2. CASE l # 1
  BY <1>2, RecordFacts DEF SortOf, BlockSorts
<1> QED BY <1>1, <1>2

LEMMA BlockFacts ==
  ASSUME NEW blks \in BlockSeqs
  PROVE  /\ blks \in Seq(Seq(Records)) /\ Len(blks) \in Nat /\ DOMAIN blks = 1 .. Len(blks)
         /\ \A l \in 1 .. Len(blks) :
              /\ blks[l] \in Seq(Records) /\ blks[l] \in Seq(SortOf(l)) /\ Distinct(blks[l])
              /\ NamesIn(blks[l]) \subseteq AllNames(blks)
         /\ \A l \in 2 .. Len(blks) : blks[l] \in Seq(FileRecords)
<1>1. blks \in Seq(Seq(Records)) /\ Len(blks) \in Nat /\ DOMAIN blks = 1 .. Len(blks)
  BY LenProperties DEF BlockSeqs
<1>2. ASSUME NEW l \in 1 .. Len(blks)
      PROVE  /\ blks[l] \in Seq(Records) /\ blks[l] \in Seq(SortOf(l)) /\ Distinct(blks[l])
             /\ NamesIn(blks[l]) \subseteq AllNames(blks)
  <2>1. blks[l] \in Seq(SortOf(l)) /\ Distinct(blks[l])
    BY DEF BlockSeqs
  <2>2. blks[l] \in Seq(Records)
    BY <2>1, SortFacts
  <2> QED BY <2>1, <2>2 DEF AllNames
<1>3. \A l \in 2 .. Len(blks) : blks[l] \in Seq(FileRecords)
  <2> TAKE l \in 2 .. Len(blks)
  <2>1. l \in 1 .. Len(blks) /\ l # 1
    BY <1>1
  <2> QED BY <1>2, <2>1, SortFacts
<1> QED BY <1>1, <1>2, <1>3

\* The names listed are those of the blocks but the dots.
LEMMA ListingIs ==
  ASSUME NEW x, x.blks \in BlockSeqs
  PROVE  Listing(x) = AllNames(x.blks) \ Dots
<1>1. ToSet(x.blks) = {x.blks[l] : l \in 1 .. Len(x.blks)}
  BY BlockFacts DEF ToSet
<1> QED BY <1>1 DEF Listing, AllNames

\* A block gets other records.
LEMMA PutProperties ==
  ASSUME NEW blks \in BlockSeqs, NEW l \in 1 .. Len(blks), NEW recs \in Seq(SortOf(l)),
         Distinct(recs), NamesIn(recs) \cap (AllNames(blks) \ NamesIn(blks[l])) = {}
  PROVE  /\ Put(blks, l, recs) \in BlockSeqs /\ Len(Put(blks, l, recs)) = Len(blks)
         /\ AllNames(Put(blks, l, recs)) =
              (AllNames(blks) \ NamesIn(blks[l])) \cup NamesIn(recs)
         /\ AllTile(blks) /\ Tiles(recs) => AllTile(Put(blks, l, recs))
         /\ \A m \in 1 .. Len(blks) :
              Put(blks, l, recs)[m] = IF m = l THEN recs ELSE blks[m]
<1>1. PICK u : u = Put(blks, l, recs)
  OBVIOUS
<1>2. recs \in Seq(Records) /\ blks \in Seq(Seq(Records)) /\ Len(blks) \in Nat
  BY SortFacts, BlockFacts
<1>3. u \in Seq(Seq(Records)) /\ Len(u) = Len(blks)
  BY <1>1, <1>2, ExceptSeq DEF Put
<1>4. \A m \in 1 .. Len(blks) : u[m] = IF m = l THEN recs ELSE blks[m]
  BY <1>1, <1>2, ExceptSeq DEF Put
<1>5. \A m, k \in 1 .. Len(blks) : m # k => NamesIn(blks[m]) \cap NamesIn(blks[k]) = {}
  BY DEF BlockSeqs
<1>6. \A m \in 1 .. Len(blks) : u[m] \in Seq(SortOf(m)) /\ Distinct(u[m])
  BY <1>4, BlockFacts
<1>7. \A m \in 1 .. Len(blks) : m # l => NamesIn(blks[m]) \subseteq AllNames(blks) \ NamesIn(blks[l])
  BY <1>5, BlockFacts
<1>8. ASSUME NEW m \in 1 .. Len(u), NEW k \in 1 .. Len(u), m # k
      PROVE  NamesIn(u[m]) \cap NamesIn(u[k]) = {}
  <2>1. CASE m = l
    BY <1>3, <1>4, <1>7, <1>8, <2>1
  <2>2. CASE k = l
    BY <1>3, <1>4, <1>7, <1>8, <2>2
  <2>3. CASE m # l /\ k # l
    BY <1>3, <1>4, <1>5, <1>8, <2>3
  <2> QED BY <2>1, <2>2, <2>3
<1>9. u \in BlockSeqs
  BY <1>3, <1>6, <1>8 DEF BlockSeqs
<1>10. AllNames(u) = (AllNames(blks) \ NamesIn(blks[l])) \cup NamesIn(recs)
  <2>1. ASSUME NEW n \in AllNames(u)
        PROVE  n \in (AllNames(blks) \ NamesIn(blks[l])) \cup NamesIn(recs)
    <3>1. PICK m \in 1 .. Len(blks) : n \in NamesIn(u[m])
      BY <1>3 DEF AllNames
    <3> QED BY <1>4, <1>7, <3>1
  <2>2. ASSUME NEW n \in AllNames(blks), n \notin NamesIn(blks[l]) PROVE n \in AllNames(u)
    <3>1. PICK m \in 1 .. Len(blks) : n \in NamesIn(blks[m])
      BY DEF AllNames
    <3>2. u[m] = blks[m]
      BY <1>4, <2>2, <3>1
    <3> QED BY <1>3, <3>1, <3>2 DEF AllNames
  <2>3. NamesIn(recs) \subseteq AllNames(u)
    <3>1. u[l] = recs
      BY <1>4
    <3> QED BY <1>3, <3>1 DEF AllNames
  <2> QED BY <2>1, <2>2, <2>3
<1>11. AllTile(blks) /\ Tiles(recs) => AllTile(u)
  BY <1>3, <1>4 DEF AllTile
<1> QED BY <1>1, <1>3, <1>4, <1>9, <1>10, <1>11

\* A block is mapped behind the last one.
LEMMA GrowProperties ==
  ASSUME NEW blks \in BlockSeqs, Len(blks) >= 1, NEW recs \in Seq(FileRecords),
         Distinct(recs), NamesIn(recs) \cap AllNames(blks) = {}
  PROVE  /\ Append(blks, recs) \in BlockSeqs /\ Len(Append(blks, recs)) = Len(blks) + 1
         /\ AllNames(Append(blks, recs)) = AllNames(blks) \cup NamesIn(recs)
         /\ AllTile(blks) /\ Tiles(recs) => AllTile(Append(blks, recs))
<1>1. PICK u : u = Append(blks, recs)
  OBVIOUS
<1>0. PICK n : n = Len(blks)
  OBVIOUS
<1>2. recs \in Seq(Records) /\ blks \in Seq(Seq(Records)) /\ n \in Nat
  BY <1>0, RecordFacts, BlockFacts
<1>3. u \in Seq(Seq(Records)) /\ Len(u) = n + 1
  BY <1>0, <1>1, <1>2, AppendProperties
<1>a. \A m \in 1 .. n : u[m] = blks[m]
  BY <1>0, <1>1, <1>2, AppendProperties
<1>b. u[n + 1] = recs
  BY <1>0, <1>1, <1>2, AppendProperties
<1>c. PICK k : k = n + 1
  OBVIOUS
<1>4. /\ k \in Nat /\ k \notin 1 .. n /\ k # 1 /\ Len(u) = k /\ u[k] = recs
      /\ \A m \in 1 .. k : m \in 1 .. n \/ m = k
      /\ \A m \in 1 .. n : m \in 1 .. k
      /\ k \in 1 .. k
  BY <1>0, <1>2, <1>3, <1>b, <1>c
<1>5. \A m, j \in 1 .. n : m # j => NamesIn(blks[m]) \cap NamesIn(blks[j]) = {}
  BY <1>0 DEF BlockSeqs
<1>6. \A m \in 1 .. n : /\ u[m] \in Seq(SortOf(m)) /\ Distinct(u[m])
                        /\ NamesIn(u[m]) \subseteq AllNames(blks)
  BY <1>0, <1>a, BlockFacts
<1>7. u[k] \in Seq(SortOf(k)) /\ Distinct(u[k])
  BY <1>4, SortFacts
<1>8. ASSUME NEW m \in 1 .. k, NEW j \in 1 .. k, m # j
      PROVE  NamesIn(u[m]) \cap NamesIn(u[j]) = {}
  <2>1. CASE m = k
    <3>1. j \in 1 .. n
      BY <1>4, <1>8, <2>1
    <3> QED BY <1>4, <1>6, <2>1, <3>1
  <2>2. CASE j = k
    <3>1. m \in 1 .. n
      BY <1>4, <1>8, <2>2
    <3> QED BY <1>4, <1>6, <2>2, <3>1
  <2>3. CASE m # k /\ j # k
    <3>1. m \in 1 .. n /\ j \in 1 .. n
      BY <1>4, <2>3
    <3> QED BY <1>5, <1>8, <1>a, <3>1
  <2> QED BY <2>1, <2>2, <2>3
<1>9. u \in BlockSeqs
  <2>1. \A m \in 1 .. k : u[m] \in Seq(SortOf(m)) /\ Distinct(u[m])
    BY <1>4, <1>6, <1>7
  <2> QED BY <1>3, <1>4, <1>8, <2>1 DEF BlockSeqs
<1>10. AllNames(u) = AllNames(blks) \cup NamesIn(recs)
  <2>1. ASSUME NEW x \in AllNames(u) PROVE x \in AllNames(blks) \cup NamesIn(recs)
    <3>1. PICK m \in 1 .. k : x \in NamesIn(u[m])
      BY <1>4 DEF AllNames
    <3> QED BY <1>4, <1>6, <3>1
  <2>2. ASSUME NEW x \in AllNames(blks) PROVE x \in AllNames(u)
    <3>1. PICK m \in 1 .. n : x \in NamesIn(blks[m])
      BY <1>0 DEF AllNames
    <3>2. u[m] = blks[m] /\ m \in 1 .. k
      BY <1>4, <1>a
    <3> QED BY <1>4, <3>1, <3>2 DEF AllNames
  <2>3. NamesIn(recs) \subseteq AllNames(u)
    BY <1>4 DEF AllNames
  <2> QED BY <2>1, <2>2, <2>3
<1>11. AllTile(blks) /\ Tiles(recs) => AllTile(u)
  BY <1>0, <1>4, <1>a DEF AllTile
<1> QED BY <1>0, <1>1, <1>3, <1>9, <1>10, <1>11

\* Blocks at the end are dropped.
LEMMA ShrinkProperties ==
  ASSUME NEW blks \in BlockSeqs, NEW n \in 1 .. Len(blks)
  PROVE  /\ SubSeq(blks, 1, n) \in BlockSeqs /\ Len(SubSeq(blks, 1, n)) = n
         /\ AllTile(blks) => AllTile(SubSeq(blks, 1, n))
         /\ n = Len(blks) => AllNames(SubSeq(blks, 1, n)) = AllNames(blks)
<1>1. PICK u : u = SubSeq(blks, 1, n)
  OBVIOUS
<1>2. blks \in Seq(Seq(Records)) /\ Len(blks) \in Nat /\ n \in 1 .. Len(blks)
      /\ \A m \in 1 .. n : m \in 1 .. Len(blks) /\ blks[m] \in Seq(Records)
  BY BlockFacts
<1>3. /\ u \in Seq(Seq(Records)) /\ Len(u) = (IF 1 <= n THEN n - 1 + 1 ELSE 0)
      /\ \A m \in 1 .. n - 1 + 1 : u[m] = blks[1 + m - 1]
  <2>1. n \in Int
    BY <1>2
  <2> QED BY <1>1, <1>2, <2>1, SubSeqProperties
<1>4. Len(u) = n /\ \A m \in 1 .. n : u[m] = blks[m]
  BY <1>2, <1>3
<1>5. u \in BlockSeqs
  BY <1>2, <1>3, <1>4 DEF BlockSeqs
<1>6. AllTile(blks) => AllTile(u)
  BY <1>2, <1>4 DEF AllTile
<1>7. n = Len(blks) => AllNames(u) = AllNames(blks)
  BY <1>4 DEF AllNames
<1> QED BY <1>1, <1>4, <1>5, <1>6, <1>7

-----------------------------------------------------------------------------
(* The directory.                                                           *)

\* An entry of the index never leads to block 0, which has the dots.
Entries == [hash : Nat, lblk : Nat \ {0}]
Indices == [limit : Nat, ents : Seq(Entries)]
Directories ==
  [blks : BlockSeqs, disk : Nat, ind : BOOLEAN, indexed : BOOLEAN,
   root : Indices, level : {0, 1}, node : Indices, free : 0 .. DiskBlocks]

IndexOK(x) ==
  /\ Len(x.root.ents) <= RootMax /\ Len(x.node.ents) <= x.node.limit
  /\ x.indexed => x.root.limit = RootMax /\ Len(Target(x).ents) >= 1
  /\ ~x.indexed => x.level = 0

DirOK(x) ==
  /\ x \in Directories /\ x.disk \in 1 .. Len(x.blks)
  /\ Len(x.blks) <= NDirect + PerIndirect /\ IndexOK(x)

Results == [ok : BOOLEAN, d : Directories, torn : BOOLEAN]

\* The result of an operation that lists the names of added if it succeeds.
Outcome(x, added, r) ==
  /\ r \in Results /\ DirOK(r.d)
  /\ r.ok => Listing(r.d) = Listing(x) \cup added
  /\ AllTile(x.blks) /\ ~r.torn => AllTile(r.d.blks)

LEMMA DirFacts ==
  ASSUME NEW x, DirOK(x)
  PROVE  /\ x.blks \in BlockSeqs /\ Len(x.blks) \in Nat /\ Len(x.blks) >= 1
         /\ x.disk \in 1 .. Len(x.blks) /\ x.ind \in BOOLEAN /\ x.indexed \in BOOLEAN
         /\ x.level \in {0, 1} /\ x.free \in 0 .. DiskBlocks
         /\ x.root \in Indices /\ x.node \in Indices
         /\ Listing(x) = AllNames(x.blks) \ Dots
         /\ DiskBlocks \in Nat /\ NDirect \in Nat /\ PerIndirect \in Nat /\ RootMax \in Nat
<1>1. /\ x.blks \in BlockSeqs /\ x.ind \in BOOLEAN /\ x.indexed \in BOOLEAN
      /\ x.level \in {0, 1} /\ x.free \in 0 .. DiskBlocks
      /\ x.root \in Indices /\ x.node \in Indices
  BY DEF DirOK, Directories
<1>2. Len(x.blks) \in Nat /\ Listing(x) = AllNames(x.blks) \ Dots
  BY <1>1, BlockFacts, ListingIs
<1>3. x.disk \in 1 .. Len(x.blks) /\ Len(x.blks) >= 1
  <2>1. x.disk \in 1 .. Len(x.blks)
    BY DEF DirOK
  <2> QED BY <1>2, <2>1
<1> QED BY <1>1, <1>2, <1>3, DirectoryAssumption

\* The index is that of x.
SameIndex(x, y) ==
  /\ y.root = x.root /\ y.node = x.node /\ y.level = x.level /\ y.indexed = x.indexed

LEMMA SameIndexOK ==
  ASSUME NEW x, NEW y, IndexOK(x), SameIndex(x, y)
  PROVE  IndexOK(y)
<1>1. Target(y) = Target(x)
  BY DEF SameIndex, Target
<1> QED BY <1>1 DEF IndexOK, SameIndex

\* A name that is not listed is in no block.
LEMMA Unlisted ==
  ASSUME NEW x, DirOK(x), NEW name \in Names, name \notin Listing(x)
  PROVE  name \notin AllNames(x.blks)
<1>1. name \notin Dots
  BY DirectoryAssumption
<1> QED BY <1>1, DirFacts

\* A block gets other records, and the directory keeps the rest.
WithBlock(x, l, recs) == [x EXCEPT !.blks = Put(x.blks, l, recs)]

LEMMA WithBlockOK ==
  ASSUME NEW x, DirOK(x), NEW l \in 1 .. Len(x.blks), NEW recs \in Seq(SortOf(l)),
         Distinct(recs), NamesIn(recs) \cap (AllNames(x.blks) \ NamesIn(x.blks[l])) = {}
  PROVE  /\ DirOK(WithBlock(x, l, recs))
         /\ Listing(WithBlock(x, l, recs)) =
              ((AllNames(x.blks) \ NamesIn(x.blks[l])) \cup NamesIn(recs)) \ Dots
         /\ AllTile(x.blks) /\ Tiles(recs) => AllTile(WithBlock(x, l, recs).blks)
         /\ SameIndex(x, WithBlock(x, l, recs))
         /\ WithBlock(x, l, recs).blks = Put(x.blks, l, recs)
<1>1. PICK b : b = Put(x.blks, l, recs)
  OBVIOUS
<1>0. x.blks \in BlockSeqs
  BY DirFacts
<1>2. b \in BlockSeqs /\ Len(b) = Len(x.blks)
  BY <1>0, <1>1, PutProperties
<1>3. AllNames(b) = (AllNames(x.blks) \ NamesIn(x.blks[l])) \cup NamesIn(recs)
  BY <1>0, <1>1, PutProperties
<1>4. AllTile(x.blks) /\ Tiles(recs) => AllTile(b)
  BY <1>0, <1>1, PutProperties
<1>5. PICK y : y = WithBlock(x, l, recs)
  OBVIOUS
<1>6. y \in Directories /\ y.blks = b /\ y.disk = x.disk /\ SameIndex(x, y)
  BY <1>1, <1>2, <1>5 DEF WithBlock, DirOK, Directories, SameIndex
<1>7. IndexOK(y)
  BY <1>6, SameIndexOK DEF DirOK
<1>8. DirOK(y)
  BY <1>2, <1>6, <1>7 DEF DirOK
<1>9. Listing(y) = AllNames(b) \ Dots
  BY <1>6, <1>8, DirFacts
<1> QED BY <1>1, <1>3, <1>4, <1>5, <1>6, <1>8, <1>9

\* A block is mapped.
LEMMA MapBlockOK ==
  ASSUME NEW x, DirOK(x), CanMap(x), NEW recs \in Seq(FileRecords),
         Distinct(recs), NamesIn(recs) \cap AllNames(x.blks) = {}
  PROVE  /\ DirOK(MapBlock(x, recs))
         /\ Listing(MapBlock(x, recs)) = Listing(x) \cup NamesIn(recs)
         /\ AllTile(x.blks) /\ Tiles(recs) => AllTile(MapBlock(x, recs).blks)
         /\ SameIndex(x, MapBlock(x, recs))
         /\ MapBlock(x, recs).blks = Append(x.blks, recs)
         /\ Len(MapBlock(x, recs).blks) = Len(x.blks) + 1
<1>1. PICK b : b = Append(x.blks, recs)
  OBVIOUS
<1>0. x.blks \in BlockSeqs /\ Len(x.blks) >= 1 /\ Len(x.blks) \in Nat
  BY DirFacts
<1>2. b \in BlockSeqs /\ Len(b) = Len(x.blks) + 1
  BY <1>0, <1>1, GrowProperties
<1>3. AllNames(b) = AllNames(x.blks) \cup NamesIn(recs)
  BY <1>0, <1>1, GrowProperties
<1>4. AllTile(x.blks) /\ Tiles(recs) => AllTile(b)
  BY <1>0, <1>1, GrowProperties
<1>5. PICK i \in BOOLEAN : i = (x.ind \/ NextLblk(x) >= NDirect)
  OBVIOUS
<1>6. PICK f \in 0 .. DiskBlocks : f = x.free - Cost(x)
  <2>1. Cost(x) \in {1, 2} /\ x.free >= Cost(x)
    BY DEF Cost, CanMap
  <2> QED BY <2>1, DirFacts
<1>7. PICK y : y = MapBlock(x, recs)
  OBVIOUS
<1>a. y = [x EXCEPT !.blks = b, !.free = f, !.ind = i]
  BY <1>1, <1>5, <1>6, <1>7 DEF MapBlock
<1>8. y \in Directories /\ y.blks = b /\ y.disk = x.disk /\ SameIndex(x, y)
  BY <1>2, <1>a DEF DirOK, Directories, SameIndex
<1>9. IndexOK(y)
  BY <1>8, SameIndexOK DEF DirOK
<1>10. Len(b) <= NDirect + PerIndirect
  BY <1>0, <1>2, DirFacts DEF CanMap, NextLblk
<1>11. DirOK(y)
  <2>1. x.disk \in 1 .. Len(b)
    BY <1>0, <1>2, DirFacts
  <2> QED BY <1>8, <1>9, <1>10, <2>1 DEF DirOK
<1>12. Listing(y) = Listing(x) \cup NamesIn(recs)
  <2>1. Listing(y) = AllNames(b) \ Dots /\ Listing(x) = AllNames(x.blks) \ Dots
    BY <1>8, <1>11, DirFacts
  <2>2. NamesIn(recs) \cap Dots = {}
    BY NameFacts, DirectoryAssumption
  <2> QED BY <1>3, <2>1, <2>2
<1> QED BY <1>1, <1>2, <1>4, <1>7, <1>8, <1>11, <1>12

\* The inode is written.
LEMMA WriteInodeOK ==
  ASSUME NEW x, DirOK(x)
  PROVE  DirOK(WriteInode(x)) /\ Listing(WriteInode(x)) = Listing(x)
         /\ WriteInode(x).blks = x.blks /\ SameIndex(x, WriteInode(x))
<1>1. PICK k \in Nat : k = Len(x.blks) /\ k \in 1 .. Len(x.blks)
  BY DirFacts
<1>2. PICK y : y = WriteInode(x)
  OBVIOUS
<1>3. y = [x EXCEPT !.disk = k]
  BY <1>1, <1>2 DEF WriteInode
<1>4. y \in Directories /\ y.blks = x.blks /\ y.disk = k /\ SameIndex(x, y)
  BY <1>3 DEF DirOK, Directories, SameIndex
<1>5. DirOK(y)
  BY <1>1, <1>4, SameIndexOK DEF DirOK
<1>6. Listing(y) = Listing(x)
  BY <1>4 DEF Listing
<1> QED BY <1>2, <1>4, <1>5, <1>6

-----------------------------------------------------------------------------
(* The index.                                                               *)

Result(ok, y, torn1) == [ok |-> ok, d |-> y, torn |-> torn1]
WithTorn(r, torn1) == [r EXCEPT !.torn = torn1]

LEMMA ResultIs ==
  ASSUME NEW ok \in BOOLEAN, NEW y \in Directories, NEW t \in BOOLEAN
  PROVE  /\ Result(ok, y, t) \in Results /\ (Result(ok, y, t).ok <=> ok)
         /\ Result(ok, y, t).d = y /\ (Result(ok, y, t).torn <=> t)
BY DEF Results, Result

LEMMA WithTornIs ==
  ASSUME NEW r \in Results, NEW t \in BOOLEAN
  PROVE  /\ WithTorn(r, t) \in Results /\ (WithTorn(r, t).ok <=> r.ok)
         /\ WithTorn(r, t).d = r.d /\ (WithTorn(r, t).torn <=> t)
BY DEF Results, WithTorn

\* An operation that gives up leaves its directory.
LEMMA NoOutcome ==
  ASSUME NEW x, DirOK(x), NEW added
  PROVE  Outcome(x, added, No(x)) /\ ~No(x).ok /\ No(x).d = x
<1>2. x \in Directories
  BY DEF DirOK
<1>3. PICK r : r = No(x)
  OBVIOUS
<1>4. r \in Results /\ ~r.ok /\ r.d = x
  BY <1>2, <1>3 DEF No, Results
<1> QED BY <1>3, <1>4 DEF Outcome

LEMMA WithEntryOK ==
  ASSUME NEW ents \in Seq(Entries), NEW lblk, NEW e \in Entries
  PROVE  /\ WithEntry(ents, lblk, e) \in Seq(Entries)
         /\ Len(WithEntry(ents, lblk, e)) = Len(ents) + 1
<1> DEFINE I == {i \in 1 .. Len(ents) : ents[i].lblk = lblk}
<1>0. Len(ents) \in Nat
  BY LenProperties
<1>1. PICK k : k = SelectInSeq(ents, LAMBDA f : f.lblk = lblk)
  OBVIOUS
<1>2. k = IF I # {} THEN Min(I) ELSE 0
  BY <1>1 DEF SelectInSeq
<1>3. k \in 0 .. Len(ents)
  <2>1. CASE I = {}
    BY <1>0, <1>2, <2>1
  <2>2. CASE I # {}
    <3>1. I \in SUBSET Nat
      BY <1>0
    <3> HIDE DEF I
    <3>2. \E i \in I : \A j \in I : i <= j
      BY <2>2, <3>1, LeastNumber
    <3>3. Min(I) \in I
      BY <3>2, Zenon DEF Min
    <3>4. k \in I
      BY <1>2, <2>2, <3>3
    <3> QED BY <1>0, <3>4 DEF I
  <2> QED BY <2>1, <2>2
<1>4. PICK m \in 1 .. Len(ents) + 1 : m = k + 1
  BY <1>0, <1>3
<1>5. WithEntry(ents, lblk, e) = InsertAt(ents, m, e)
  BY <1>1, <1>4 DEF WithEntry
<1>6. InsertAt(ents, m, e) \in Seq(Entries)
  BY InsertAtProperties
<1>7. Len(InsertAt(ents, m, e)) = Len(ents) + 1
  BY InsertAtProperties
<1> QED BY <1>5, <1>6, <1>7

LEMMA EntryFacts ==
  ASSUME NEW ents \in Seq(Entries)
  PROVE  /\ Len(ents) \in Nat /\ DOMAIN ents = 1 .. Len(ents)
         /\ \A i \in 1 .. Len(ents) :
              ents[i] \in Entries /\ ents[i].hash \in Nat /\ ents[i].lblk \in Nat \ {0}
<1>1. /\ Len(ents) \in Nat /\ DOMAIN ents = 1 .. Len(ents)
      /\ \A i \in 1 .. Len(ents) : ents[i] \in Entries
  BY LenProperties
<1>2. \A e \in Entries : e.hash \in Nat /\ e.lblk \in Nat \ {0}
  BY DEF Entries
<1> QED BY <1>1, <1>2

\* The entry that the search in the index ends at.
Picked(ents, h, i) ==
  /\ PickLblock(ents, h) = ents[i].lblk
  /\ \A j \in 2 .. i : ents[j].hash <= h
  /\ i < Len(ents) => h < ents[i + 1].hash

LEMMA PickedExists ==
  ASSUME NEW ents \in Seq(Entries), Len(ents) >= 1, NEW h \in Nat
  PROVE  \E i \in 1 .. Len(ents) : Picked(ents, h, i)
<1>3. Len(ents) \in Nat /\ DOMAIN ents = 1 .. Len(ents) /\ \A i \in 1 .. Len(ents) : ents[i].hash \in Nat
  BY EntryFacts
<1> DEFINE S == {i \in DOMAIN ents : \A j \in 2 .. i : ents[j].hash <= h}
<1>4. S \in SUBSET (1 .. Len(ents)) /\ 1 \in S
  BY <1>3
<1>b. \A i \in 1 .. Len(ents) : i \in S <=> \A j \in 2 .. i : ents[j].hash <= h
  BY <1>3
<1>c. PickLblock(ents, h) = ents[Max(S)].lblk
  BY DEF PickLblock
<1> HIDE DEF S
<1>a. IsFiniteSet(1 .. Len(ents))
  BY <1>3, FS_Interval
<1>5. IsFiniteSet(S) /\ S \in SUBSET Nat /\ S # {}
  <2>1. IsFiniteSet(S)
    BY <1>4, <1>a, FS_Subset
  <2>2. 1 .. Len(ents) \subseteq Nat
    BY <1>3
  <2> QED BY <1>4, <2>1, <2>2
<1>6. Max(S) \in S /\ \A k \in S : k <= Max(S)
  BY <1>5, GreatestNumber
<1>7. PICK m \in 1 .. Len(ents) : m = Max(S)
  BY <1>4, <1>6
<1>8. PickLblock(ents, h) = ents[m].lblk /\ \A j \in 2 .. m : ents[j].hash <= h
  BY <1>6, <1>7, <1>b, <1>c
<1>9. ASSUME m < Len(ents) PROVE h < ents[m + 1].hash
  <2>1. m + 1 \in 1 .. Len(ents) /\ ~(m + 1 <= m)
    BY <1>3, <1>9
  <2>2. m + 1 \notin S
    BY <1>6, <1>7, <2>1
  <2>3. PICK j \in 2 .. m + 1 : ~(ents[j].hash <= h)
    BY <1>b, <2>1, <2>2
  <2>4. j = m + 1
    BY <1>8, <2>3
  <2>5. ents[m + 1].hash \in Nat
    BY <1>3, <2>1
  <2> QED BY <2>3, <2>4, <2>5
<1> QED BY <1>7, <1>8, <1>9 DEF Picked

\* The index leads to a block that is not block 0.
LEMMA PickLeafOK ==
  ASSUME NEW x, DirOK(x), x.indexed, NEW h \in Nat
  PROVE  PickLeaf(x, h) \in Nat \ {0}
<1>1. PICK ents : ents = Target(x).ents
  OBVIOUS
<1>2. ents \in Seq(Entries) /\ Len(ents) >= 1
  <2>1. Target(x) \in Indices
    BY DirFacts DEF Target
  <2> QED BY <1>1, <2>1 DEF Indices, DirOK, IndexOK
<1>3. PICK i \in 1 .. Len(ents) : Picked(ents, h, i)
  BY <1>2, PickedExists
<1>4. PickLeaf(x, h) = ents[i].lblk
  BY <1>1, <1>3 DEF PickLeaf, Picked
<1>5. ents[i].lblk \in Nat \ {0}
  BY <1>2, EntryFacts
<1> QED BY <1>4, <1>5

LEMMA FiniteImage ==
  ASSUME NEW S, IsFiniteSet(S), NEW f
  PROVE  IsFiniteSet({f[x] : x \in S})
<1> DEFINE g == [x \in S |-> f[x]]
           T == {f[x] : x \in S}
<1>1. g \in Surjection(S, T)
  BY DEF Surjection
<1> HIDE DEF g, T
<1>2. IsFiniteSet(T)
  BY <1>1, FS_Surjection
<1> QED BY <1>2 DEF T

LEMMA MaxHashOK ==
  ASSUME NEW recs \in Seq(FileRecords)
  PROVE  MaxHash(recs) \in Nat
<1> DEFINE hs == {Hash[n] : n \in NamesIn(recs)}
<1>0. Len(recs) \in Nat /\ recs \in Seq(Records)
  BY RecordFacts
<1>1. NamesIn(recs) \subseteq Names /\ \A n \in Names : Hash[n] \in Nat
  BY NameFacts, DirectoryAssumption
<1>2. hs \in SUBSET Nat
  BY <1>1
<1>3. IsFiniteSet(hs)
  <2> DEFINE g == [i \in 1 .. Len(recs) |-> Hash[recs[i].name]]
  <2>1. IsFiniteSet(1 .. Len(recs))
    BY <1>0, FS_Interval
  <2>2. hs \subseteq {g[i] : i \in 1 .. Len(recs)}
    BY <1>0, NameFacts
  <2> HIDE DEF g
  <2>3. IsFiniteSet({g[i] : i \in 1 .. Len(recs)})
    BY <2>1, FiniteImage
  <2> QED BY <2>2, <2>3, FS_Subset
<1> HIDE DEF hs
<1>4. CASE hs = {}
  BY <1>4 DEF MaxHash, hs
<1>5. CASE hs # {}
  <2>1. Max(hs) \in hs
    BY <1>2, <1>3, <1>5, GreatestNumber
  <2>2. MaxHash(recs) = Max(hs)
    BY <1>5 DEF MaxHash, hs
  <2> QED BY <1>2, <2>1, <2>2
<1> QED BY <1>4, <1>5

\* A change to the index alone.
LEMMA IndexChange ==
  ASSUME NEW x, DirOK(x), NEW y \in Directories, y.blks = x.blks, y.disk = x.disk, IndexOK(y)
  PROVE  DirOK(y) /\ Listing(y) = Listing(x)
<1>1. DirOK(y)
  BY DEF DirOK
<1>2. Listing(y) = Listing(x)
  BY DEF Listing
<1> QED BY <1>1, <1>2

\* The entry goes into the index, or the index has one block more.
LEMMA AddToIndexOK ==
  ASSUME NEW x, DirOK(x), x.indexed, NEW lblk, NEW e \in Entries
  PROVE  Outcome(x, {}, AddToIndex(x, lblk, e))
<1>0. /\ x \in Directories /\ IndexOK(x) /\ x.level \in {0, 1}
      /\ x.root \in Indices /\ x.node \in Indices
      /\ x.root.ents \in Seq(Entries) /\ x.node.ents \in Seq(Entries)
      /\ x.root.limit \in Nat /\ x.node.limit \in Nat
      /\ RootMax \in Nat
  <2>1. x \in Directories /\ IndexOK(x)
    BY DEF DirOK
  <2>2. x.level \in {0, 1} /\ x.root \in Indices /\ x.node \in Indices /\ RootMax \in Nat
    BY DirFacts
  <2> QED BY <2>1, <2>2 DEF Indices
<1>1. PICK ents : ents = WithEntry(Target(x).ents, lblk, e)
  OBVIOUS
<1>2. /\ ents \in Seq(Entries) /\ Len(ents) = Len(Target(x).ents) + 1
      /\ Target(x).ents \in Seq(Entries) /\ Len(Target(x).ents) >= 1
      /\ Len(Target(x).ents) \in Nat /\ Len(ents) \in Nat /\ Target(x) \in Indices
  <2>1. Target(x) \in Indices
    BY <1>0 DEF Target
  <2>2. Target(x).ents \in Seq(Entries)
    BY <2>1 DEF Indices
  <2>3. ents \in Seq(Entries)
    BY <1>1, <2>2, WithEntryOK
  <2>4. Len(ents) = Len(Target(x).ents) + 1
    BY <1>1, <2>2, WithEntryOK
  <2>5. Len(Target(x).ents) >= 1
    BY <1>0 DEF IndexOK
  <2>6. Len(Target(x).ents) \in Nat /\ Len(ents) \in Nat
    BY <2>2, <2>3, LenProperties
  <2> QED BY <2>1, <2>2, <2>3, <2>4, <2>5, <2>6
<1>3. PICK r : r = AddToIndex(x, lblk, e)
  OBVIOUS
<1>4. CASE Len(ents) > Target(x).limit /\ (x.level = 1 \/ ~CanMap(x))
  <2>1. r = No(x)
    BY <1>1, <1>3, <1>4 DEF AddToIndex, GrowIndex
  <2> QED BY <1>3, <2>1, NoOutcome
<1>5. CASE ~(Len(ents) > Target(x).limit)
  <2>1. PICK y : y = IF x.level = 1 THEN [x EXCEPT !.node.ents = ents]
                                    ELSE [x EXCEPT !.root.ents = ents]
    OBVIOUS
  <2>2. r = Result(TRUE, y, FALSE)
    BY <1>1, <1>3, <1>5, <2>1 DEF AddToIndex, Result
  <2>3. y \in Directories /\ y.blks = x.blks /\ y.disk = x.disk /\ IndexOK(y)
    <3>1. PICK i \in Indices : i = [limit |-> Target(x).limit, ents |-> ents]
      BY <1>2 DEF Indices
    <3>2. i.limit = Target(x).limit /\ i.ents = ents
      BY <3>1
    <3>3. i.limit \in Nat
      BY DEF Indices
    <3>4. CASE x.level = 1
      <4>1. Target(x) = x.node
        BY <3>4 DEF Target
      <4>2. [x.node EXCEPT !.ents = ents] = i
        BY <1>0, <3>1, <4>1 DEF Indices
      <4>3. y = [x EXCEPT !.node = i]
        BY <2>1, <3>4, <4>2
      <4>4. /\ y \in Directories /\ y.blks = x.blks /\ y.disk = x.disk
            /\ y.node = i /\ y.root = x.root /\ y.level = x.level /\ y.indexed = x.indexed
        BY <1>0, <4>3 DEF Directories
      <4>5. Target(y) = i
        BY <3>4, <4>4 DEF Target
      <4>6. IndexOK(y)
        BY <1>0, <1>2, <1>5, <3>2, <3>3, <4>4, <4>5 DEF IndexOK
      <4> QED BY <4>4, <4>6
    <3>5. CASE x.level = 0
      <4>1. Target(x) = x.root /\ x.level # 1
        BY <3>5 DEF Target
      <4>2. [x.root EXCEPT !.ents = ents] = i
        BY <1>0, <3>1, <4>1 DEF Indices
      <4>3. y = [x EXCEPT !.root = i]
        BY <2>1, <4>1, <4>2
      <4>4. /\ y \in Directories /\ y.blks = x.blks /\ y.disk = x.disk
            /\ y.root = i /\ y.node = x.node /\ y.level = x.level /\ y.indexed = x.indexed
        BY <1>0, <4>3 DEF Directories
      <4>5. Target(y) = i
        BY <3>5, <4>4 DEF Target
      <4>6. x.root.limit = RootMax /\ i.limit = RootMax
        BY <1>0, <3>2, <4>1 DEF IndexOK
      <4>7. Len(i.ents) <= RootMax
        BY <1>0, <1>2, <1>5, <3>2, <3>3, <4>6
      <4>8. IndexOK(y)
        BY <1>0, <1>2, <3>2, <4>4, <4>5, <4>6, <4>7 DEF IndexOK
      <4> QED BY <4>4, <4>8
    <3> QED BY <1>0, <3>4, <3>5
  <2>4. DirOK(y) /\ Listing(y) = Listing(x)
    BY <2>3, IndexChange
  <2>5. r \in Results /\ r.ok /\ r.d = y /\ ~r.torn
    BY <2>2, <2>3, ResultIs
  <2>6. Listing(r.d) = Listing(x) \cup {}
    BY <2>4, <2>5
  <2>7. AllTile(x.blks) => AllTile(r.d.blks)
    BY <2>3, <2>5
  <2> QED BY <1>3, <2>4, <2>5, <2>6, <2>7 DEF Outcome
<1>6. CASE Len(ents) > Target(x).limit /\ x.level = 0 /\ CanMap(x)
  <2>1. PICK y : y = MapBlock(x, Empty)
    OBVIOUS
  <2>a. /\ Empty \in Seq(FileRecords) /\ Distinct(Empty) /\ Tiles(Empty)
        /\ NamesIn(Empty) \cap AllNames(x.blks) = {} /\ NamesIn(Empty) = {}
    BY NewLeafProperties
  <2>2. DirOK(y) /\ SameIndex(x, y)
    BY <1>6, <2>1, <2>a, MapBlockOK
  <2>3. Listing(y) = Listing(x) \cup NamesIn(Empty)
    BY <1>6, <2>1, <2>a, MapBlockOK
  <2>4. AllTile(x.blks) /\ Tiles(Empty) => AllTile(y.blks)
    BY <1>6, <2>1, <2>a, MapBlockOK
  <2>5. Target(x) = x.root
    BY <1>6 DEF Target
  <2>6. PICK n : n = Len(x.root.ents)
    OBVIOUS
  <2>7. PICK es : es = SubSeq(ents, 1, n)
    OBVIOUS
  <2>8. n \in Nat /\ n >= 1 /\ n <= RootMax /\ x.root.limit = RootMax /\ Len(ents) = n + 1
    BY <1>0, <1>2, <2>5, <2>6 DEF IndexOK
  <2>9. es \in Seq(Entries) /\ Len(es) = n
    <3>1. \A j \in 1 .. n : ents[j] \in Entries
      <4> TAKE j \in 1 .. n
      <4>1. j \in 1 .. Len(ents)
        BY <2>8
      <4> QED BY <1>2, <4>1, ElementOfSeq
    <3>2. n \in Int /\ 1 <= n
      BY <2>8
    <3>3. es \in Seq(Entries) /\ Len(es) = (IF 1 <= n THEN n - 1 + 1 ELSE 0)
      BY <2>7, <3>1, <3>2, SubSeqProperties
    <3> QED BY <2>8, <3>3
  <2>10. PICK i \in Indices : i = [limit |-> x.root.limit, ents |-> es]
    BY <1>0, <2>9 DEF Indices
  <2>11. PICK f \in Entries : f = DxEntry(0, NextLblk(x))
    <3>1. NextLblk(x) \in Nat \ {0}
      BY DirFacts DEF NextLblk
    <3> QED BY <3>1 DEF DxEntry, Entries
  <2>12. PICK top \in Seq(Entries) : top = <<f>> /\ Len(top) = 1
    <3>1. <<f>> \in Seq(Entries) /\ Len(<<f>>) = 1
      OBVIOUS
    <3> QED BY <3>1
  <2>13. PICK j \in Indices : j = [limit |-> x.root.limit, ents |-> top]
    BY <1>0 DEF Indices
  <2>14. y \in Directories /\ y.root = x.root /\ y.level = x.level /\ y.indexed = x.indexed
    BY <2>2 DEF DirOK, SameIndex
  <2>15. [y.root EXCEPT !.ents = top] = j
    BY <1>0, <2>13, <2>14 DEF Indices
  <2>16. PICK z : z = [y EXCEPT !.level = 1, !.node = i, !.root.ents = top]
    OBVIOUS
  <2>17. z = [y EXCEPT !.level = 1, !.node = i, !.root = j]
    BY <2>14, <2>15, <2>16 DEF Directories
  <2>18. /\ z \in Directories /\ z.blks = y.blks /\ z.disk = y.disk
         /\ z.level = 1 /\ z.node = i /\ z.root = j /\ z.indexed = x.indexed
    BY <2>14, <2>17 DEF Directories
  <2>19. IndexOK(z)
    <3>1. i.limit = RootMax /\ i.ents = es /\ j.limit = RootMax /\ j.ents = top
      BY <2>8, <2>10, <2>13
    <3>2. Target(z) = i
      BY <2>18 DEF Target
    <3>3. RootMax >= 1
      BY <1>0, <2>8
    <3> QED BY <1>0, <2>8, <2>9, <2>12, <2>18, <3>1, <3>2, <3>3 DEF IndexOK
  <2>20. DirOK(z) /\ Listing(z) = Listing(y)
    BY <2>2, <2>18, <2>19, IndexChange
  <2>21. r = Result(TRUE, z, FALSE)
    <3>1. AddToIndex(x, lblk, e) = GrowIndex(x, lblk, e)
      BY <1>1, <1>6 DEF AddToIndex
    <3>2. WithEntry(x.root.ents, lblk, e) = ents
      BY <1>1, <2>5
    <3>3. x.level # 1
      BY <1>6
    <3>4. GrowIndex(x, lblk, e) = Result(TRUE, z, FALSE)
      BY <1>6, <2>1, <2>6, <2>7, <2>10, <2>11, <2>12, <2>16, <3>2, <3>3 DEF GrowIndex, Result
    <3> QED BY <1>3, <3>1, <3>4
  <2>22. r \in Results /\ r.ok /\ r.d = z /\ ~r.torn
    BY <2>18, <2>21, ResultIs
  <2>23. Listing(r.d) = Listing(x) \cup {}
    BY <2>3, <2>20, <2>22, <2>a
  <2>24. AllTile(x.blks) => AllTile(r.d.blks)
    BY <2>4, <2>18, <2>22, <2>a
  <2> QED BY <1>3, <2>20, <2>22, <2>23, <2>24 DEF Outcome
<1> QED BY <1>0, <1>4, <1>5, <1>6

-----------------------------------------------------------------------------
(* The order of the leaves.                                                 *)

\* Another name has the hash of n.
Shared(n) == \E m \in Names \ {n} : Hash[m] = Hash[n]

\* The name n belongs in the leaf of entry i: its hash is not below the entry's,
\* and below the next entry's, which a name that shares its hash may equal.
Fits(n, ents, i) ==
  /\ i > 1 => ents[i].hash <= Hash[n]
  /\ i < Len(ents) => \/ Hash[n] < ents[i + 1].hash
                      \/ Hash[n] = ents[i + 1].hash /\ Shared(n)

\* The index lists every leaf, once, in the order of their hashes.
Indexed(blks, ents) ==
  /\ \A i \in 1 .. Len(ents) : ents[i].lblk < Len(blks)
  /\ \A i, j \in 1 .. Len(ents) : ents[i].lblk = ents[j].lblk => i = j
  /\ \A i, j \in 2 .. Len(ents) : i <= j => ents[i].hash <= ents[j].hash
  /\ \A l \in 2 .. Len(blks) : \E i \in 1 .. Len(ents) : ents[i].lblk + 1 = l

\* Names may be in a block: in no leaf they do not belong in.
MayHold(ents, l, n) ==
  /\ l = 1 => n \notin Names
  /\ \A i \in 1 .. Len(ents) : ents[i].lblk + 1 = l => Fits(n, ents, i)

Ordered(blks, ents) ==
  /\ Indexed(blks, ents)
  /\ \A l \in 1 .. Len(blks) : \A n \in NamesIn(blks[l]) : MayHold(ents, l, n)

\* A block gets other records.
LEMMA OrderedPut ==
  ASSUME NEW blks \in BlockSeqs, NEW ents, Ordered(blks, ents), NEW l \in 1 .. Len(blks),
         NEW recs \in Seq(SortOf(l)), \A n \in NamesIn(recs) : MayHold(ents, l, n)
  PROVE  Ordered(Put(blks, l, recs), ents)
<1>1. PICK u : u = Put(blks, l, recs)
  OBVIOUS
<1>2. recs \in Seq(Records) /\ blks \in Seq(Seq(Records)) /\ Len(blks) \in Nat
  BY SortFacts, BlockFacts
<1>3. Len(u) = Len(blks) /\ \A m \in 1 .. Len(blks) : u[m] = IF m = l THEN recs ELSE blks[m]
  BY <1>1, <1>2, ExceptSeq DEF Put
<1>4. Indexed(u, ents)
  BY <1>3 DEF Ordered, Indexed
<1>5. ASSUME NEW m \in 1 .. Len(blks), NEW n \in NamesIn(u[m]) PROVE MayHold(ents, m, n)
  <2>1. CASE m = l
    BY <1>3, <1>5, <2>1
  <2>2. CASE m # l
    BY <1>3, <1>5, <2>2 DEF Ordered
  <2> QED BY <2>1, <2>2
<1> QED BY <1>1, <1>3, <1>4, <1>5 DEF Ordered

\* Where the search for the hash of a name ends, the name may be put.
LEMMA PickedFits ==
  ASSUME NEW ents \in Seq(Entries), NEW i \in 1 .. Len(ents), NEW n \in Names,
         Picked(ents, Hash[n], i), NEW blks, Indexed(blks, ents)
  PROVE  MayHold(ents, ents[i].lblk + 1, n)
<1>1. Fits(n, ents, i)
  <2>1. i > 1 => i \in 2 .. i
    OBVIOUS
  <2> QED BY <2>1 DEF Fits, Picked
<1>2. \A j \in 1 .. Len(ents) : ents[j].lblk + 1 = ents[i].lblk + 1 => j = i
  <2>1. \A j, k \in 1 .. Len(ents) : ents[j].lblk = ents[k].lblk => j = k
    BY DEF Indexed
  <2>2. \A j \in 1 .. Len(ents) : ents[j].lblk \in Nat
    BY EntryFacts
  <2> QED BY <2>1, <2>2
<1>3. ents[i].lblk + 1 # 1
  <2>1. ents[i].lblk \in Nat \ {0}
    BY EntryFacts
  <2> QED BY <2>1
<1> QED BY <1>1, <1>2, <1>3 DEF MayHold

\* A name that is in a leaf and shares its hash with no other is where the search
\* for its hash ends.
LEMMA PickedFinds ==
  ASSUME NEW blks, NEW ents \in Seq(Entries), Len(ents) >= 1, Ordered(blks, ents),
         NEW n \in Names, ~Shared(n), NEW l \in 1 .. Len(blks), n \in NamesIn(blks[l]),
         Len(blks) \in Nat
  PROVE  PickLblock(ents, Hash[n]) + 1 = l
<1>0. /\ Len(ents) \in Nat /\ Hash[n] \in Nat
      /\ \A i \in 1 .. Len(ents) : ents[i].hash \in Nat /\ ents[i].lblk \in Nat
  BY EntryFacts, DirectoryAssumption
<1>1. PICK i \in 1 .. Len(ents) : Picked(ents, Hash[n], i)
  BY <1>0, PickedExists
<1>2. l # 1 /\ \A k \in 1 .. Len(ents) : ents[k].lblk + 1 = l => Fits(n, ents, k)
  BY DEF Ordered, MayHold
<1>3. PICK k \in 1 .. Len(ents) : ents[k].lblk + 1 = l
  BY <1>2 DEF Ordered, Indexed
<1>4. /\ k > 1 => ents[k].hash <= Hash[n]
      /\ k < Len(ents) => Hash[n] < ents[k + 1].hash
  BY <1>2, <1>3 DEF Fits
<1>5. /\ PickLblock(ents, Hash[n]) = ents[i].lblk
      /\ \A j \in 2 .. i : ents[j].hash <= Hash[n]
      /\ i < Len(ents) => Hash[n] < ents[i + 1].hash
  BY <1>1 DEF Picked
<1>6. CASE k < i
  <2>1. k + 1 \in 2 .. i /\ k + 1 \in 1 .. Len(ents) /\ k < Len(ents)
    BY <1>0, <1>6
  <2>2. ents[k + 1].hash <= Hash[n] /\ Hash[n] < ents[k + 1].hash /\ ents[k + 1].hash \in Nat
    BY <1>0, <1>4, <1>5, <2>1
  <2> QED BY <1>0, <2>2
<1>7. CASE i < k
  <2>1. i + 1 \in 2 .. Len(ents) /\ k \in 2 .. Len(ents) /\ i + 1 <= k /\ i < Len(ents)
    BY <1>0, <1>7
  <2>2. ents[i + 1].hash <= ents[k].hash
    BY <2>1 DEF Ordered, Indexed
  <2>3. ents[k].hash <= Hash[n] /\ Hash[n] < ents[i + 1].hash
    BY <1>4, <1>5, <2>1
  <2>4. ents[i + 1].hash \in Nat /\ ents[k].hash \in Nat
    BY <1>0, <2>1
  <2> QED BY <1>0, <2>2, <2>3, <2>4
<1>8. CASE i = k
  BY <1>3, <1>5, <1>8
<1> QED BY <1>6, <1>7, <1>8

\* An entry goes behind that of the leaf.
Follows(ents, i, e, new) ==
  /\ new \in Seq(Entries) /\ Len(new) = Len(ents) + 1
  /\ \A j \in 1 .. Len(ents) + 1 :
        new[j] = IF j <= i THEN ents[j] ELSE IF j = i + 1 THEN e ELSE ents[j - 1]

LEMMA WithEntryIs ==
  ASSUME NEW ents \in Seq(Entries), NEW i \in 1 .. Len(ents), NEW e \in Entries,
         NEW blks, Indexed(blks, ents)
  PROVE  Follows(ents, i, e, WithEntry(ents, ents[i].lblk, e))
<1> DEFINE I == {k \in 1 .. Len(ents) : ents[k].lblk = ents[i].lblk}
<1>0. Len(ents) \in Nat
  BY LenProperties
<1>1. PICK k : k = SelectInSeq(ents, LAMBDA f : f.lblk = ents[i].lblk)
  OBVIOUS
<1>2. k = IF I # {} THEN Min(I) ELSE 0
  BY <1>1 DEF SelectInSeq
<1>3. I = {i}
  BY DEF Indexed
<1>4. Min({i}) = i
  <2>1. \A m \in {i} : i <= m
    BY <1>0
  <2>2. (CHOOSE x \in {i} : \A m \in {i} : x <= m) = i
    BY <2>1
  <2> QED BY <2>2 DEF Min
<1>5. k = i
  BY <1>2, <1>3, <1>4
<1>6. PICK m \in 1 .. Len(ents) + 1 : m = i + 1
  BY <1>0
<1>7. WithEntry(ents, ents[i].lblk, e) = InsertAt(ents, m, e)
  BY <1>1, <1>5, <1>6 DEF WithEntry
<1>8. PICK new : new = InsertAt(ents, m, e)
  OBVIOUS
<1>a. new \in Seq(Entries)
  BY <1>8, InsertAtProperties
<1>b. Len(new) = Len(ents) + 1
  BY <1>8, InsertAtProperties
<1>9. \A j \in 1 .. Len(ents) + 1 :
         new[j] = IF j < m THEN ents[j] ELSE IF j = m THEN e ELSE ents[j - 1]
  BY <1>8, InsertAtProperties
<1>10. \A j \in 1 .. Len(ents) + 1 :
          new[j] = IF j <= i THEN ents[j] ELSE IF j = i + 1 THEN e ELSE ents[j - 1]
  BY <1>0, <1>6, <1>9
<1> QED BY <1>7, <1>8, <1>a, <1>b, <1>10 DEF Follows

\* The names of a full leaf and one more are parted into it and a new leaf, whose
\* entry has the least hash of its names.
SplitOf(blks, l, name, left, right, k) ==
  /\ left \in Seq(FileRecords) /\ right \in Seq(FileRecords) /\ k \in NamesIn(right)
  /\ NamesIn(left) \cup NamesIn(right) \subseteq NamesIn(blks[l]) \cup {name}
  /\ NamesIn(left) \cap NamesIn(right) = {}
  /\ \A n \in NamesIn(left) : Hash[n] <= Hash[k]
  /\ \A n \in NamesIn(right) : Hash[k] <= Hash[n]

LEMMA OrderedSplit ==
  ASSUME NEW blks \in BlockSeqs, NEW ents \in Seq(Entries), Ordered(blks, ents),
         NEW i \in 1 .. Len(ents), NEW l \in 1 .. Len(blks), l = ents[i].lblk + 1,
         NEW name \in Names, MayHold(ents, l, name),
         NEW left, NEW right, NEW k, SplitOf(blks, l, name, left, right, k),
         NEW new, Follows(ents, i, DxEntry(Hash[k], Len(blks)), new)
  PROVE  Ordered(Append(Put(blks, l, left), right), new)
<1>0. PICK N \in Nat : N = Len(blks)
  BY BlockFacts
<1>00. PICK M \in Nat : M = Len(ents)
  BY LenProperties
<1>1. PICK c : c = Append(Put(blks, l, left), right)
  OBVIOUS
<1>2. /\ left \in Seq(FileRecords) /\ right \in Seq(FileRecords) /\ k \in NamesIn(right)
      /\ NamesIn(left) \cup NamesIn(right) \subseteq NamesIn(blks[l]) \cup {name}
      /\ NamesIn(left) \cap NamesIn(right) = {}
      /\ \A n \in NamesIn(left) : Hash[n] <= Hash[k]
      /\ \A n \in NamesIn(right) : Hash[k] <= Hash[n]
      /\ NamesIn(left) \subseteq Names /\ NamesIn(right) \subseteq Names /\ k \in Names
      /\ left \in Seq(Records) /\ right \in Seq(Records)
  BY NameFacts, RecordFacts DEF SplitOf
<1>3. /\ Len(c) = N + 1 /\ c[N + 1] = right
      /\ \A m \in 1 .. N : c[m] = IF m = l THEN left ELSE blks[m]
  <2>1. blks \in Seq(Seq(Records))
    BY BlockFacts
  <2>2. PICK p : p = Put(blks, l, left)
    OBVIOUS
  <2>3. p \in Seq(Seq(Records)) /\ Len(p) = N /\ \A m \in 1 .. N : p[m] = IF m = l THEN left ELSE blks[m]
    BY <1>0, <1>2, <2>1, <2>2, ExceptSeq DEF Put
  <2>4. c = Append(p, right)
    BY <1>1, <2>2
  <2>5. right \in Seq(Records)
    BY <1>2
  <2>6. Len(c) = Len(p) + 1 /\ c[Len(p) + 1] = right /\ \A m \in 1 .. Len(p) : c[m] = p[m]
    BY <2>3, <2>4, <2>5, AppendProperties
  <2> QED BY <2>3, <2>6
<1>4. \A n \in Names : Hash[n] \in Nat
  BY DirectoryAssumption
<1>5. \A n \in NamesIn(left) \cup NamesIn(right) : Fits(n, ents, i)
  BY <1>2 DEF Ordered, MayHold
\* The entries of the new index.
<1>6. /\ Len(new) = M + 1
      /\ \A j \in 1 .. i : j \in 1 .. M /\ new[j] = ents[j]
      /\ new[i + 1].hash = Hash[k] /\ new[i + 1].lblk = N /\ i + 1 \in 2 .. M + 1
      /\ \A j \in i + 2 .. M + 1 : j - 1 \in i + 1 .. M /\ new[j] = ents[j - 1]
  BY <1>0, <1>00 DEF Follows, DxEntry
<1>7. /\ \A j \in 1 .. M : ents[j].hash \in Nat /\ ents[j].lblk \in Nat /\ ents[j].lblk < N
      /\ \A j, m \in 1 .. M : ents[j].lblk = ents[m].lblk => j = m
      /\ \A j, m \in 2 .. M : j <= m => ents[j].hash <= ents[m].hash
      /\ \A m \in 2 .. N : \E j \in 1 .. M : ents[j].lblk + 1 = m
  BY <1>0, <1>00, EntryFacts DEF Ordered, Indexed
<1>8. /\ i > 1 => ents[i].hash <= Hash[k]
      /\ i < M => Hash[k] <= ents[i + 1].hash
  <2>1. Fits(k, ents, i) /\ Hash[k] \in Nat
    BY <1>2, <1>4, <1>5
  <2>2. i < M => ents[i + 1].hash \in Nat
    BY <1>00, <1>7
  <2> QED BY <1>00, <2>1, <2>2 DEF Fits
<1>9. Indexed(c, new)
  <2>1. ASSUME NEW j \in 1 .. M + 1 PROVE new[j].lblk < N + 1 /\ (new[j].lblk = N <=> j = i + 1)
    <3>1. CASE j <= i
      <4>1. j \in 1 .. i
        BY <3>1
      <4>2. j \in 1 .. M /\ new[j] = ents[j]
        BY <1>6, <4>1
      <4>3. new[j].lblk \in Nat /\ new[j].lblk < N
        BY <1>7, <4>2
      <4> QED BY <1>00, <3>1, <4>3
    <3>2. CASE j = i + 1
      BY <1>0, <1>6, <3>2
    <3>3. CASE j > i + 1
      <4>1. j \in i + 2 .. M + 1 /\ j - 1 \in 1 .. M
        BY <1>00, <3>3
      <4>2. new[j] = ents[j - 1]
        BY <1>6, <4>1
      <4>3. new[j].lblk \in Nat /\ new[j].lblk < N
        BY <1>7, <4>1, <4>2
      <4> QED BY <1>00, <3>3, <4>3
    <3> QED BY <1>00, <3>1, <3>2, <3>3
  <2>2. ASSUME NEW j \in 1 .. M + 1, NEW m \in 1 .. M + 1, new[j].lblk = new[m].lblk PROVE j = m
    <3>1. CASE j = i + 1 \/ m = i + 1
      BY <2>1, <2>2, <3>1
    <3>2. CASE j # i + 1 /\ m # i + 1
      <4>1. PICK p \in 1 .. M : new[j] = ents[p] /\ p = IF j <= i THEN j ELSE j - 1
        BY <1>00, <1>6, <3>2
      <4>2. PICK q \in 1 .. M : new[m] = ents[q] /\ q = IF m <= i THEN m ELSE m - 1
        BY <1>00, <1>6, <3>2
      <4>3. p = q
        BY <1>7, <2>2, <4>1, <4>2
      <4> QED BY <1>00, <3>2, <4>1, <4>2, <4>3
    <3> QED BY <3>1, <3>2
  <2>3. ASSUME NEW j \in 2 .. M + 1, NEW m \in 2 .. M + 1, j <= m PROVE new[j].hash <= new[m].hash
    <3>0. Hash[k] \in Nat /\ \A p \in 2 .. M : p \in 1 .. M /\ ents[p].hash \in Nat
      BY <1>2, <1>4, <1>7
    <3>1. CASE m <= i
      <4>1. j \in 1 .. i /\ m \in 1 .. i /\ j \in 2 .. M /\ m \in 2 .. M
        BY <1>00, <2>3, <3>1
      <4> QED BY <1>6, <1>7, <2>3, <4>1
    <3>2. CASE m = i + 1 /\ j = i + 1
      BY <1>6, <3>0, <3>2
    <3>3. CASE m = i + 1 /\ j <= i
      <4>1. j \in 1 .. i /\ j \in 2 .. M /\ i \in 2 .. M /\ i > 1 /\ j <= i
        BY <1>00, <3>3
      <4>2. ents[j].hash <= ents[i].hash /\ ents[i].hash <= Hash[k] /\ new[j] = ents[j]
        BY <1>6, <1>7, <1>8, <4>1
      <4> QED BY <1>6, <3>0, <3>3, <4>1, <4>2
    <3>4. CASE m > i + 1 /\ j <= i
      <4>1. j \in 1 .. i /\ j \in 2 .. M /\ m \in i + 2 .. M + 1 /\ m - 1 \in 2 .. M /\ j <= m - 1
        BY <1>00, <3>4
      <4> QED BY <1>6, <1>7, <4>1
    <3>5. CASE m > i + 1 /\ j = i + 1
      <4>1. i + 1 \in 2 .. M /\ m \in i + 2 .. M + 1 /\ m - 1 \in 2 .. M /\ i + 1 <= m - 1 /\ i < M
        BY <1>00, <3>5
      <4>2. Hash[k] <= ents[i + 1].hash /\ ents[i + 1].hash <= ents[m - 1].hash
        BY <1>7, <1>8, <4>1
      <4> QED BY <1>6, <3>0, <3>5, <4>1, <4>2
    <3>6. CASE m > i + 1 /\ j > i + 1
      <4>1. /\ j \in i + 2 .. M + 1 /\ j - 1 \in 2 .. M /\ m \in i + 2 .. M + 1 /\ m - 1 \in 2 .. M
            /\ j - 1 <= m - 1
        BY <1>00, <2>3, <3>6
      <4> QED BY <1>6, <1>7, <4>1
    <3> QED BY <1>00, <2>3, <3>1, <3>2, <3>3, <3>4, <3>5, <3>6
  <2>4. ASSUME NEW m \in 2 .. N + 1 PROVE \E j \in 1 .. M + 1 : new[j].lblk + 1 = m
    <3>1. CASE m = N + 1
      <4>1. i + 1 \in 1 .. M + 1
        BY <1>00
      <4> QED BY <1>6, <3>1, <4>1
    <3>2. CASE m # N + 1
      <4>1. m \in 2 .. N
        BY <3>2
      <4>2. PICK p \in 1 .. M : ents[p].lblk + 1 = m
        BY <1>7, <4>1
      <4>3. CASE p <= i
        <5>1. p \in 1 .. i /\ p \in 1 .. M + 1
          BY <4>3
        <5> QED BY <1>6, <4>2, <5>1
      <4>4. CASE p > i
        <5>1. p + 1 \in i + 2 .. M + 1 /\ p + 1 \in 1 .. M + 1 /\ (p + 1) - 1 = p
          BY <1>00, <4>4
        <5>2. new[p + 1] = ents[p]
          BY <1>6, <5>1
        <5> QED BY <4>2, <5>1, <5>2
      <4> QED BY <1>00, <4>3, <4>4
    <3> QED BY <3>1, <3>2
  <2> QED BY <1>3, <1>6, <2>1, <2>2, <2>3, <2>4 DEF Indexed
\* Where the names belong in the new index.
<1>10. ASSUME NEW j \in 1 .. M, NEW n, Fits(n, ents, j), j < i PROVE Fits(n, new, j)
  <2>1. j \in 1 .. i /\ j + 1 \in 1 .. i /\ j < M /\ j < M + 1
    BY <1>00, <1>10
  <2>2. new[j] = ents[j] /\ new[j + 1] = ents[j + 1]
    BY <1>6, <2>1
  <2> QED BY <1>00, <1>6, <1>10, <2>1, <2>2 DEF Fits
<1>11. ASSUME NEW j \in 1 .. M, NEW n, Fits(n, ents, j), j > i PROVE Fits(n, new, j + 1)
  <2>1. j + 1 \in i + 2 .. M + 1 /\ (j + 1) - 1 = j /\ j > 1
    BY <1>00, <1>11
  <2>2. new[j + 1] = ents[j]
    BY <1>6, <2>1
  <2>3. CASE j < M
    <3>1. (j + 1) + 1 \in i + 2 .. M + 1 /\ ((j + 1) + 1) - 1 = j + 1
      BY <1>00, <1>11, <2>3
    <3>2. new[(j + 1) + 1] = ents[j + 1]
      BY <1>6, <3>1
    <3> QED BY <1>00, <1>11, <2>1, <2>2, <2>3, <3>2 DEF Fits
  <2>4. CASE ~(j < M)
    <3>1. ~(j + 1 < Len(new))
      BY <1>6, <2>4
    <3> QED BY <1>11, <2>1, <2>2, <3>1 DEF Fits
  <2> QED BY <2>3, <2>4
<1>12. ASSUME NEW n \in NamesIn(left) PROVE Fits(n, new, i)
  <2>1. Fits(n, ents, i) /\ Hash[n] <= Hash[k] /\ n # k /\ n \in Names /\ k \in Names
        /\ Hash[n] \in Nat /\ Hash[k] \in Nat
    BY <1>2, <1>4, <1>5
  <2>2. Hash[n] < Hash[k] \/ (Hash[n] = Hash[k] /\ Shared(n))
    BY <2>1 DEF Shared
  <2>3. i \in 1 .. i /\ new[i] = ents[i]
    BY <1>6
  <2> QED BY <1>6, <2>1, <2>2, <2>3 DEF Fits
<1>13. ASSUME NEW n \in NamesIn(right) PROVE Fits(n, new, i + 1)
  <2>1. Fits(n, ents, i) /\ Hash[k] <= Hash[n]
    BY <1>2, <1>5
  <2>2. CASE i < M
    <3>1. (i + 1) + 1 \in i + 2 .. M + 1 /\ ((i + 1) + 1) - 1 = i + 1
      BY <1>00, <2>2
    <3>2. new[(i + 1) + 1] = ents[i + 1]
      BY <1>6, <3>1
    <3> QED BY <1>00, <1>6, <2>1, <2>2, <3>2 DEF Fits
  <2>3. CASE ~(i < M)
    <3>1. ~(i + 1 < Len(new))
      BY <1>6, <2>3
    <3> QED BY <1>6, <2>1, <3>1 DEF Fits
  <2> QED BY <2>2, <2>3
<1>14. ASSUME NEW m \in 1 .. N + 1, NEW n \in NamesIn(c[m]) PROVE MayHold(new, m, n)
  <2>1. ASSUME m = 1 PROVE n \notin Names
    <3>1. l # 1 /\ m # N + 1 /\ m \in 1 .. N
      BY <1>0, <2>1 DEF MayHold
    <3>2. c[m] = blks[m]
      BY <1>3, <2>1, <3>1
    <3> QED BY <1>0, <1>14, <2>1, <3>1, <3>2 DEF Ordered, MayHold
  <2>2. ASSUME NEW j \in 1 .. M + 1, new[j].lblk + 1 = m PROVE Fits(n, new, j)
    <3>1. CASE j = i + 1
      <4>1. m = N + 1
        BY <1>6, <2>2, <3>1
      <4> QED BY <1>3, <1>13, <1>14, <3>1, <4>1
    <3>2. CASE j = i
      <4>1. new[i] = ents[i] /\ m = l
        BY <1>6, <2>2, <3>2
      <4>2. c[m] = left
        BY <1>0, <1>3, <4>1
      <4> QED BY <1>12, <1>14, <3>2, <4>2
    <3>3. CASE j < i
      <4>1. j \in 1 .. i /\ j \in 1 .. M /\ i \in 1 .. M /\ j # i
        BY <1>00, <3>3
      <4>2. ents[j].lblk + 1 = m /\ ents[j].lblk < N /\ ents[j].lblk \in Nat /\ ents[i].lblk \in Nat
        BY <1>6, <1>7, <2>2, <4>1
      <4>a. ents[j].lblk # ents[i].lblk
        BY <1>7, <4>1
      <4>b. m \in 1 .. N
        BY <4>2
      <4>c. m # l
        BY <4>2, <4>a
      <4>3. m \in 1 .. N /\ m # l
        BY <4>b, <4>c
      <4>4. n \in NamesIn(blks[m])
        BY <1>3, <1>14, <4>3
      <4>5. Fits(n, ents, j)
        BY <1>0, <1>00, <4>1, <4>2, <4>3, <4>4 DEF Ordered, MayHold
      <4> QED BY <1>10, <3>3, <4>1, <4>5
    <3>4. CASE j > i + 1
      <4>0. PICK p \in 1 .. M : p = j - 1 /\ p > i /\ j = p + 1
        BY <1>00, <3>4
      <4>1. j \in i + 2 .. M + 1 /\ i \in 1 .. M /\ p # i
        BY <1>00, <3>4, <4>0
      <4>2. ents[p].lblk + 1 = m /\ ents[p].lblk < N /\ ents[p].lblk \in Nat /\ ents[i].lblk \in Nat
        BY <1>6, <1>7, <2>2, <4>0, <4>1
      <4>a. ents[p].lblk # ents[i].lblk
        BY <1>7, <4>1
      <4>3. m \in 1 .. N /\ m # l
        BY <4>2, <4>a
      <4>4. n \in NamesIn(blks[m])
        BY <1>3, <1>14, <4>3
      <4>5. Fits(n, ents, p)
        BY <1>0, <1>00, <4>2, <4>3, <4>4 DEF Ordered, MayHold
      <4> QED BY <1>11, <4>0, <4>5
    <3> QED BY <1>00, <3>1, <3>2, <3>3, <3>4
  <2> QED BY <1>6, <2>1, <2>2 DEF MayHold
<1> QED BY <1>1, <1>3, <1>9, <1>14 DEF Ordered

\* The leaf that the index leads to may hold the name.
LeadsTo(x, name, i) ==
  PickLeaf(x, Hash[name]) = x.root.ents[i].lblk /\ MayHold(x.root.ents, x.root.ents[i].lblk + 1, name)

\* An index of one level leads to the names.
HashOK(x) == x.indexed /\ x.level = 0 => Ordered(x.blks, x.root.ents)

LEMMA PickedLeaf ==
  ASSUME NEW x, DirOK(x), x.indexed, x.level = 0, HashOK(x), NEW name \in Names
  PROVE  /\ x.root.ents \in Seq(Entries) /\ Ordered(x.blks, x.root.ents)
         /\ \E i \in 1 .. Len(x.root.ents) : LeadsTo(x, name, i)
<1>1. PICK ents : ents = x.root.ents
  OBVIOUS
<1>2. ents \in Seq(Entries) /\ Len(ents) >= 1
  <2>1. Target(x) = x.root
    BY DEF Target
  <2>2. x.root \in Indices
    BY DirFacts
  <2> QED BY <1>1, <2>1, <2>2 DEF Indices, DirOK, IndexOK
<1>3. Ordered(x.blks, ents) /\ Hash[name] \in Nat
  BY <1>1, DirectoryAssumption DEF HashOK
<1>4. PICK i \in 1 .. Len(ents) : Picked(ents, Hash[name], i)
  BY <1>2, <1>3, PickedExists
<1>5. PickLeaf(x, Hash[name]) = ents[i].lblk
  BY <1>1, <1>4 DEF PickLeaf, Picked, Target
<1>6. MayHold(ents, ents[i].lblk + 1, name)
  BY <1>2, <1>3, <1>4, PickedFits DEF Ordered
<1> QED BY <1>1, <1>2, <1>3, <1>5, <1>6 DEF LeadsTo

\* The index over the one block of a directory has one leaf.
LEMMA FirstIndex ==
  ASSUME NEW blks \in BlockSeqs, Len(blks) = 2, NamesIn(blks[1]) = Dots,
         NEW ents \in Seq(Entries), Len(ents) = 1, ents[1].lblk = 1
  PROVE  Ordered(blks, ents)
<1>1. Indexed(blks, ents)
  BY DEF Indexed
<1>2. ASSUME NEW l \in 1 .. Len(blks), NEW n \in NamesIn(blks[l]) PROVE MayHold(ents, l, n)
  <2>1. l = 1 => n \notin Names
    BY <1>2, DirectoryAssumption
  <2>2. \A i \in 1 .. Len(ents) : Fits(n, ents, i)
    BY DEF Fits
  <2> QED BY <2>1, <2>2 DEF MayHold
<1> QED BY <1>1, <1>2 DEF Ordered

\* An operation that adds a name leaves an index of one level in order, as long
\* as it does not fail half way, and builds such an index over one block.
HashKept(x, r) ==
  HashOK(x) /\ (x.indexed \/ Len(x.blks) = 1) /\ (r.ok \/ Listing(r.d) = Listing(x)) => HashOK(r.d)

-----------------------------------------------------------------------------
(* A full leaf is split.                                                    *)

\* What an addition to the index does to it: nothing, or it is one of two levels,
\* or there is one entry more.
IndexEffect(x, lblk, e, r) ==
  \/ ~r.ok /\ r.d = x
  \/ r.ok /\ r.d.level = 1
  \/ /\ r.ok /\ x.level = 0 /\ r.d.blks = x.blks
     /\ r.d.root.ents = WithEntry(x.root.ents, lblk, e)

LEMMA AddToIndexEffect ==
  ASSUME NEW x, DirOK(x), NEW lblk, NEW e
  PROVE  IndexEffect(x, lblk, e, AddToIndex(x, lblk, e))
<1>0. x \in Directories /\ x.level \in {0, 1} /\ x.root \in Indices
  BY DirFacts DEF DirOK
<1>1. PICK ents : ents = WithEntry(Target(x).ents, lblk, e)
  OBVIOUS
<1>2. PICK r : r = AddToIndex(x, lblk, e)
  OBVIOUS
<1>3. CASE Len(ents) > Target(x).limit /\ (x.level = 1 \/ ~CanMap(x))
  <2>1. r = No(x)
    BY <1>1, <1>2, <1>3 DEF AddToIndex, GrowIndex
  <2> QED BY <1>2, <2>1, NoOutcome DEF IndexEffect
<1>4. CASE ~(Len(ents) > Target(x).limit)
  <2>1. PICK y : y = IF x.level = 1 THEN [x EXCEPT !.node.ents = ents]
                                    ELSE [x EXCEPT !.root.ents = ents]
    OBVIOUS
  <2>2. r.ok /\ r.d = y
    BY <1>1, <1>2, <1>4, <2>1 DEF AddToIndex
  <2>3. CASE x.level = 1
    <3>1. PICK i : i = [x.node EXCEPT !.ents = ents]
      OBVIOUS
    <3>2. y = [x EXCEPT !.node = i]
      BY <2>1, <2>3, <3>1
    <3>3. y.level = 1
      BY <1>0, <2>3, <3>2 DEF Directories
    <3> QED BY <1>2, <2>2, <3>3 DEF IndexEffect
  <2>4. CASE x.level = 0
    <3>1. PICK i : i = [x.root EXCEPT !.ents = ents]
      OBVIOUS
    <3>2. y = [x EXCEPT !.root = i]
      BY <2>1, <2>4, <3>1
    <3>3. i.ents = ents
      BY <1>0, <3>1 DEF Indices
    <3>4. y.blks = x.blks /\ y.root = i
      BY <1>0, <3>2 DEF Directories
    <3>5. ents = WithEntry(x.root.ents, lblk, e)
      BY <1>1, <2>4 DEF Target
    <3> QED BY <1>2, <2>2, <2>4, <3>3, <3>4, <3>5 DEF IndexEffect
  <2> QED BY <1>0, <2>3, <2>4
<1>5. CASE Len(ents) > Target(x).limit /\ x.level = 0 /\ CanMap(x)
  <2>1. PICK y : y = MapBlock(x, Empty)
    OBVIOUS
  <2>2. y \in Directories
    <3>1. /\ Empty \in Seq(FileRecords) /\ Distinct(Empty)
          /\ NamesIn(Empty) \cap AllNames(x.blks) = {}
      BY NewLeafProperties
    <3>2. DirOK(y)
      BY <1>5, <2>1, <3>1, MapBlockOK
    <3> QED BY <3>2 DEF DirOK
  <2>3. PICK i : i = [limit |-> x.root.limit,
                      ents |-> SubSeq(WithEntry(x.root.ents, lblk, e), 1, Len(x.root.ents))]
    OBVIOUS
  <2>4. PICK j : j = <<DxEntry(0, NextLblk(x))>>
    OBVIOUS
  <2>5. r.d = [y EXCEPT !.level = 1, !.node = i, !.root.ents = j] /\ r.ok
    BY <1>1, <1>2, <1>5, <2>1, <2>3, <2>4 DEF AddToIndex, GrowIndex
  <2>6. r.d.level = 1
    BY <2>2, <2>5 DEF Directories
  <2> QED BY <1>2, <2>5, <2>6 DEF IndexEffect
<1> QED BY <1>0, <1>3, <1>4, <1>5

\* The names of a leaf and one more, sorted.
LEMMA SplitItems ==
  ASSUME NEW leaf \in Seq(FileRecords), Distinct(leaf), NEW name \in Names,
         name \notin NamesIn(leaf)
  PROVE  /\ ExchangeSort(Append(Collect(leaf), name), Hash) \in Seq(Names)
         /\ Injective(ExchangeSort(Append(Collect(leaf), name), Hash))
         /\ ToSet(ExchangeSort(Append(Collect(leaf), name), Hash)) = NamesIn(leaf) \cup {name}
         /\ Ascending(ExchangeSort(Append(Collect(leaf), name), Hash), Hash)
<1>0. leaf \in Seq(Records)
  BY RecordFacts
<1>1. PICK s \in Seq(Names \cup Dots) : s = Collect(leaf)
  BY <1>0, CollectProperties
<1>2. Injective(s) /\ ToSet(s) = NamesIn(leaf)
  BY <1>0, <1>1, CollectProperties
<1>3. PICK t : t = Append(s, name)
  OBVIOUS
<1>4. t \in Seq(Names \cup Dots)
  BY <1>3, AppendProperties
<1>5. Injective(t) /\ ToSet(t) = NamesIn(leaf) \cup {name}
  BY <1>2, <1>3, AppendNew
<1>6. PICK u : u = ExchangeSort(t, Hash)
  OBVIOUS
<1>7. u \in Arrangements(t)
  BY <1>4, <1>5, <1>6, SortKeeps
<1>8. u \in Seq(ToSet(t)) /\ Injective(u) /\ ToSet(u) = ToSet(t)
  BY <1>7 DEF Arrangements
<1>9. ToSet(u) \subseteq Names
  BY <1>5, <1>8, NameFacts
<1>10. u \in Seq(Names)
  BY <1>8, <1>9, SeqInto
<1>11. Ascending(u, Hash)
  <2>1. Keyed(t, Hash)
    BY <1>5, NameFacts, DirectoryAssumption DEF Keyed
  <2> QED BY <1>4, <1>5, <1>6, <2>1, SortOrders
<1> QED BY <1>1, <1>3, <1>5, <1>6, <1>8, <1>10, <1>11

\* What the split of a leaf does to an index of one level that then has one.
SplitEffect(x, lblk, name, r) ==
  \/ r.d = x
  \/ r.d.level = 1
  \/ ~r.ok /\ Listing(r.d) # Listing(x)
  \/ \E left, right, k :
        /\ SplitOf(x.blks, lblk + 1, name, left, right, k) /\ x.level = 0
        /\ \/ r.d.blks = Put(x.blks, lblk + 1, left) /\ r.d.root = x.root
           \/ /\ r.d.blks = Append(Put(x.blks, lblk + 1, left), right)
              /\ r.d.root.ents = WithEntry(x.root.ents, lblk, DxEntry(Hash[k], Len(x.blks)))

LEMMA SplitLeafOK ==
  ASSUME NEW x, DirOK(x), x.indexed, NEW lblk \in Nat \ {0}, lblk < Len(x.blks),
         NEW name \in Names, name \notin Listing(x)
  PROVE  /\ Outcome(x, {name}, SplitLeaf(x, lblk, name))
         /\ SplitEffect(x, lblk, name, SplitLeaf(x, lblk, name))
<1>0. x.blks \in BlockSeqs /\ Len(x.blks) \in Nat /\ x \in Directories
  BY DirFacts DEF DirOK
<1>1. PICK l \in 2 .. Len(x.blks) : l = lblk + 1
  BY <1>0
<1>2. l \in 1 .. Len(x.blks) /\ l # 1 /\ SortOf(l) = FileRecords
  <2>1. l \in 1 .. Len(x.blks) /\ l # 1
    BY <1>0
  <2> QED BY <2>1, SortFacts
<1>3. PICK leaf \in Seq(FileRecords) : leaf = x.blks[l]
  BY <1>0, BlockFacts
<1>4. Distinct(leaf) /\ NamesIn(leaf) \subseteq AllNames(x.blks) /\ name \notin AllNames(x.blks)
  BY <1>0, <1>2, <1>3, BlockFacts, Unlisted
<1>5. PICK items : items = ExchangeSort(Append(Collect(leaf), name), Hash)
  OBVIOUS
<1>6. items \in Seq(Names) /\ Injective(items) /\ ToSet(items) = NamesIn(leaf) \cup {name}
      /\ Ascending(items, Hash)
  BY <1>4, <1>5, SplitItems
<1>7. PICK r : r = SplitLeaf(x, lblk, name)
  OBVIOUS
<1>8. CASE Len(items) < 2
  <2>1. r = No(x)
    BY <1>1, <1>3, <1>5, <1>7, <1>8 DEF SplitLeaf
  <2> QED BY <1>7, <2>1, NoOutcome DEF SplitEffect
<1>9. CASE ~(Len(items) < 2)
  <2>0. Len(items) >= 2
    BY <1>6, <1>9, LenProperties
  <2>1. PICK h : h = SplitAt(items)
    OBVIOUS
  <2>2. /\ h.left \in Seq(Names) /\ Injective(h.left)
        /\ h.right \in Seq(Names) /\ Injective(h.right) /\ Len(h.right) >= 1
        /\ ToSet(h.left) \cup ToSet(h.right) = ToSet(items)
        /\ ToSet(h.left) \cap ToSet(h.right) = {}
    BY <1>6, <2>0, <2>1, SplitAtProperties
  <2>3. PICK left : left = PackLeaf(h.left)
    OBVIOUS
  <2>4. PICK right : right = PackLeaf(h.right)
    OBVIOUS
  <2>5. left \in Seq(FileRecords) /\ Distinct(left) /\ NamesIn(left) = ToSet(h.left)
    BY <2>2, <2>3, PackProperties
  <2>6. right \in Seq(FileRecords) /\ Distinct(right) /\ NamesIn(right) = ToSet(h.right)
    BY <2>2, <2>4, PackProperties
  <2>7. ~(PackLen(h.left) > BlockLen) => Tiles(left)
    BY <2>2, <2>3, PackProperties
  <2>8. ~(PackLen(h.right) > BlockLen) => Tiles(right)
    BY <2>2, <2>4, PackProperties
  <2>a. PICK k : k = h.right[1]
    OBVIOUS
  <2>b. SplitOf(x.blks, lblk + 1, name, left, right, k)
    <3>1. Parted(h)
      BY <1>6, <2>0, <2>1, SplitAtParts
    <3> QED BY <1>1, <1>3, <1>6, <2>2, <2>5, <2>6, <2>a, <3>1 DEF SplitOf, Parted
  <2>9. PICK cut : cut = WithBlock(x, l, left)
    OBVIOUS
  <2>10. NamesIn(left) \cap (AllNames(x.blks) \ NamesIn(x.blks[l])) = {}
    BY <1>3, <1>4, <1>6, <2>2, <2>5
  <2>11. left \in Seq(SortOf(l))
    BY <1>2, <2>5
  <2>12. DirOK(cut) /\ SameIndex(x, cut) /\ cut.blks = Put(x.blks, l, left)
    BY <1>2, <2>5, <2>9, <2>10, <2>11, WithBlockOK
  <2>13. AllTile(x.blks) /\ Tiles(left) => AllTile(cut.blks)
    BY <1>2, <2>5, <2>9, <2>10, <2>11, WithBlockOK
  <2>14. AllNames(cut.blks) = (AllNames(x.blks) \ NamesIn(x.blks[l])) \cup NamesIn(left)
    <3>1. AllNames(Put(x.blks, l, left)) = (AllNames(x.blks) \ NamesIn(x.blks[l])) \cup NamesIn(left)
      BY <1>0, <1>2, <2>5, <2>10, <2>11, PutProperties
    <3> QED BY <2>12, <3>1
  <2>15. cut = [x EXCEPT !.blks[lblk + 1] = PackLeaf(h.left)]
    BY <1>1, <2>3, <2>9 DEF WithBlock, Put
  <2>16. CASE ~CanMap(cut)
    <3>1. PICK o \in BOOLEAN : o = (PackLen(h.left) > BlockLen)
      <4>1. PackLen(h.left) \in Nat /\ BlockLen \in Nat
        BY <2>2, PackProperties, DirectoryAssumption
      <4>2. (PackLen(h.left) > BlockLen) \in BOOLEAN
        BY <4>1
      <4> QED BY <4>2, Zenon
    <3>2. r = WithTorn(No(cut), o)
      BY <1>1, <1>3, <1>5, <1>7, <1>9, <2>1, <2>15, <2>16, <3>1 DEF SplitLeaf, WithTorn
    <3>3. Outcome(cut, {}, No(cut)) /\ ~No(cut).ok /\ No(cut).d = cut
      BY <2>12, NoOutcome
    <3>4. No(cut) \in Results
      BY <3>3 DEF Outcome
    <3>5. r \in Results /\ ~r.ok /\ r.d = cut /\ (r.torn <=> o)
      BY <3>2, <3>3, <3>4, WithTornIs
    <3>6. AllTile(x.blks) /\ ~r.torn => AllTile(r.d.blks)
      BY <2>7, <2>13, <3>1, <3>5
    <3>7. Outcome(x, {name}, r)
      BY <2>12, <3>5, <3>6 DEF Outcome
    <3>8. SplitEffect(x, lblk, name, r)
      <4>1. r.d.root = x.root /\ r.d.level = x.level /\ r.d.blks = Put(x.blks, lblk + 1, left)
        BY <1>1, <2>12, <3>5 DEF SameIndex
      <4>2. x.level = 0 \/ x.level = 1
        BY DirFacts
      <4> QED BY <2>b, <4>1, <4>2 DEF SplitEffect
    <3> QED BY <1>7, <3>7, <3>8
  <2>17. CASE CanMap(cut)
    <3>1. PICK both : both = MapBlock(cut, right)
      OBVIOUS
    <3>2. NamesIn(right) \cap AllNames(cut.blks) = {}
      BY <1>3, <1>4, <1>6, <2>2, <2>5, <2>6, <2>14
    <3>3. DirOK(both) /\ SameIndex(cut, both)
      BY <2>6, <2>12, <2>17, <3>1, <3>2, MapBlockOK
    <3>4. Listing(both) = Listing(cut) \cup NamesIn(right)
      BY <2>6, <2>12, <2>17, <3>1, <3>2, MapBlockOK
    <3>k. both.blks = Append(cut.blks, right)
      BY <2>6, <2>12, <2>17, <3>1, <3>2, MapBlockOK
    <3>5. AllTile(cut.blks) /\ Tiles(right) => AllTile(both.blks)
      BY <2>6, <2>12, <2>17, <3>1, <3>2, MapBlockOK
    <3>6. both.indexed
      BY <2>12, <3>3 DEF SameIndex
    <3>7. Listing(both) = Listing(x) \cup {name}
      <4>1. Listing(cut) = AllNames(cut.blks) \ Dots /\ Listing(x) = AllNames(x.blks) \ Dots
        BY <2>12, DirFacts
      <4>2. NamesIn(right) \cap Dots = {} /\ name \notin Dots
        BY <2>6, NameFacts, DirectoryAssumption
      <4>3. NamesIn(left) \cup NamesIn(right) = NamesIn(leaf) \cup {name}
        BY <1>6, <2>2, <2>5, <2>6
      <4> QED BY <1>3, <1>4, <2>14, <3>4, <4>1, <4>2, <4>3
    <3>8. PICK e \in Entries : e = DxEntry(Hash[h.right[1]], NextLblk(cut))
      <4>1. h.right[1] \in Names
        <5>1. 1 \in 1 .. Len(h.right)
          BY <2>2, LenProperties
        <5> QED BY <2>2, <5>1, ElementOfSeq
      <4>2. Hash[h.right[1]] \in Nat
        BY <4>1, DirectoryAssumption
      <4>3. NextLblk(cut) \in Nat \ {0}
        BY <2>12, DirFacts DEF NextLblk
      <4> QED BY <4>2, <4>3 DEF DxEntry, Entries
    <3>9. PICK q : q = AddToIndex(both, lblk, e)
      OBVIOUS
    <3>10. Outcome(both, {}, q)
      BY <3>3, <3>6, <3>9, AddToIndexOK
    <3>11. q \in Results /\ DirOK(q.d) /\ (q.ok => Listing(q.d) = Listing(both))
      BY <3>10 DEF Outcome
    <3>t. ~q.torn
      BY <3>9 DEF AddToIndex, GrowIndex, No
    <3>12. AllTile(both.blks) => AllTile(q.d.blks)
      BY <3>10, <3>t DEF Outcome
    <3>e. IndexEffect(both, lblk, e, q)
      BY <3>3, <3>9, AddToIndexEffect
    <3>13. PICK o \in BOOLEAN : o = (PackLen(h.left) > BlockLen \/ PackLen(h.right) > BlockLen)
      OBVIOUS
    <3>14. AllTile(x.blks) /\ ~o => AllTile(q.d.blks)
      BY <2>7, <2>8, <2>13, <3>5, <3>12, <3>13
    <3>15. r = IF ~q.ok THEN WithTorn(q, o) ELSE Result(TRUE, WriteInode(q.d), o)
      BY <1>1, <1>3, <1>5, <1>7, <1>9, <2>1, <2>4, <2>15, <2>17, <3>1, <3>8, <3>9, <3>13
         DEF SplitLeaf, WithTorn, Result
    <3>16. CASE ~q.ok
      <4>1. r = WithTorn(q, o)
        BY <3>15, <3>16
      <4>2. r \in Results /\ ~r.ok /\ r.d = q.d /\ (r.torn <=> o)
        BY <3>11, <3>16, <4>1, WithTornIs
      <4>3. AllTile(x.blks) /\ ~r.torn => AllTile(r.d.blks)
        BY <3>14, <4>2
      <4>4. Outcome(x, {name}, r)
        BY <3>11, <4>2, <4>3 DEF Outcome
      <4>5. r.d = both
        BY <3>16, <3>e, <4>2 DEF IndexEffect
      <4>6. SplitEffect(x, lblk, name, r)
        BY <3>7, <4>2, <4>5 DEF SplitEffect
      <4> QED BY <1>7, <4>4, <4>6
    <3>17. CASE q.ok
      <4>1. PICK z : z = WriteInode(q.d)
        OBVIOUS
      <4>2. DirOK(z) /\ Listing(z) = Listing(q.d) /\ z.blks = q.d.blks /\ SameIndex(q.d, z)
        BY <3>11, <4>1, WriteInodeOK
      <4>3. r = Result(TRUE, z, o)
        BY <3>15, <3>17, <4>1
      <4>4. r \in Results /\ r.ok /\ r.d = z /\ (r.torn <=> o)
        <5>1. z \in Directories
          BY <4>2 DEF DirOK
        <5> QED BY <4>3, <5>1, ResultIs
      <4>5. Listing(r.d) = Listing(x) \cup {name}
        BY <3>7, <3>11, <3>17, <4>2, <4>4
      <4>6. AllTile(x.blks) /\ ~r.torn => AllTile(r.d.blks)
        BY <3>14, <4>2, <4>4
      <4>7. Outcome(x, {name}, r)
        BY <4>2, <4>4, <4>5, <4>6 DEF Outcome
      <4>8. SplitEffect(x, lblk, name, r)
        <5>1. CASE q.d.level = 1
          BY <4>2, <4>4, <5>1 DEF SameIndex, SplitEffect
        <5>2. CASE q.d.level # 1
          <6>1. /\ both.level = 0 /\ q.d.blks = both.blks
                /\ q.d.root.ents = WithEntry(both.root.ents, lblk, e)
            BY <3>17, <3>e, <5>2 DEF IndexEffect
          <6>2. x.level = 0 /\ both.root = x.root
            BY <2>12, <3>3, <6>1 DEF SameIndex
          <6>3. both.blks = Append(Put(x.blks, lblk + 1, left), right)
            BY <1>1, <2>12, <3>1, <3>k
          <6>4. e = DxEntry(Hash[k], Len(x.blks))
            <7>1. NextLblk(cut) = Len(x.blks)
              BY <1>0, <1>2, <2>5, <2>10, <2>11, <2>12, PutProperties DEF NextLblk
            <7> QED BY <2>a, <3>8, <7>1
          <6>5. r.d.blks = both.blks /\ r.d.root = q.d.root
            BY <4>2, <4>4, <6>1 DEF SameIndex
          <6> QED BY <2>b, <6>1, <6>2, <6>3, <6>4, <6>5 DEF SplitEffect
        <5> QED BY <5>1, <5>2
      <4> QED BY <1>7, <4>7, <4>8
    <3> QED BY <3>16, <3>17
  <2> QED BY <2>16, <2>17
<1> QED BY <1>8, <1>9

-----------------------------------------------------------------------------
(* A linear directory gets an index.                                        *)

RootBlock == <<Rec(Size[Dot], Dot), Rec(BlockLen - Size[Dot], DotDot)>>

LEMMA DotFacts ==
  /\ Size[Dot] \in Nat \ {0} /\ Size[DotDot] \in Nat \ {0} /\ BlockLen \in Nat
  /\ Size[Dot] + Size[DotDot] < BlockLen
  /\ Dot # DotDot /\ Dot # Hole /\ DotDot # Hole /\ Dot \in Dots /\ DotDot \in Dots
  /\ \A len \in 1 .. BlockLen : \A n \in Dots \cup {Hole} :
        Rec(len, n) \in Records /\ Rec(len, n).len = len /\ Rec(len, n).name = n
<1>1. Dot # DotDot /\ Dot # Hole /\ DotDot # Hole
  BY DEF Dot, DotDot, Hole
<1>2. Dot \in Dots /\ DotDot \in Dots
  BY DEF Dots
<1>3. Size[Dot] \in Nat \ {0} /\ Size[DotDot] \in Nat \ {0}
  BY <1>2, DirectoryAssumption
<1>4. \A len \in 1 .. BlockLen : \A n \in Dots \cup {Hole} :
        Rec(len, n) \in Records /\ Rec(len, n).len = len /\ Rec(len, n).name = n
  BY DEF Rec, Records
<1> QED BY <1>1, <1>2, <1>3, <1>4, DirectoryAssumption

\* Two records that tile a block: the dots of an index root.
LEMMA RootBlockProperties ==
  /\ RootBlock \in Seq(Records) /\ Distinct(RootBlock) /\ Tiles(RootBlock)
  /\ NamesIn(RootBlock) = Dots
<1>0. /\ Size[Dot] \in 1 .. BlockLen - 1 /\ Size[DotDot] \in 1 .. BlockLen - Size[Dot]
      /\ BlockLen \in Nat /\ Dot # DotDot /\ Dot # Hole /\ DotDot # Hole
  BY DotFacts
<1>1. PICK r \in Records : r = Rec(Size[Dot], Dot) /\ r.len = Size[Dot] /\ r.name = Dot
  <2>1. Size[Dot] \in 1 .. BlockLen
    BY <1>0
  <2> QED BY <2>1, DotFacts
<1>2. PICK q \in Records : q = Rec(BlockLen - Size[Dot], DotDot)
                           /\ q.len = BlockLen - Size[Dot] /\ q.name = DotDot
  <2>1. BlockLen - Size[Dot] \in 1 .. BlockLen
    BY <1>0
  <2> QED BY <2>1, DotFacts
<1>3. PICK u : u = RootBlock
  OBVIOUS
<1>4. u \in Seq(Records) /\ Len(u) = 2 /\ u[1] = r /\ u[2] = q /\ DOMAIN u = 1 .. 2
  BY <1>1, <1>2, <1>3 DEF RootBlock
<1>5. \A k \in 1 .. 2 : k = 1 \/ k = 2
  OBVIOUS
<1>6. Distinct(u)
  BY <1>0, <1>1, <1>2, <1>4, <1>5 DEF Distinct
<1>7. NamesIn(u) = Dots
  <2>1. \A n : n \in NamesIn(u) <=> n # Hole /\ \E i \in 1 .. 2 : u[i].name = n
    BY <1>4, NameFacts
  <2>2. \A n : n \in NamesIn(u) <=> n = Dot \/ n = DotDot
    BY <1>0, <1>1, <1>2, <1>4, <1>5, <2>1
  <2> QED BY <2>2 DEF Dots
<1>8. Tiles(u)
  <2> DEFINE f == [k \in 0 .. 2 |-> IF k = 0 THEN 0 ELSE IF k = 1 THEN Size[Dot] ELSE BlockLen]
  <2>1. f[0] = 0 /\ f[1] = Size[Dot] /\ f[2] = BlockLen
    OBVIOUS
  <2> HIDE DEF f
  <2>2. \A k \in 0 .. 2 : k = 0 \/ k = 1 \/ k = 2
    OBVIOUS
  <2>3. f[1] = f[1 - 1] + u[1].len /\ f[2] = f[2 - 1] + u[2].len
    BY <1>0, <1>1, <1>2, <1>4, <2>1
  <2>4. \A k \in 0 .. 2 : f[k] \in Nat
    BY <1>0, <2>1, <2>2
  <2>5. Places(u, f) /\ f[Len(u)] = BlockLen
    BY <1>4, <1>5, <2>1, <2>3, <2>4 DEF Places
  <2>6. \A j \in 1 .. Len(u) : UsedLen(u[j]) <= u[j].len
    <3>1. UsedLen(r) = Size[Dot] /\ UsedLen(q) = Size[DotDot]
      BY <1>0, <1>1, <1>2 DEF UsedLen
    <3> QED BY <1>0, <1>1, <1>2, <1>4, <1>5, <3>1
  <2> QED BY <2>5, <2>6 DEF Tiles
<1> QED BY <1>3, <1>4, <1>6, <1>7, <1>8

\* The names of block 0 in a new last block instead.
LEMMA UpgradeBlocks ==
  ASSUME NEW blks \in BlockSeqs, Len(blks) >= 1, NEW recs \in Seq(FileRecords),
         Distinct(recs), NamesIn(recs) = NamesIn(blks[1]) \ Dots
  PROVE  /\ Put(Append(blks, recs), 1, RootBlock) \in BlockSeqs
         /\ Len(Put(Append(blks, recs), 1, RootBlock)) = Len(blks) + 1
         /\ Put(Append(blks, recs), 1, RootBlock)[1] = RootBlock
         /\ AllNames(Put(Append(blks, recs), 1, RootBlock)) \ Dots = AllNames(blks) \ Dots
         /\ AllTile(blks) /\ Tiles(recs)
              => AllTile(Put(Append(blks, recs), 1, RootBlock))
<1>0. /\ Len(blks) \in Nat /\ 1 \in 1 .. Len(blks) /\ blks \in Seq(Seq(Records))
      /\ recs \in Seq(Records) /\ NamesIn(blks[1]) \subseteq AllNames(blks)
      /\ RootBlock \in Seq(SortOf(1))
  <2>1. Len(blks) \in Nat /\ blks \in Seq(Seq(Records)) /\ recs \in Seq(Records)
    BY BlockFacts, RecordFacts
  <2>2. 1 \in 1 .. Len(blks)
    BY <2>1
  <2> QED BY <2>1, <2>2, BlockFacts, RootBlockProperties DEF SortOf
<1>1. Dots \cap (AllNames(blks) \ NamesIn(blks[1])) = {}
  <2> SUFFICES ASSUME NEW n \in AllNames(blks), n \notin NamesIn(blks[1]) PROVE n \notin Dots
    OBVIOUS
  <2>1. PICK m \in 1 .. Len(blks) : n \in NamesIn(blks[m])
    BY DEF AllNames
  <2>2. m \in 2 .. Len(blks)
    BY <1>0, <2>1
  <2>3. n \in Names
    BY <2>1, <2>2, BlockFacts, NameFacts
  <2> QED BY <2>3, DirectoryAssumption
<1>2. PICK b : b = Put(blks, 1, RootBlock)
  OBVIOUS
<1>3. NamesIn(RootBlock) \cap (AllNames(blks) \ NamesIn(blks[1])) = {} /\ Distinct(RootBlock)
  BY <1>1, RootBlockProperties
<1>4. b \in BlockSeqs /\ Len(b) = Len(blks)
  BY <1>0, <1>2, <1>3, PutProperties
<1>5. AllNames(b) = (AllNames(blks) \ NamesIn(blks[1])) \cup NamesIn(RootBlock)
  <2>1. AllNames(Put(blks, 1, RootBlock)) =
          (AllNames(blks) \ NamesIn(blks[1])) \cup NamesIn(RootBlock)
    BY <1>0, <1>3, PutProperties
  <2> QED BY <1>2, <2>1
<1>6. AllTile(blks) /\ Tiles(RootBlock) => AllTile(b)
  BY <1>0, <1>2, <1>3, PutProperties
<1>7. \A m \in 1 .. Len(blks) : b[m] = IF m = 1 THEN RootBlock ELSE blks[m]
  BY <1>0, <1>2, <1>3, PutProperties
<1>8. PICK c : c = Append(b, recs)
  OBVIOUS
<1>9. NamesIn(recs) \cap AllNames(b) = {}
  BY <1>5, RootBlockProperties
<1>10. c \in BlockSeqs /\ Len(c) = Len(b) + 1
  BY <1>4, <1>8, <1>9, GrowProperties
<1>11. AllNames(c) = AllNames(b) \cup NamesIn(recs)
  BY <1>4, <1>8, <1>9, GrowProperties
<1>12. AllTile(b) /\ Tiles(recs) => AllTile(c)
  BY <1>4, <1>8, <1>9, GrowProperties
<1>13. PICK a : a = Append(blks, recs)
  OBVIOUS
<1>14. a \in Seq(Seq(Records)) /\ Len(a) = Len(blks) + 1
  BY <1>0, <1>13, AppendProperties
<1>15. \A m \in 1 .. Len(blks) : a[m] = blks[m]
  BY <1>0, <1>13, AppendProperties
<1>16. a[Len(blks) + 1] = recs
  BY <1>0, <1>13, AppendProperties
<1>17. PICK u : u = Put(a, 1, RootBlock)
  OBVIOUS
<1>18. u \in Seq(Seq(Records)) /\ Len(u) = Len(a)
       /\ \A m \in 1 .. Len(a) : u[m] = IF m = 1 THEN RootBlock ELSE a[m]
  <2>1. 1 \in 1 .. Len(a) /\ RootBlock \in Seq(Records)
    BY <1>0, <1>14, RootBlockProperties
  <2> QED BY <1>14, <1>17, <2>1, ExceptSeq DEF Put
<1>19. u = c
  <2>1. c \in Seq(Seq(Records)) /\ Len(c) = Len(u)
    BY <1>4, <1>10, <1>14, <1>18, BlockFacts
  <2>2. b \in Seq(Seq(Records))
    BY <1>4, BlockFacts
  <2>3. \A m \in 1 .. Len(b) : c[m] = b[m]
    BY <1>0, <1>8, <2>2, AppendProperties
  <2>4. c[Len(b) + 1] = recs
    BY <1>0, <1>8, <2>2, AppendProperties
  <2>5. ASSUME NEW m \in 1 .. Len(u) PROVE u[m] = c[m]
    <3>1. CASE m \in 1 .. Len(blks)
      <4>1. c[m] = b[m] /\ a[m] = blks[m] /\ b[m] = IF m = 1 THEN RootBlock ELSE blks[m]
        BY <1>4, <1>7, <1>15, <2>3, <3>1
      <4> QED BY <1>18, <2>5, <4>1
    <3>2. CASE m \notin 1 .. Len(blks)
      <4>1. m = Len(blks) + 1 /\ m # 1
        BY <1>0, <1>14, <1>18, <3>2
      <4>2. c[m] = recs /\ a[m] = recs
        BY <1>4, <1>16, <2>4, <4>1
      <4> QED BY <1>18, <2>5, <4>1, <4>2
    <3> QED BY <3>1, <3>2
  <2> QED BY <1>18, <2>1, <2>5, SeqEqual
<1>20. AllNames(c) \ Dots = AllNames(blks) \ Dots
  BY <1>0, <1>5, <1>11, RootBlockProperties
<1>21. AllTile(blks) /\ Tiles(recs) => AllTile(c)
  BY <1>6, <1>12, RootBlockProperties
<1>22. u[1] = RootBlock
  <2>1. 1 \in 1 .. Len(a)
    BY <1>0, <1>14
  <2> QED BY <1>18, <2>1
<1> QED BY <1>4, <1>10, <1>13, <1>17, <1>19, <1>20, <1>21, <1>22

LEMMA FunctionIsSeq ==
  ASSUME NEW S, NEW n \in Nat, NEW s \in [1 .. n -> S]
  PROVE  s \in Seq(S) /\ Len(s) = n
<1>1. s \in Seq(S)
  OBVIOUS
<1> QED BY <1>1, LenProperties

Counted(n) == [i \in 1 .. n |-> i]
NewEntries(blks, lblks) ==
  [i \in DOMAIN lblks |->
      DxEntry(IF i = 1 THEN 0 ELSE MaxHash(blks[lblks[i - 1] + 1]) + 1, lblks[i])]

\* The entries of a new index, one for every block but the first.
LEMMA UpgradeEntries ==
  ASSUME NEW n \in Nat \ {0}, NEW blks, \A m \in 2 .. n + 1 : blks[m] \in Seq(FileRecords),
         NEW key
  PROVE  /\ NewEntries(blks, ExchangeSort(Counted(n), key)) \in Seq(Entries)
         /\ Len(NewEntries(blks, ExchangeSort(Counted(n), key))) = n
         /\ \A i \in 1 .. n : NewEntries(blks, ExchangeSort(Counted(n), key))[i].lblk \in 1 .. n
<1>1. PICK s : s = Counted(n)
  OBVIOUS
<1>x. PICK lblks : lblks = ExchangeSort(s, key)
  OBVIOUS
<1>y. PICK ents : ents = NewEntries(blks, lblks)
  OBVIOUS
<1>2. s \in Seq(1 .. n) /\ Len(s) = n /\ Injective(s) /\ ToSet(s) = 1 .. n
  <2>1. s \in [1 .. n -> 1 .. n] /\ DOMAIN s = 1 .. n /\ \A i \in 1 .. n : s[i] = i
    BY <1>1 DEF Counted
  <2>2. s \in Seq(1 .. n) /\ Len(s) = n
    BY <2>1, FunctionIsSeq
  <2> QED BY <2>1, <2>2 DEF Injective, ToSet
<1>3. lblks \in Arrangements(s)
  BY <1>x, <1>2, SortKeeps
<1>4. lblks \in Seq(1 .. n) /\ Len(lblks) = n
  BY <1>2, <1>3 DEF Arrangements
<1>5. DOMAIN lblks = 1 .. n /\ \A i \in 1 .. n : lblks[i] \in 1 .. n
  BY <1>4, LenProperties
<1>6. ASSUME NEW i \in 1 .. n PROVE ents[i] \in Entries
  <2>1. PICK h : h = IF i = 1 THEN 0 ELSE MaxHash(blks[lblks[i - 1] + 1]) + 1
    OBVIOUS
  <2>2. ents[i] = DxEntry(h, lblks[i])
    BY <1>5, <1>y, <2>1 DEF NewEntries
  <2>3. lblks[i] \in Nat \ {0}
    BY <1>5
  <2>4. h \in Nat
    <3>1. CASE i = 1
      BY <2>1, <3>1
    <3>2. CASE i # 1
      <4>1. i - 1 \in 1 .. n
        BY <3>2
      <4>2. lblks[i - 1] \in 1 .. n
        BY <1>5, <4>1
      <4>3. lblks[i - 1] + 1 \in 2 .. n + 1
        BY <4>2
      <4>4. MaxHash(blks[lblks[i - 1] + 1]) \in Nat
        BY <4>3, MaxHashOK
      <4> QED BY <2>1, <3>2, <4>4
    <3> QED BY <3>1, <3>2
  <2> QED BY <2>2, <2>3, <2>4 DEF DxEntry, Entries
<1>7. DOMAIN ents = 1 .. n /\ ents = [i \in 1 .. n |-> ents[i]]
  BY <1>5, <1>y DEF NewEntries
<1>8. ents \in [1 .. n -> Entries]
  BY <1>6, <1>7
<1>9. ents \in Seq(Entries) /\ Len(ents) = n
  BY <1>8, FunctionIsSeq
<1>10. \A i \in 1 .. n : ents[i].lblk \in 1 .. n
  <2> TAKE i \in 1 .. n
  <2>1. PICK h : h = IF i = 1 THEN 0 ELSE MaxHash(blks[lblks[i - 1] + 1]) + 1
    OBVIOUS
  <2>2. ents[i] = DxEntry(h, lblks[i])
    BY <1>5, <1>y, <2>1 DEF NewEntries
  <2> QED BY <1>5, <2>2 DEF DxEntry
<1> QED BY <1>1, <1>9, <1>10, <1>x, <1>y

\* Before an index there was none: an upgrade keeps the names, or the blocks.
Upgraded(x, r) ==
  /\ Outcome(x, {}, r)
  /\ r.ok => r.d.indexed /\ (Len(x.blks) = 1 => HashOK(r.d))
  /\ ~r.ok => r.d.blks = x.blks /\ ~r.d.indexed

LEMMA UpgradeOK ==
  ASSUME NEW x, DirOK(x), ~x.indexed
  PROVE  Upgraded(x, Upgrade(x))
<1>0. /\ x \in Directories /\ x.blks \in BlockSeqs /\ Len(x.blks) \in Nat /\ Len(x.blks) >= 1
      /\ x.free \in 0 .. DiskBlocks /\ x.node \in Indices /\ x.level = 0
  <2>1. x \in Directories /\ x.level = 0
    BY DEF DirOK, IndexOK
  <2> QED BY <2>1, DirFacts
<1>1. PICK n \in Nat \ {0} : n = Len(x.blks)
  BY <1>0
<1>2. PICK r : r = Upgrade(x)
  OBVIOUS
<1>3. CASE ~CanMap(x)
  <2>1. r = No(x)
    BY <1>2, <1>3 DEF Upgrade
  <2> QED BY <1>2, <2>1, NoOutcome DEF Upgraded
<1>4. CASE CanMap(x)
  <2>1. PICK leaf : leaf = Moved(x.blks[1])
    OBVIOUS
  <2>2. x.blks[1] \in Seq(Records) /\ Distinct(x.blks[1])
    <3>1. 1 \in 1 .. Len(x.blks)
      BY <1>0
    <3> QED BY <1>0, <3>1, BlockFacts
  <2>3. leaf \in Leaves
    BY <2>1, <2>2, MovedProperties
  <2>4. leaf.ok => NamesIn(leaf.recs) = NamesIn(x.blks[1]) \ Dots
    BY <2>1, <2>2, MovedProperties
  <2>5. leaf.ok => SoundLeaf(leaf)
    BY <2>1, <2>2, MovedProperties
  <2>6. r = UpgradeWith(x, leaf)
    BY <1>2, <1>4, <2>1 DEF Upgrade
  <2>7. leaf.recs \in Seq(FileRecords) /\ leaf.torn \in BOOLEAN /\ leaf.ok \in BOOLEAN
    BY <2>3 DEF Leaves
  <2>8. PICK y : y = MapBlock(x, leaf.recs)
    OBVIOUS
  <2>9. PICK a : a = Append(x.blks, leaf.recs)
    OBVIOUS
  <2>10. PICK f \in 0 .. DiskBlocks : f = x.free - Cost(x)
    <3>1. Cost(x) \in {1, 2} /\ x.free >= Cost(x) /\ DiskBlocks \in Nat
      BY <1>4, DirectoryAssumption DEF Cost, CanMap
    <3> QED BY <1>0, <3>1
  <2>11. PICK i \in BOOLEAN : i = (x.ind \/ NextLblk(x) >= NDirect)
    OBVIOUS
  <2>12. y = [x EXCEPT !.blks = a, !.free = f, !.ind = i]
    BY <2>8, <2>9, <2>10, <2>11 DEF MapBlock
  <2>13. y.blks = a /\ y.ind = i
    BY <1>0, <2>12 DEF Directories
  <2>14. x.blks \in Seq(Seq(Records)) /\ leaf.recs \in Seq(Records)
    BY <1>0, <2>7, BlockFacts, RecordFacts
  <2>15. Len(a) = n + 1
    BY <1>1, <2>9, <2>14, AppendProperties
  <2>16. \A m \in 2 .. n + 1 : a[m] \in Seq(FileRecords)
    <3> TAKE m \in 2 .. n + 1
    <3>1. CASE m = n + 1
      <4>1. a[Len(x.blks) + 1] = leaf.recs
        BY <2>9, <2>14, AppendProperties
      <4> QED BY <1>1, <2>7, <3>1, <4>1
    <3>2. CASE m # n + 1
      <4>1. m \in 1 .. Len(x.blks) /\ m \in 2 .. Len(x.blks)
        BY <1>1, <3>2
      <4>2. a[m] = x.blks[m]
        BY <2>9, <2>14, <4>1, AppendProperties
      <4> QED BY <1>0, <4>1, <4>2, BlockFacts
    <3> QED BY <3>1, <3>2
  <2>17. PICK lblks : lblks = ExchangeSort([k \in 1 .. Len(y.blks) - 1 |-> k],
                               [l \in 1 .. Len(y.blks) - 1 |-> MaxHash(y.blks[l + 1])])
    OBVIOUS
  <2>18. PICK ents : ents = [k \in DOMAIN lblks |->
              DxEntry(IF k = 1 THEN 0 ELSE MaxHash(y.blks[lblks[k - 1] + 1]) + 1, lblks[k])]
    OBVIOUS
  <2>19. ents \in Seq(Entries) /\ Len(ents) = n /\ \A m \in 1 .. n : ents[m].lblk \in 1 .. n
    <3>1. Len(y.blks) - 1 = n
      BY <2>13, <2>15
    <3>2. PICK key : key = [l \in 1 .. Len(y.blks) - 1 |-> MaxHash(y.blks[l + 1])]
      OBVIOUS
    <3>3. lblks = ExchangeSort(Counted(n), key)
      BY <2>17, <3>1, <3>2 DEF Counted
    <3>4. ents = NewEntries(a, lblks)
      BY <2>13, <2>18 DEF NewEntries
    <3>5. NewEntries(a, ExchangeSort(Counted(n), key)) \in Seq(Entries)
      BY <2>16, UpgradeEntries
    <3>6. Len(NewEntries(a, ExchangeSort(Counted(n), key))) = n
      BY <2>16, UpgradeEntries
    <3>7. \A m \in 1 .. n : NewEntries(a, ExchangeSort(Counted(n), key))[m].lblk \in 1 .. n
      BY <2>16, UpgradeEntries
    <3> QED BY <3>3, <3>4, <3>5, <3>6, <3>7
  <2>20. CASE ~leaf.ok \/ Len(ents) > RootMax
    <3>1. PICK z : z = [x EXCEPT !.ind = y.ind, !.free = @ - (Cost(x) - 1)]
      OBVIOUS
    <3>2. r = No(z)
      BY <2>6, <2>8, <2>17, <2>18, <2>20, <3>1 DEF UpgradeWith
    <3>3. PICK g \in 0 .. DiskBlocks : g = x.free - (Cost(x) - 1)
      <4>1. Cost(x) \in {1, 2} /\ x.free >= Cost(x) /\ DiskBlocks \in Nat
        BY <1>4, DirectoryAssumption DEF Cost, CanMap
      <4> QED BY <1>0, <4>1
    <3>4. z = [x EXCEPT !.ind = i, !.free = g]
      BY <2>13, <3>1, <3>3
    <3>5. z \in Directories /\ z.blks = x.blks /\ z.disk = x.disk /\ SameIndex(x, z)
      BY <1>0, <3>4 DEF Directories, SameIndex
    <3>6. IndexOK(z)
      BY <3>5, SameIndexOK DEF DirOK
    <3>7. DirOK(z) /\ Listing(z) = Listing(x)
      BY <3>5, <3>6, IndexChange
    <3>8. Outcome(z, {}, r) /\ ~r.ok /\ r.d = z
      BY <3>2, <3>7, NoOutcome
    <3>9. Outcome(x, {}, r)
      BY <3>5, <3>8 DEF Outcome
    <3>10. ~z.indexed
      BY <3>5 DEF SameIndex
    <3> QED BY <1>2, <3>5, <3>8, <3>9, <3>10 DEF Upgraded
  <2>21. CASE leaf.ok /\ ~(Len(ents) > RootMax)
    <3>1. PICK b : b = Put(a, 1, RootBlock)
      OBVIOUS
    <3>2. Distinct(leaf.recs) /\ NamesIn(leaf.recs) = NamesIn(x.blks[1]) \ Dots
          /\ (~leaf.torn => Tiles(leaf.recs))
      BY <2>4, <2>5, <2>21 DEF SoundLeaf
    <3>3. b \in BlockSeqs /\ Len(b) = n + 1
      BY <1>0, <1>1, <2>7, <2>9, <3>1, <3>2, UpgradeBlocks
    <3>4. AllNames(b) \ Dots = AllNames(x.blks) \ Dots
      BY <1>0, <2>7, <2>9, <3>1, <3>2, UpgradeBlocks
    <3>5. AllTile(x.blks) /\ Tiles(leaf.recs) => AllTile(b)
      BY <1>0, <2>7, <2>9, <3>1, <3>2, UpgradeBlocks
    <3>6. PICK j \in Indices : j = [limit |-> RootMax, ents |-> ents]
      BY <2>19, DirectoryAssumption DEF Indices
    <3>7. PICK v : v = [y EXCEPT !.indexed = TRUE, !.blks[1] = RootBlock, !.root = j]
      OBVIOUS
    <3>8. PICK k \in Nat : k = n + 1
      OBVIOUS
    <3>9. v = [x EXCEPT !.blks = b, !.free = f, !.ind = i, !.indexed = TRUE, !.root = j]
      <4>1. v = [y EXCEPT !.indexed = TRUE, !.blks = Put(y.blks, 1, RootBlock), !.root = j]
        BY <3>7 DEF Put
      <4>2. v = [y EXCEPT !.indexed = TRUE, !.blks = b, !.root = j]
        BY <2>13, <3>1, <4>1
      <4> QED BY <1>0, <2>12, <4>2 DEF Directories
    <3>10. /\ v \in Directories /\ v.blks = b /\ v.disk = x.disk /\ v.root = j
           /\ v.node = x.node /\ v.level = x.level /\ v.indexed = TRUE
      BY <1>0, <3>3, <3>9 DEF Directories
    <3>11. IndexOK(v)
      <4>1. j.limit = RootMax /\ j.ents = ents
        BY <3>6
      <4>2. Target(v) = j
        BY <1>0, <3>10 DEF Target
      <4>3. Len(x.node.ents) <= x.node.limit
        BY DEF DirOK, IndexOK
      <4>4. Len(ents) <= RootMax /\ Len(ents) >= 1
        BY <2>19, <2>21, DirectoryAssumption
      <4> QED BY <3>10, <4>1, <4>2, <4>3, <4>4 DEF IndexOK
    <3>12. DirOK(v)
      <4>1. x.disk \in 1 .. Len(b)
        BY <1>1, <3>3, DirFacts
      <4>2. Len(b) <= NDirect + PerIndirect
        BY <1>1, <1>4, <3>3, DirectoryAssumption DEF CanMap, NextLblk
      <4> QED BY <3>10, <3>11, <4>1, <4>2 DEF DirOK
    <3>13. PICK z : z = WriteInode(v)
      OBVIOUS
    <3>14. DirOK(z) /\ Listing(z) = Listing(v) /\ z.blks = b /\ SameIndex(v, z)
      BY <3>10, <3>12, <3>13, WriteInodeOK
    <3>15. z.indexed
      BY <3>10, <3>13 DEF WriteInode, Directories
    <3>16. Listing(v) = Listing(x)
      <4>1. Listing(v) = AllNames(v.blks) \ Dots
        BY <3>12, DirFacts
      <4>2. Listing(x) = AllNames(x.blks) \ Dots
        BY DirFacts
      <4> QED BY <3>4, <3>10, <4>1, <4>2
    <3>17. r = Result(TRUE, z, leaf.torn)
      BY <2>6, <2>8, <2>17, <2>18, <2>21, <3>6, <3>7, <3>13 DEF UpgradeWith, Result, RootBlock
    <3>18. r \in Results /\ r.ok /\ r.d = z /\ (r.torn <=> leaf.torn)
      <4>1. z \in Directories
        BY <3>14 DEF DirOK
      <4> QED BY <2>7, <3>17, <4>1, ResultIs
    <3>19. Listing(r.d) = Listing(x) \cup {}
      BY <3>14, <3>16, <3>18
    <3>20. AllTile(x.blks) /\ ~r.torn => AllTile(r.d.blks)
      BY <3>2, <3>5, <3>14, <3>18
    <3>21. ASSUME Len(x.blks) = 1 PROVE HashOK(r.d)
      <4>1. b[1] = RootBlock
        BY <1>0, <2>7, <2>9, <3>1, <3>2, UpgradeBlocks
      <4>2. NamesIn(b[1]) = Dots /\ n = 1
        BY <1>1, <3>21, <4>1, RootBlockProperties
      <4>3. Len(b) = 2 /\ Len(ents) = 1 /\ ents[1].lblk = 1
        BY <2>19, <3>3, <4>2
      <4>4. Ordered(b, ents)
        BY <2>19, <3>3, <4>2, <4>3, FirstIndex
      <4>5. r.d.blks = b /\ r.d.root.ents = ents
        BY <3>6, <3>10, <3>14, <3>18 DEF SameIndex
      <4> QED BY <4>4, <4>5 DEF HashOK
    <3> QED BY <1>2, <3>14, <3>15, <3>18, <3>19, <3>20, <3>21 DEF Outcome, Upgraded
  <2> QED BY <2>7, <2>20, <2>21
<1> QED BY <1>3, <1>4

-----------------------------------------------------------------------------
(* A name is added.                                                         *)

LEMMA SplitKeeps ==
  ASSUME NEW x, DirOK(x), x.indexed, NEW name \in Names, PickLeaf(x, Hash[name]) < Len(x.blks),
         NEW r, SplitEffect(x, PickLeaf(x, Hash[name]), name, r)
  PROVE  HashKept(x, r)
<1> SUFFICES ASSUME HashOK(x), r.ok \/ Listing(r.d) = Listing(x), r.d.level = 0
             PROVE  Ordered(r.d.blks, r.d.root.ents) \/ r.d = x
  BY DEF HashKept, HashOK
<1>1. PICK lblk : lblk = PickLeaf(x, Hash[name])
  OBVIOUS
<1>2. CASE \E left, right, k :
        /\ SplitOf(x.blks, lblk + 1, name, left, right, k) /\ x.level = 0
        /\ \/ r.d.blks = Put(x.blks, lblk + 1, left) /\ r.d.root = x.root
           \/ /\ r.d.blks = Append(Put(x.blks, lblk + 1, left), right)
              /\ r.d.root.ents = WithEntry(x.root.ents, lblk, DxEntry(Hash[k], Len(x.blks)))
  <2>1. PICK left, right, k :
        /\ SplitOf(x.blks, lblk + 1, name, left, right, k) /\ x.level = 0
        /\ \/ r.d.blks = Put(x.blks, lblk + 1, left) /\ r.d.root = x.root
           \/ /\ r.d.blks = Append(Put(x.blks, lblk + 1, left), right)
              /\ r.d.root.ents = WithEntry(x.root.ents, lblk, DxEntry(Hash[k], Len(x.blks)))
    BY <1>2
  <2>2. PICK ents : ents = x.root.ents
    OBVIOUS
  <2>3. ents \in Seq(Entries) /\ Ordered(x.blks, ents)
    BY <2>1, <2>2, PickedLeaf
  <2>4. PICK i \in 1 .. Len(ents) : LeadsTo(x, name, i)
    BY <2>1, <2>2, PickedLeaf
  <2>5. lblk = ents[i].lblk /\ MayHold(ents, lblk + 1, name)
    BY <1>1, <2>2, <2>4 DEF LeadsTo
  <2>6. x.blks \in BlockSeqs /\ Len(x.blks) \in Nat \ {0} /\ lblk \in Nat \ {0}
    BY <2>3, <2>5, DirFacts, EntryFacts
  <2>7. PICK l \in 1 .. Len(x.blks) : l = lblk + 1 /\ l # 1
    BY <1>1, <2>6
  <2>8. SplitOf(x.blks, l, name, left, right, k) /\ MayHold(ents, l, name)
    BY <2>1, <2>5, <2>7
  <2>9. left \in Seq(FileRecords) /\ NamesIn(left) \subseteq NamesIn(x.blks[l]) \cup {name}
        /\ right \in Seq(FileRecords) /\ k \in NamesIn(right)
    BY <2>8 DEF SplitOf
  <2>10. CASE r.d.blks = Put(x.blks, lblk + 1, left) /\ r.d.root = x.root
    <3>1. left \in Seq(SortOf(l))
      BY <2>7, <2>9, SortFacts
    <3>2. \A n \in NamesIn(left) : MayHold(ents, l, n)
      BY <2>3, <2>8, <2>9 DEF Ordered
    <3>3. Ordered(Put(x.blks, l, left), ents)
      BY <2>3, <2>6, <3>1, <3>2, OrderedPut
    <3> QED BY <2>2, <2>7, <2>10, <3>3
  <2>11. CASE /\ r.d.blks = Append(Put(x.blks, lblk + 1, left), right)
              /\ r.d.root.ents = WithEntry(x.root.ents, lblk, DxEntry(Hash[k], Len(x.blks)))
    <3>1. PICK e \in Entries : e = DxEntry(Hash[k], Len(x.blks))
      <4>1. k \in Names
        BY <2>9, NameFacts
      <4>2. Hash[k] \in Nat
        BY <4>1, DirectoryAssumption
      <4> QED BY <2>6, <4>2 DEF DxEntry, Entries
    <3>2. PICK new : new = WithEntry(ents, lblk, e)
      OBVIOUS
    <3>3. Follows(ents, i, e, new)
      BY <2>3, <2>5, <3>2, WithEntryIs DEF Ordered
    <3>4. Follows(ents, i, DxEntry(Hash[k], Len(x.blks)), new)
      BY <3>1, <3>3
    <3>5. l = ents[i].lblk + 1
      BY <2>5, <2>7
    <3>6. Ordered(Append(Put(x.blks, l, left), right), new)
      BY <2>3, <2>6, <2>8, <3>4, <3>5, OrderedSplit
    <3> QED BY <2>2, <2>7, <2>11, <3>1, <3>2, <3>6
  <2> QED BY <2>1, <2>10, <2>11
<1> QED BY <1>1, <1>2 DEF SplitEffect

LEMMA AddIndexedOK ==
  ASSUME NEW x, DirOK(x), x.indexed, NEW name \in Names, name \notin Listing(x)
  PROVE  Outcome(x, {name}, AddIndexed(x, name)) /\ HashKept(x, AddIndexed(x, name))
<1>0. x.blks \in BlockSeqs /\ Len(x.blks) \in Nat
  BY DirFacts
<1>1. PICK lblk \in Nat \ {0} : lblk = PickLeaf(x, Hash[name])
  <2>1. Hash[name] \in Nat
    BY DirectoryAssumption
  <2> QED BY <2>1, PickLeafOK
<1>2. PICK r : r = AddIndexed(x, name)
  OBVIOUS
<1>3. CASE lblk >= Len(x.blks)
  <2>1. r = No(x)
    BY <1>1, <1>2, <1>3 DEF AddIndexed
  <2> QED BY <1>2, <2>1, NoOutcome DEF HashKept
<1>4. CASE lblk < Len(x.blks)
  <2>1. PICK l \in 2 .. Len(x.blks) : l = lblk + 1
    BY <1>0, <1>4
  <2>2. l \in 1 .. Len(x.blks) /\ SortOf(l) = FileRecords
    <3>1. l \in 1 .. Len(x.blks) /\ l # 1
      BY <1>0
    <3> QED BY <3>1, SortFacts
  <2>3. PICK leaf \in Seq(FileRecords) : leaf = x.blks[l]
    BY <1>0, BlockFacts
  <2>4. Distinct(leaf) /\ NamesIn(leaf) \subseteq AllNames(x.blks) /\ name \notin AllNames(x.blks)
    BY <1>0, <2>2, <2>3, BlockFacts, Unlisted
  <2>5. PICK t : t = TryInsertLeaf(leaf, name)
    OBVIOUS
  <2>6. FileRecords \in BlockSorts
    BY DEF BlockSorts
  <2>7. ~(lblk >= Len(x.blks))
    BY <1>0, <1>4
  <2>8. CASE ~t.ok
    <3>1. r = SplitLeaf(x, lblk, name)
      BY <1>1, <1>2, <2>1, <2>3, <2>5, <2>7, <2>8 DEF AddIndexed
    <3>2. Outcome(x, {name}, r) /\ SplitEffect(x, lblk, name, r)
      BY <1>4, <3>1, SplitLeafOK
    <3>3. HashKept(x, r)
      BY <1>1, <1>4, <3>2, SplitKeeps
    <3> QED BY <1>2, <3>2, <3>3
  <2>9. CASE t.ok
    <3>1. t \in [ok : BOOLEAN, recs : Seq(FileRecords), torn : BOOLEAN]
      BY <2>5, <2>6, TryInsertType
    <3>2. NamesIn(t.recs) = NamesIn(leaf) \cup {name}
      BY <2>5, <2>6, <2>9, TryInsertType
    <3>3. Distinct(t.recs)
      BY <2>4, <2>5, <2>6, TryInsertType
    <3>4. Tiles(leaf) /\ ~t.torn => Tiles(t.recs)
      BY <2>5, <2>6, TryInsertType
    <3>5. PICK y : y = WithBlock(x, l, t.recs)
      OBVIOUS
    <3>6. t.recs \in Seq(SortOf(l)) /\ t.torn \in BOOLEAN
      BY <2>2, <3>1
    <3>7. NamesIn(t.recs) \cap (AllNames(x.blks) \ NamesIn(x.blks[l])) = {}
      BY <2>3, <2>4, <3>2
    <3>8. DirOK(y)
      BY <2>2, <3>3, <3>5, <3>6, <3>7, WithBlockOK
    <3>9. Listing(y) = ((AllNames(x.blks) \ NamesIn(x.blks[l])) \cup NamesIn(t.recs)) \ Dots
      <4>1. Listing(WithBlock(x, l, t.recs)) =
              ((AllNames(x.blks) \ NamesIn(x.blks[l])) \cup NamesIn(t.recs)) \ Dots
        BY <2>2, <3>3, <3>6, <3>7, WithBlockOK
      <4> QED BY <3>5, <4>1
    <3>10. AllTile(x.blks) /\ Tiles(t.recs) => AllTile(y.blks)
      BY <2>2, <3>3, <3>5, <3>6, <3>7, WithBlockOK
    <3>11. y = [x EXCEPT !.blks[lblk + 1] = t.recs]
      BY <2>1, <3>5 DEF WithBlock, Put
    <3>12. r = Result(TRUE, y, t.torn)
      BY <1>1, <1>2, <2>1, <2>3, <2>5, <2>7, <2>9, <3>11 DEF AddIndexed, Result
    <3>13. r \in Results /\ r.ok /\ r.d = y /\ (r.torn <=> t.torn)
      <4>1. y \in Directories
        BY <3>8 DEF DirOK
      <4> QED BY <3>6, <3>12, <4>1, ResultIs
    <3>14. Listing(y) = Listing(x) \cup {name}
      <4>1. Listing(x) = AllNames(x.blks) \ Dots /\ name \notin Dots
        BY DirFacts, DirectoryAssumption
      <4> QED BY <2>3, <2>4, <3>2, <3>9, <4>1
    <3>15. AllTile(x.blks) /\ ~r.torn => AllTile(r.d.blks)
      <4>1. AllTile(x.blks) => Tiles(leaf)
        BY <2>2, <2>3 DEF AllTile
      <4> QED BY <3>4, <3>10, <3>13, <4>1
    <3>16. HashKept(x, r)
      <4>1. SUFFICES ASSUME HashOK(x), r.d.level = 0 PROVE Ordered(r.d.blks, r.d.root.ents)
        BY DEF HashKept, HashOK
      <4>2. SameIndex(x, y) /\ y.blks = Put(x.blks, l, t.recs)
        BY <2>2, <3>3, <3>5, <3>6, <3>7, WithBlockOK
      <4>3. x.level = 0 /\ r.d.root = x.root
        BY <3>13, <4>1, <4>2 DEF SameIndex
      <4>4. PICK ents : ents = x.root.ents
        OBVIOUS
      <4>5. Ordered(x.blks, ents)
        BY <4>1, <4>3, <4>4, PickedLeaf
      <4>6. PICK i \in 1 .. Len(ents) : LeadsTo(x, name, i)
        BY <4>1, <4>3, <4>4, PickedLeaf
      <4>7. MayHold(ents, l, name)
        BY <1>1, <2>1, <4>4, <4>6 DEF LeadsTo
      <4>8. \A n \in NamesIn(t.recs) : MayHold(ents, l, n)
        BY <2>2, <2>3, <3>2, <4>5, <4>7 DEF Ordered
      <4>9. Ordered(Put(x.blks, l, t.recs), ents)
        BY <1>0, <2>2, <3>6, <4>5, <4>8, OrderedPut
      <4> QED BY <3>13, <4>2, <4>3, <4>4, <4>9
    <3>17. Outcome(x, {name}, r)
      BY <3>8, <3>13, <3>14, <3>15 DEF Outcome
    <3> QED BY <1>2, <3>16, <3>17
  <2> QED BY <2>8, <2>9
<1> QED BY <1>0, <1>3, <1>4

LEMMA AddUpgradedOK ==
  ASSUME NEW x, DirOK(x), ~x.indexed, NEW up, Upgraded(x, up),
         NEW name \in Names, name \notin Listing(x)
  PROVE  Outcome(x, {name}, AddUpgraded(up, name)) /\ HashKept(x, AddUpgraded(up, name))
<1>1. /\ up \in Results /\ DirOK(up.d) /\ (up.ok => Listing(up.d) = Listing(x))
      /\ (AllTile(x.blks) /\ ~up.torn => AllTile(up.d.blks))
      /\ (up.ok => up.d.indexed /\ (Len(x.blks) = 1 => HashOK(up.d)))
      /\ (~up.ok => up.d.blks = x.blks /\ ~up.d.indexed)
  BY DEF Upgraded, Outcome
<1>2. PICK r : r = AddUpgraded(up, name)
  OBVIOUS
<1>3. CASE up.ok
  <2>1. PICK q : q = AddIndexed(up.d, name)
    OBVIOUS
  <2>2. Outcome(up.d, {name}, q) /\ HashKept(up.d, q)
    BY <1>1, <1>3, <2>1, AddIndexedOK
  <2>3. q \in Results /\ DirOK(q.d) /\ (q.ok => Listing(q.d) = Listing(up.d) \cup {name})
        /\ (AllTile(up.d.blks) /\ ~q.torn => AllTile(q.d.blks))
    BY <2>2 DEF Outcome
  <2>4. PICK t \in BOOLEAN : t = (q.torn \/ up.torn)
    OBVIOUS
  <2>5. r = WithTorn(q, t)
    BY <1>2, <1>3, <2>1, <2>4 DEF AddUpgraded, WithTorn
  <2>6. r \in Results /\ (r.ok <=> q.ok) /\ r.d = q.d /\ (r.torn <=> t)
    BY <2>3, <2>5, WithTornIs
  <2>7. r.ok => Listing(r.d) = Listing(x) \cup {name}
    BY <1>1, <1>3, <2>3, <2>6
  <2>8. AllTile(x.blks) /\ ~r.torn => AllTile(r.d.blks)
    BY <1>1, <2>3, <2>4, <2>6
  <2>9. HashKept(x, r)
    BY <1>1, <1>3, <2>2, <2>6 DEF HashKept
  <2>10. Outcome(x, {name}, r)
    BY <2>3, <2>6, <2>7, <2>8 DEF Outcome
  <2> QED BY <1>2, <2>9, <2>10
<1>4. CASE ~up.ok /\ CanMap(up.d)
  <2>1. PICK recs : recs = LinearPut(Empty, 1, name)
    OBVIOUS
  <2>2. /\ Empty \in Seq(FileRecords) /\ Distinct(Empty) /\ Tiles(Empty) /\ NamesIn(Empty) = {}
        /\ FileRecords \in BlockSorts /\ 1 \in 1 .. Len(Empty)
    BY NewLeafProperties DEF BlockSorts
  <2>3. Empty[1].len >= UsedLen(Empty[1]) + Size[name]
    <3>1. Empty[1].len = BlockLen /\ Empty[1].name = Hole
      BY NewLeafProperties DEF Rec
    <3>2. UsedLen(Empty[1]) = 0
      BY <3>1 DEF UsedLen
    <3>3. Size[name] \in 1 .. BlockLen /\ BlockLen \in Nat
      BY RecordFacts
    <3> QED BY <3>1, <3>2, <3>3
  <2>4. recs \in Seq(FileRecords) /\ Distinct(recs)
    BY <2>1, <2>2, <2>3, LinearPutProperties
  <2>5. NamesIn(recs) = NamesIn(Empty) \cup {name}
    BY <2>1, <2>2, <2>3, LinearPutProperties
  <2>6. Tiles(recs)
    BY <2>1, <2>2, <2>3, LinearPutProperties
  <2>7. NamesIn(recs) \cap AllNames(up.d.blks) = {}
    BY <1>1, <1>4, <2>2, <2>5, Unlisted
  <2>8. PICK y : y = MapBlock(up.d, recs)
    OBVIOUS
  <2>9. DirOK(y) /\ SameIndex(up.d, y)
    BY <1>1, <1>4, <2>4, <2>7, <2>8, MapBlockOK
  <2>10. Listing(y) = Listing(up.d) \cup NamesIn(recs)
    BY <1>1, <1>4, <2>4, <2>7, <2>8, MapBlockOK
  <2>11. AllTile(up.d.blks) /\ Tiles(recs) => AllTile(y.blks)
    BY <1>1, <1>4, <2>4, <2>7, <2>8, MapBlockOK
  <2>12. PICK z : z = WriteInode(y)
    OBVIOUS
  <2>13. DirOK(z) /\ Listing(z) = Listing(y) /\ z.blks = y.blks /\ SameIndex(y, z)
    BY <2>9, <2>12, WriteInodeOK
  <2>14. r = Result(TRUE, z, FALSE)
    BY <1>2, <1>4, <2>1, <2>8, <2>12 DEF AddUpgraded, Result
  <2>15. r \in Results /\ r.ok /\ r.d = z /\ ~r.torn
    <3>1. z \in Directories
      BY <2>13 DEF DirOK
    <3> QED BY <2>14, <3>1, ResultIs
  <2>16. Listing(r.d) = Listing(x) \cup {name}
    <3>1. Listing(up.d) = Listing(x)
      BY <1>1, <1>4 DEF Listing
    <3> QED BY <2>2, <2>5, <2>10, <2>13, <2>15, <3>1
  <2>17. AllTile(x.blks) => AllTile(r.d.blks)
    BY <1>1, <1>4, <2>6, <2>11, <2>13, <2>15
  <2>18. HashKept(x, r)
    <3>1. ~r.d.indexed
      BY <1>1, <1>4, <2>9, <2>13, <2>15 DEF SameIndex
    <3> QED BY <3>1 DEF HashKept, HashOK
  <2>19. Outcome(x, {name}, r)
    BY <2>13, <2>15, <2>16, <2>17 DEF Outcome
  <2> QED BY <1>2, <2>18, <2>19
<1>5. CASE ~up.ok /\ ~CanMap(up.d)
  <2>1. r = No(up.d)
    BY <1>2, <1>5 DEF AddUpgraded
  <2>2. Outcome(up.d, {}, r) /\ ~r.ok /\ r.d = up.d
    BY <1>1, <2>1, NoOutcome
  <2>3. Outcome(x, {name}, r)
    BY <1>1, <1>5, <2>2 DEF Outcome
  <2>4. HashKept(x, r)
    BY <1>1, <1>5, <2>2 DEF HashKept, HashOK
  <2> QED BY <1>2, <2>3, <2>4
<1> QED BY <1>3, <1>4, <1>5

\* The first of a set of positions is one of them, or none is there.
LEMMA FirstPosition ==
  ASSUME NEW S, NEW s \in Seq(S), NEW Q \in SUBSET DOMAIN s
  PROVE  (Q = {} /\ First(Q) = 0) \/ (First(Q) \in Q /\ First(Q) \in 1 .. Len(s))
<1>1. DOMAIN s = 1 .. Len(s)
  BY LenProperties
<1>2. Q \in SUBSET (Nat \ {0})
  BY <1>1
<1> QED BY <1>1, <1>2, FirstIn

LEMMA LinearFitOK ==
  ASSUME NEW recs \in Seq(Records), NEW name \in Names, LinearFit(recs, name) # 0
  PROVE  /\ LinearFit(recs, name) \in 1 .. Len(recs)
         /\ recs[LinearFit(recs, name)].len >=
              UsedLen(recs[LinearFit(recs, name)]) + Size[name]
<1> DEFINE Q == {i \in DOMAIN recs : recs[i].len >= UsedLen(recs[i]) + Size[name]}
<1>1. Q \in SUBSET DOMAIN recs
  OBVIOUS
<1>2. LinearFit(recs, name) = First(Q)
  BY DEF LinearFit
<1>3. First(Q) \in Q /\ First(Q) \in 1 .. Len(recs)
  <2> HIDE DEF Q
  <2> QED BY <1>1, <1>2, FirstPosition
<1> QED BY <1>2, <1>3

LEMMA AddLinearOK ==
  ASSUME NEW x, DirOK(x), ~x.indexed, NEW name \in Names, name \notin Listing(x)
  PROVE  Outcome(x, {name}, AddLinear(x, name)) /\ HashKept(x, AddLinear(x, name))
<1> DEFINE Q == {i \in DOMAIN x.blks : LinearFit(x.blks[i], name) # 0}
<1>0. x.blks \in BlockSeqs /\ Len(x.blks) \in Nat /\ x.blks \in Seq(Seq(Records))
  BY DirFacts, BlockFacts
<1>1. PICK b : b = First(Q)
  OBVIOUS
<1>2. PICK r : r = AddLinear(x, name)
  OBVIOUS
<1>3. CASE b = 0
  <2>1. r = AddUpgraded(Upgrade(x), name)
    BY <1>1, <1>2, <1>3 DEF AddLinear
  <2>2. Upgraded(x, Upgrade(x))
    BY UpgradeOK
  <2> QED BY <1>2, <2>1, <2>2, AddUpgradedOK
<1>4. CASE b # 0
  <2>1. b \in Q /\ b \in 1 .. Len(x.blks)
    <3>1. Q \in SUBSET DOMAIN x.blks
      OBVIOUS
    <3> HIDE DEF Q
    <3> QED BY <1>0, <1>1, <1>4, <3>1, FirstPosition
  <2>2. PICK leaf : leaf = x.blks[b]
    OBVIOUS
  <2>3. /\ leaf \in Seq(SortOf(b)) /\ leaf \in Seq(Records) /\ Distinct(leaf)
        /\ NamesIn(leaf) \subseteq AllNames(x.blks) /\ name \notin AllNames(x.blks)
    BY <1>0, <2>1, <2>2, BlockFacts, Unlisted
  <2>4. PICK i : i = LinearFit(leaf, name)
    OBVIOUS
  <2>5. i \in 1 .. Len(leaf) /\ leaf[i].len >= UsedLen(leaf[i]) + Size[name]
    BY <2>1, <2>2, <2>3, <2>4, LinearFitOK
  <2>6. SortOf(b) \in BlockSorts /\ name \notin NamesIn(leaf)
    BY <2>3, SortFacts
  <2>7. PICK recs : recs = LinearPut(leaf, i, name)
    OBVIOUS
  <2>8. recs \in Seq(SortOf(b)) /\ Distinct(recs)
    BY <2>3, <2>5, <2>6, <2>7, LinearPutProperties
  <2>9. NamesIn(recs) = NamesIn(leaf) \cup {name}
    BY <2>3, <2>5, <2>6, <2>7, LinearPutProperties
  <2>10. Tiles(leaf) => Tiles(recs)
    BY <2>3, <2>5, <2>6, <2>7, LinearPutProperties
  <2>11. PICK y : y = WithBlock(x, b, recs)
    OBVIOUS
  <2>12. NamesIn(recs) \cap (AllNames(x.blks) \ NamesIn(x.blks[b])) = {}
    BY <2>2, <2>3, <2>9
  <2>13. DirOK(y) /\ SameIndex(x, y)
    BY <2>1, <2>8, <2>11, <2>12, WithBlockOK
  <2>14. Listing(y) = ((AllNames(x.blks) \ NamesIn(x.blks[b])) \cup NamesIn(recs)) \ Dots
    <3>1. Listing(WithBlock(x, b, recs)) =
            ((AllNames(x.blks) \ NamesIn(x.blks[b])) \cup NamesIn(recs)) \ Dots
      BY <2>1, <2>8, <2>12, WithBlockOK
    <3> QED BY <2>11, <3>1
  <2>15. AllTile(x.blks) /\ Tiles(recs) => AllTile(y.blks)
    BY <2>1, <2>8, <2>11, <2>12, WithBlockOK
  <2>16. y = [x EXCEPT !.blks[b] = LinearPut(@, LinearFit(@, name), name)]
    BY <2>2, <2>4, <2>7, <2>11 DEF WithBlock, Put
  <2>17. r = Result(TRUE, y, FALSE)
    BY <1>1, <1>2, <1>4, <2>16 DEF AddLinear, Result
  <2>18. r \in Results /\ r.ok /\ r.d = y /\ ~r.torn
    <3>1. y \in Directories
      BY <2>13 DEF DirOK
    <3> QED BY <2>17, <3>1, ResultIs
  <2>19. Listing(y) = Listing(x) \cup {name}
    <3>1. Listing(x) = AllNames(x.blks) \ Dots /\ name \notin Dots
      BY DirFacts, DirectoryAssumption
    <3> QED BY <2>2, <2>3, <2>9, <2>14, <3>1
  <2>20. AllTile(x.blks) => AllTile(r.d.blks)
    <3>1. AllTile(x.blks) => Tiles(leaf)
      BY <2>1, <2>2 DEF AllTile
    <3> QED BY <2>10, <2>15, <2>18, <3>1
  <2>21. HashKept(x, r)
    <3>1. ~r.d.indexed
      BY <2>13, <2>18 DEF SameIndex
    <3> QED BY <3>1 DEF HashKept, HashOK
  <2>22. Outcome(x, {name}, r)
    BY <2>13, <2>18, <2>19, <2>20 DEF Outcome
  <2> QED BY <1>2, <2>21, <2>22
<1> QED BY <1>3, <1>4

\* An addition that succeeds lists one more name; whether it does or not, the
\* directory stays one, and its records tile their blocks unless one was torn.
LEMMA AddEntryOK ==
  ASSUME NEW x, DirOK(x), NEW name \in Names, name \notin Listing(x)
  PROVE  Outcome(x, {name}, AddEntry(x, name)) /\ HashKept(x, AddEntry(x, name))
<1>1. CASE x.indexed
  <2>1. AddEntry(x, name) = AddIndexed(x, name)
    BY <1>1 DEF AddEntry
  <2> QED BY <1>1, <2>1, AddIndexedOK
<1>2. CASE ~x.indexed
  <2>1. AddEntry(x, name) = AddLinear(x, name)
    BY <1>2 DEF AddEntry
  <2> QED BY <1>2, <2>1, AddLinearOK
<1> QED BY <1>1, <1>2

-----------------------------------------------------------------------------
(* The invariant.                                                           *)

\* The blocks and the index are in order, the records tile the blocks unless one
\* was torn, and what is listed are the names added, unless an addition failed
\* half way.  An index of one level leads to every name, unless an addition failed
\* half way or the index was built over several blocks.
DirInv ==
  /\ DirOK(d) /\ names \subseteq Names /\ broken \in BOOLEAN /\ torn \in BOOLEAN
  /\ ~torn => AllTile(d.blks)
  /\ ~broken => Listing(d) = names
  /\ ~broken /\ ~mixed => HashOK(d)

LEMMA NewDirBlockProperties ==
  /\ NewDirBlock \in Seq(Records) /\ Distinct(NewDirBlock) /\ Tiles(NewDirBlock)
  /\ NamesIn(NewDirBlock) = Dots
<1>0. /\ Size[Dot] \in 1 .. BlockLen - 1 /\ Size[DotDot] \in 1 .. BlockLen - 1
      /\ BlockLen - Size[Dot] - Size[DotDot] \in 1 .. BlockLen - 1
      /\ BlockLen \in Nat /\ Dot # DotDot /\ Dot # Hole /\ DotDot # Hole
  BY DotFacts
<1>1. PICK r \in Records : r = Rec(Size[Dot], Dot) /\ r.len = Size[Dot] /\ r.name = Dot
  <2>1. Size[Dot] \in 1 .. BlockLen
    BY <1>0
  <2> QED BY <2>1, DotFacts
<1>2. PICK q \in Records : q = Rec(Size[DotDot], DotDot)
                           /\ q.len = Size[DotDot] /\ q.name = DotDot
  <2>1. Size[DotDot] \in 1 .. BlockLen
    BY <1>0
  <2> QED BY <2>1, DotFacts
<1>3. PICK p \in Records : p = Rec(BlockLen - Size[Dot] - Size[DotDot], Hole)
                           /\ p.len = BlockLen - Size[Dot] - Size[DotDot] /\ p.name = Hole
  <2>1. BlockLen - Size[Dot] - Size[DotDot] \in 1 .. BlockLen
    BY <1>0
  <2> QED BY <2>1, DotFacts
<1>4. PICK u : u = NewDirBlock
  OBVIOUS
<1>5. /\ u \in Seq(Records) /\ Len(u) = 3 /\ DOMAIN u = 1 .. 3
      /\ u[1] = r /\ u[2] = q /\ u[3] = p
  BY <1>1, <1>2, <1>3, <1>4 DEF NewDirBlock
<1>6. \A k \in 1 .. 3 : k = 1 \/ k = 2 \/ k = 3
  OBVIOUS
<1>7. Distinct(u)
  BY <1>0, <1>1, <1>2, <1>3, <1>5, <1>6 DEF Distinct
<1>8. NamesIn(u) = Dots
  <2>1. \A n : n \in NamesIn(u) <=> n # Hole /\ \E i \in 1 .. 3 : u[i].name = n
    BY <1>5, NameFacts
  <2>2. \A n : n \in NamesIn(u) <=> n = Dot \/ n = DotDot
    BY <1>0, <1>1, <1>2, <1>3, <1>5, <1>6, <2>1
  <2> QED BY <2>2 DEF Dots
<1>9. Tiles(u)
  <2> DEFINE f == [k \in 0 .. 3 |-> IF k = 0 THEN 0 ELSE IF k = 1 THEN Size[Dot]
                     ELSE IF k = 2 THEN Size[Dot] + Size[DotDot] ELSE BlockLen]
  <2>1. f[0] = 0 /\ f[1] = Size[Dot] /\ f[2] = Size[Dot] + Size[DotDot] /\ f[3] = BlockLen
    OBVIOUS
  <2> HIDE DEF f
  <2>2. \A k \in 0 .. 3 : k = 0 \/ k = 1 \/ k = 2 \/ k = 3
    OBVIOUS
  <2>3. f[1] = f[1 - 1] + u[1].len /\ f[2] = f[2 - 1] + u[2].len /\ f[3] = f[3 - 1] + u[3].len
    BY <1>0, <1>1, <1>2, <1>3, <1>5, <2>1
  <2>4. \A k \in 0 .. 3 : f[k] \in Nat
    BY <1>0, <2>1, <2>2
  <2>5. Places(u, f) /\ f[Len(u)] = BlockLen
    BY <1>5, <1>6, <2>1, <2>3, <2>4 DEF Places
  <2>6. \A j \in 1 .. Len(u) : UsedLen(u[j]) <= u[j].len
    <3>1. UsedLen(r) = Size[Dot] /\ UsedLen(q) = Size[DotDot] /\ UsedLen(p) = 0
      BY <1>0, <1>1, <1>2, <1>3 DEF UsedLen
    <3> QED BY <1>0, <1>1, <1>2, <1>3, <1>5, <1>6, <3>1
  <2> QED BY <2>5, <2>6 DEF Tiles
<1> QED BY <1>4, <1>5, <1>7, <1>8, <1>9

\* A new directory has one block, with the dots.
LEMMA InitInv == Init => DirInv
<1> SUFFICES ASSUME Init PROVE DirInv
  OBVIOUS
<1>1. PICK b : b = <<NewDirBlock>>
  OBVIOUS
<1>2. b \in Seq(Seq(Records)) /\ Len(b) = 1 /\ b[1] = NewDirBlock
  BY <1>1, NewDirBlockProperties
<1>3. \A l \in 1 .. 1 : l = 1
  OBVIOUS
<1>4. b \in BlockSeqs
  <2>1. NewDirBlock \in Seq(SortOf(1))
    BY NewDirBlockProperties DEF SortOf
  <2> QED BY <1>2, <1>3, <2>1, NewDirBlockProperties DEF BlockSeqs
<1>5. AllNames(b) = Dots /\ AllTile(b)
  BY <1>2, <1>3, NewDirBlockProperties DEF AllNames, AllTile
<1>6. PICK i \in Indices : i = [limit |-> 0, ents |-> << >>] /\ Len(i.ents) = 0 /\ i.limit = 0
  <2>1. << >> \in Seq(Entries) /\ Len(<< >>) = 0
    OBVIOUS
  <2>2. [limit |-> 0, ents |-> << >>] \in Indices
    BY <2>1 DEF Indices
  <2> QED BY <2>1, <2>2
<1>7. d = [blks |-> b, disk |-> 1, ind |-> FALSE, indexed |-> FALSE, root |-> i,
           level |-> 0, node |-> i, free |-> DiskBlocks]
  BY <1>1, <1>6 DEF Init
<1>8. d \in Directories
  BY <1>4, <1>7, DirectoryAssumption DEF Directories
<1>9. /\ d.blks = b /\ d.disk = 1 /\ d.indexed = FALSE /\ d.root = i /\ d.node = i
      /\ d.level = 0
  BY <1>7
<1>10. IndexOK(d)
  BY <1>6, <1>9, DirectoryAssumption DEF IndexOK
<1>11. DirOK(d)
  <2>1. Len(d.blks) = 1 /\ d.disk \in 1 .. Len(d.blks)
    <3>1. Len(d.blks) = 1
      BY <1>2, <1>9
    <3>2. d.disk = 1
      BY <1>9
    <3>3. 1 \in 1 .. 1
      OBVIOUS
    <3> QED BY <3>1, <3>2, <3>3
  <2>2. 1 <= NDirect + PerIndirect
    BY DirectoryAssumption
  <2> QED BY <1>8, <1>10, <2>1, <2>2 DEF DirOK
<1>12. Listing(d) = {}
  BY <1>5, <1>9, <1>11, DirFacts
<1>13. names = {} /\ broken = FALSE /\ torn = FALSE
  BY DEF Init
<1>14. HashOK(d)
  BY <1>9 DEF HashOK
<1> QED BY <1>5, <1>9, <1>11, <1>12, <1>13, <1>14 DEF DirInv

LEMMA AddNameInv ==
  ASSUME DirInv, NEW name \in Names, AddName(name), ~twice'
  PROVE  DirInv'
<1>1. PICK r : r = AddEntry(d, name)
  OBVIOUS
<1>2. /\ ~torn /\ name \notin Listing(d)
      /\ d' = r.d /\ torn' = r.torn
      /\ names' = IF r.ok THEN names \cup {name} ELSE names
      /\ broken' = (broken \/ (~r.ok /\ Listing(r.d) # Listing(d)))
      /\ mixed' = (mixed \/ (~d.indexed /\ r.d.indexed /\ Len(d.blks) > 1))
  BY <1>1 DEF AddName, Find
<1>3. Outcome(d, {name}, r) /\ HashKept(d, r)
  BY <1>1, <1>2, AddEntryOK DEF DirInv
<1>4. /\ r \in Results /\ DirOK(r.d) /\ (r.ok => Listing(r.d) = Listing(d) \cup {name})
      /\ (AllTile(d.blks) /\ ~r.torn => AllTile(r.d.blks))
  BY <1>3 DEF Outcome
<1>5. r.torn \in BOOLEAN /\ r.ok \in BOOLEAN
  BY <1>4 DEF Results
<1>6. names' \subseteq Names /\ broken' \in BOOLEAN /\ torn' \in BOOLEAN
  BY <1>2, <1>5 DEF DirInv
<1>7. ~torn' => AllTile(r.d.blks)
  BY <1>2, <1>4 DEF DirInv
<1>8. ~broken' => Listing(r.d) = names'
  <2>1. CASE r.ok
    BY <1>2, <1>4, <2>1 DEF DirInv
  <2>2. CASE ~r.ok
    BY <1>2, <2>2 DEF DirInv
  <2> QED BY <2>1, <2>2
<1>9. DirOK(d') /\ (~torn' => AllTile(d'.blks)) /\ (~broken' => Listing(d') = names')
  BY <1>2, <1>4, <1>7, <1>8
<1>10. ASSUME ~broken', ~mixed' PROVE HashOK(r.d)
  <2>1. HashOK(d) /\ (r.ok \/ Listing(r.d) = Listing(d))
    BY <1>2, <1>10 DEF DirInv
  <2>2. CASE ~r.d.indexed
    BY <2>2 DEF HashOK
  <2>3. CASE r.d.indexed
    <3>1. d.indexed \/ ~(Len(d.blks) > 1)
      BY <1>2, <1>10, <2>3
    <3>2. Len(d.blks) \in Nat /\ Len(d.blks) >= 1
      BY DirFacts DEF DirInv
    <3>3. ~(Len(d.blks) > 1) => Len(d.blks) = 1
      <4>1. PICK k \in Nat : k = Len(d.blks)
        BY <3>2
      <4>2. k >= 1
        BY <3>2, <4>1
      <4>3. ~(k > 1) => k = 1
        BY <4>2
      <4> QED BY <4>1, <4>3
    <3>4. d.indexed \/ Len(d.blks) = 1
      BY <3>1, <3>3, Zenon
    <3> QED BY <1>3, <2>1, <3>4 DEF HashKept
  <2> QED BY <2>2, <2>3
<1>11. ~broken' /\ ~mixed' => HashOK(d')
  BY <1>2, <1>10
<1> QED BY <1>6, <1>9, <1>11 DEF DirInv

LEMMA RemoveEntryInv ==
  ASSUME DirInv, NEW name \in Names, RemoveEntry(name)
  PROVE  DirInv'
<1> DEFINE Q == {i \in DOMAIN d.blks : Where(d.blks[i], name) # 0}
<1>0. /\ ~torn /\ name \in Listing(d) /\ DirOK(d) /\ d.blks \in BlockSeqs
      /\ d.blks \in Seq(Seq(Records)) /\ DOMAIN d.blks = 1 .. Len(d.blks)
      /\ Listing(d) = AllNames(d.blks) \ Dots /\ AllTile(d.blks)
  <2>1. ~torn /\ name \in Listing(d) /\ DirOK(d) /\ AllTile(d.blks)
    BY DEF DirInv, RemoveEntry, Find
  <2>2. d.blks \in BlockSeqs /\ Listing(d) = AllNames(d.blks) \ Dots
    BY <2>1, DirFacts
  <2> QED BY <2>1, <2>2, BlockFacts
<1>1. PICK b : b = First(Q)
  OBVIOUS
\* Where finds the name in a block that has it.
<1>2. ASSUME NEW recs \in Seq(Records)
      PROVE  /\ name \in NamesIn(recs) => Where(recs, name) # 0
             /\ Where(recs, name) # 0 =>
                  Where(recs, name) \in 1 .. Len(recs) /\ recs[Where(recs, name)].name = name
  <2> DEFINE W == {i \in DOMAIN recs : recs[i].name = name}
  <2>1. Where(recs, name) = First(W) /\ W \in SUBSET DOMAIN recs
    BY DEF Where
  <2>2. (W = {} /\ First(W) = 0) \/ (First(W) \in W /\ First(W) \in 1 .. Len(recs))
    <3> HIDE DEF W
    <3> QED BY <2>1, FirstPosition
  <2>3. First(W) \in W => recs[First(W)].name = name
    OBVIOUS
  <2>4. name \in NamesIn(recs) => W # {}
    BY RecordFacts, NameFacts
  <2> HIDE DEF W
  <2>5. First(W) \in 1 .. Len(recs) => First(W) # 0
    BY RecordFacts
  <2> QED BY <2>1, <2>2, <2>3, <2>4, <2>5
<1>3. Q # {}
  <2>1. PICK l \in 1 .. Len(d.blks) : name \in NamesIn(d.blks[l])
    BY <1>0 DEF AllNames
  <2>2. d.blks[l] \in Seq(Records)
    BY <1>0, BlockFacts
  <2>3. Where(d.blks[l], name) # 0
    BY <1>2, <2>1, <2>2
  <2> QED BY <1>0, <2>3
<1>4. b \in Q /\ b \in 1 .. Len(d.blks)
  <2>1. Q \in SUBSET DOMAIN d.blks
    OBVIOUS
  <2> HIDE DEF Q
  <2> QED BY <1>0, <1>1, <1>3, <2>1, FirstPosition
<1>5. PICK leaf : leaf = d.blks[b]
  OBVIOUS
<1>6. PICK i : i = Where(leaf, name)
  OBVIOUS
<1>7. /\ leaf \in Seq(SortOf(b)) /\ leaf \in Seq(Records) /\ Distinct(leaf) /\ Tiles(leaf)
      /\ NamesIn(leaf) \subseteq AllNames(d.blks) /\ SortOf(b) \in BlockSorts
  BY <1>0, <1>4, <1>5, BlockFacts, SortFacts DEF AllTile
<1>8. i \in 1 .. Len(leaf) /\ leaf[i].name = name
  <2>1. Where(leaf, name) # 0
    BY <1>4, <1>5
  <2> QED BY <1>2, <1>6, <1>7, <2>1
<1>9. PICK recs : recs = Cut(leaf, i)
  OBVIOUS
<1>10. recs \in Seq(SortOf(b)) /\ Distinct(recs) /\ Tiles(recs)
  BY <1>7, <1>8, <1>9, CutProperties
<1>11. NamesIn(recs) = NamesIn(leaf) \ {name}
  <2>1. NamesIn(Cut(leaf, i)) = NamesIn(leaf) \ {leaf[i].name}
    BY <1>7, <1>8, CutProperties
  <2> QED BY <1>8, <1>9, <2>1
<1>12. PICK y : y = WithBlock(d, b, recs)
  OBVIOUS
<1>13. NamesIn(recs) \cap (AllNames(d.blks) \ NamesIn(d.blks[b])) = {}
  BY <1>5, <1>11
<1>14. DirOK(y)
  BY <1>0, <1>4, <1>10, <1>12, <1>13, WithBlockOK
<1>15. Listing(y) = ((AllNames(d.blks) \ NamesIn(d.blks[b])) \cup NamesIn(recs)) \ Dots
  <2>1. Listing(WithBlock(d, b, recs)) =
          ((AllNames(d.blks) \ NamesIn(d.blks[b])) \cup NamesIn(recs)) \ Dots
    BY <1>0, <1>4, <1>10, <1>13, WithBlockOK
  <2> QED BY <1>12, <2>1
<1>16. AllTile(y.blks)
  BY <1>0, <1>4, <1>10, <1>12, <1>13, WithBlockOK
<1>17. d' = y
  <2>1. d' = [d EXCEPT !.blks[b] = Cut(@, Where(@, name))]
    BY <1>1 DEF RemoveEntry
  <2>2. y = [d EXCEPT !.blks[b] = Cut(@, Where(@, name))]
    BY <1>5, <1>6, <1>9, <1>12 DEF WithBlock, Put
  <2> QED BY <2>1, <2>2
<1>18. Listing(y) = Listing(d) \ {name}
  <2>1. name \in NamesIn(leaf)
    BY <1>7, <1>8, NameFacts, DirectoryAssumption
  <2> QED BY <1>0, <1>5, <1>7, <1>11, <1>15, <2>1
<1>19. names' = names \ {name} /\ broken' = broken /\ torn' = torn /\ mixed' = mixed
  BY DEF RemoveEntry
<1>20. DirOK(d') /\ AllTile(d'.blks) /\ (~broken' => Listing(d') = names')
  <2>1. ~broken' => Listing(y) = names'
    BY <1>18, <1>19 DEF DirInv
  <2> QED BY <1>14, <1>16, <1>17, <2>1
<1>21. names' \subseteq Names /\ broken' \in BOOLEAN /\ torn' \in BOOLEAN
  BY <1>19 DEF DirInv
<1>22. HashOK(d) => HashOK(y)
  <2>1. SUFFICES ASSUME HashOK(d), y.indexed, y.level = 0
                 PROVE  Ordered(y.blks, y.root.ents)
    BY DEF HashOK
  <2>2. SameIndex(d, y) /\ y.blks = Put(d.blks, b, recs)
    BY <1>0, <1>4, <1>10, <1>12, <1>13, WithBlockOK
  <2>3. PICK ents : ents = d.root.ents
    OBVIOUS
  <2>4. Ordered(d.blks, ents) /\ y.root.ents = ents
    BY <2>1, <2>2, <2>3 DEF SameIndex, HashOK
  <2>5. \A n \in NamesIn(recs) : MayHold(ents, b, n)
    BY <1>4, <1>5, <1>11, <2>4 DEF Ordered
  <2>6. Ordered(Put(d.blks, b, recs), ents)
    BY <1>0, <1>4, <1>10, <2>4, <2>5, OrderedPut
  <2> QED BY <2>2, <2>4, <2>6
<1>23. ~broken' /\ ~mixed' => HashOK(d')
  BY <1>17, <1>19, <1>22 DEF DirInv
<1> QED BY <1>20, <1>21, <1>23 DEF DirInv

LEMMA EvictInv ==
  ASSUME DirInv, Evict
  PROVE  DirInv'
<1>0. /\ DirOK(d) /\ d \in Directories /\ IndexOK(d) /\ d.blks \in BlockSeqs
      /\ Len(d.blks) \in Nat /\ d.disk \in 1 .. Len(d.blks)
      /\ Listing(d) = AllNames(d.blks) \ Dots /\ Len(d.blks) <= NDirect + PerIndirect
      /\ NDirect \in Nat /\ PerIndirect \in Nat
  <2>1. DirOK(d)
    BY DEF DirInv
  <2> QED BY <2>1, DirFacts DEF DirOK
<1>1. PICK k \in 1 .. Len(d.blks) : k = KeptBlocks(d)
  BY <1>0 DEF KeptBlocks
<1>2. PICK b : b = SubSeq(d.blks, 1, k)
  OBVIOUS
<1>3. b \in BlockSeqs /\ Len(b) = k
  BY <1>0, <1>2, ShrinkProperties
<1>4. AllTile(d.blks) => AllTile(b)
  BY <1>0, <1>2, ShrinkProperties
<1>5. k = Len(d.blks) => AllNames(b) = AllNames(d.blks)
  BY <1>0, <1>2, ShrinkProperties
<1>6. PICK i \in BOOLEAN : i = (d.ind /\ d.disk > NDirect)
  OBVIOUS
<1>7. PICK y : y = d'
  OBVIOUS
<1>8. y = [d EXCEPT !.blks = b, !.disk = k, !.ind = i]
  BY <1>1, <1>2, <1>6, <1>7 DEF Evict
<1>k. k \in Nat
  BY <1>0
<1>9. y \in Directories /\ y.blks = b /\ y.disk = k /\ SameIndex(d, y)
  BY <1>0, <1>3, <1>8, <1>k DEF Directories, SameIndex
<1>10. DirOK(y)
  <2>1. IndexOK(y)
    BY <1>0, <1>9, SameIndexOK
  <2>2. k \in 1 .. Len(b) /\ Len(b) <= NDirect + PerIndirect
    BY <1>0, <1>3
  <2> QED BY <1>9, <2>1, <2>2 DEF DirOK
<1>11. Listing(y) = AllNames(b) \ Dots
  BY <1>9, <1>10, DirFacts
<1>12. /\ names' = names /\ torn' = torn /\ mixed' = mixed
       /\ broken' = (broken \/ k < Len(d.blks))
  BY <1>1 DEF Evict
<1>13. ~broken' => ~broken /\ k = Len(d.blks)
  <2>1. ~(k < Len(d.blks)) => k = Len(d.blks)
    BY <1>0
  <2>2. ~broken' => ~broken /\ ~(k < Len(d.blks))
    BY <1>12
  <2> QED BY <2>1, <2>2
<1>14. ~broken' => Listing(y) = names'
  BY <1>0, <1>5, <1>11, <1>12, <1>13 DEF DirInv
<1>15. ~torn' => AllTile(y.blks)
  BY <1>4, <1>9, <1>12 DEF DirInv
<1>16. DirOK(d') /\ (~torn' => AllTile(d'.blks)) /\ (~broken' => Listing(d') = names')
  BY <1>7, <1>10, <1>14, <1>15
<1>17. names' \subseteq Names /\ broken' \in BOOLEAN /\ torn' \in BOOLEAN
  BY <1>12 DEF DirInv
<1>18. k = Len(d.blks) /\ HashOK(d) => HashOK(y)
  <2>1. k = Len(d.blks) => b = d.blks
    <3>1. d.blks \in Seq(Seq(Records))
      BY <1>0, BlockFacts
    <3>2. SubSeq(d.blks, 1, Len(d.blks)) = d.blks
      BY <3>1, SubSeqFull
    <3> QED BY <1>2, <3>2
  <2> QED BY <1>9, <2>1 DEF HashOK, SameIndex
<1>19. ~broken' /\ ~mixed' => HashOK(d')
  BY <1>7, <1>12, <1>13, <1>18 DEF DirInv
<1> QED BY <1>16, <1>17, <1>19 DEF DirInv

\* A name that is there twice stays so: no further call is made.
LEMMA StepInv == (~twice => DirInv) /\ [Next]_vars => (~twice => DirInv)'
<1> SUFFICES ASSUME ~twice => DirInv, [Next]_vars, ~twice' PROVE DirInv'
  OBVIOUS
<1>0. DirInv
  BY DEF Next, AddName, RemoveEntry, Evict, vars
<1>1. ASSUME NEW n \in Names, AddName(n) PROVE DirInv'
  BY <1>0, <1>1, AddNameInv
<1>2. ASSUME NEW n \in Names, RemoveEntry(n) PROVE DirInv'
  BY <1>0, <1>2, RemoveEntryInv
<1>3. CASE Evict
  BY <1>0, <1>3, EvictInv
<1>4. CASE UNCHANGED vars
  <2>1. d' = d /\ names' = names /\ broken' = broken /\ torn' = torn /\ mixed' = mixed
    BY <1>4 DEF vars
  <2> QED BY <1>0, <2>1 DEF DirInv
<1> QED BY <1>1, <1>2, <1>3, <1>4 DEF Next

LEMMA DirInvHolds == Spec => [](~twice => DirInv)
BY InitInv, StepInv, PTL DEF Spec

-----------------------------------------------------------------------------
(* The properties.                                                          *)

LEMMA InvType == DirInv => TypeOK
<1> SUFFICES ASSUME DirInv PROVE TypeOK
  OBVIOUS
<1>1. /\ DirOK(d) /\ d.blks \in BlockSeqs /\ d.disk \in 1 .. Len(d.blks)
      /\ d.level \in {0, 1} /\ d.free \in 0 .. DiskBlocks /\ names \subseteq Names
      /\ Len(d.blks) <= NDirect + PerIndirect
      /\ Len(d.root.ents) <= RootMax /\ Len(d.node.ents) <= d.node.limit
  <2>1. DirOK(d) /\ names \subseteq Names
    BY DEF DirInv
  <2> QED BY <2>1, DirFacts DEF DirOK, IndexOK
<1>2. ASSUME NEW i \in DOMAIN d.blks, NEW j \in DOMAIN d.blks[i]
      PROVE  /\ d.blks[i][j].len \in 1 .. BlockLen
             /\ d.blks[i][j].name \in Names \cup Dots \cup {Hole}
  <2>1. d.blks[i] \in Seq(Records)
    BY <1>1, BlockFacts
  <2> QED BY <2>1, RecordFacts
<1> QED BY <1>1, <1>2 DEF TypeOK

LEMMA InvTile == DirInv => RecordsTile
<1> SUFFICES ASSUME DirInv, ~torn, NEW i \in DOMAIN d.blks
             PROVE  /\ Offset(d.blks[i], Len(d.blks[i]) + 1) = BlockLen
                    /\ \A j \in DOMAIN d.blks[i] : UsedLen(d.blks[i][j]) <= d.blks[i][j].len
  BY DEF RecordsTile
<1>1. d.blks \in BlockSeqs /\ AllTile(d.blks)
  BY DirFacts DEF DirInv
<1>2. PICK recs : recs = d.blks[i]
  OBVIOUS
<1>3. recs \in Seq(Records) /\ Tiles(recs) /\ DOMAIN recs = 1 .. Len(recs)
  BY <1>1, <1>2, BlockFacts, RecordFacts DEF AllTile
<1>4. Offset(recs, Len(recs) + 1) = BlockLen
  BY <1>3, TilesOffset DEF Tiles
<1>5. \A j \in DOMAIN recs : UsedLen(recs[j]) <= recs[j].len
  BY <1>3 DEF Tiles
<1> QED BY <1>2, <1>4, <1>5

LEMMA InvListing == (~twice => DirInv) => ListingExact
<1> SUFFICES ASSUME DirInv PROVE ListingExact
  BY DEF ListingExact
<1>1. d.blks \in BlockSeqs
  BY DirFacts DEF DirInv
<1>2. ASSUME NEW b \in DOMAIN d.blks, NEW c \in DOMAIN d.blks,
             NEW i \in DOMAIN d.blks[b], NEW j \in DOMAIN d.blks[c],
             d.blks[b][i].name \in Names, d.blks[b][i].name = d.blks[c][j].name
      PROVE  b = c /\ i = j
  <2>0. b \in 1 .. Len(d.blks) /\ c \in 1 .. Len(d.blks)
        /\ d.blks[b] \in Seq(Records) /\ d.blks[c] \in Seq(Records)
        /\ Distinct(d.blks[b]) /\ d.blks[b][i].name # Hole
    <3>1. b \in 1 .. Len(d.blks) /\ c \in 1 .. Len(d.blks)
      BY <1>1, BlockFacts
    <3>2. d.blks[b][i].name # Hole
      BY <1>2, DirectoryAssumption
    <3> QED BY <1>1, <3>1, <3>2, BlockFacts
  <2>1. i \in 1 .. Len(d.blks[b]) /\ j \in 1 .. Len(d.blks[c])
    BY <2>0, RecordFacts
  <2>2. PICK x : x = d.blks[b][i].name
    OBVIOUS
  <2>3. x \in NamesIn(d.blks[b])
    BY <2>0, <2>1, <2>2, NameFacts
  <2>4. x \in NamesIn(d.blks[c])
    BY <1>2, <2>0, <2>1, <2>2, NameFacts
  <2>5. b = c
    BY <1>1, <2>0, <2>3, <2>4 DEF BlockSeqs
  <2>6. i = j
    BY <1>2, <2>0, <2>5 DEF Distinct
  <2> QED BY <2>5, <2>6
<1>3. ~broken => Listing(d) = names
  BY DEF DirInv
<1> QED BY <1>2, <1>3 DEF ListingExact

LEMMA InvHash == DirInv => HashFindsName
<1> SUFFICES ASSUME DirInv, d.indexed, d.level = 0, ~broken, ~mixed,
                    NEW n \in names, ~Shared(n)
             PROVE  n \in NamesIn(d.blks[PickLeaf(d, Hash[n]) + 1])
  BY DEF HashFindsName, Shared
<1>1. DirOK(d) /\ n \in Names /\ n \in Listing(d) /\ Ordered(d.blks, d.root.ents)
  BY DEF DirInv, HashOK
<1>2. PICK l \in 1 .. Len(d.blks) : n \in NamesIn(d.blks[l])
  <2>1. n \in AllNames(d.blks)
    BY <1>1, DirFacts
  <2> QED BY <2>1 DEF AllNames
<1>3. PICK ents : ents = d.root.ents
  OBVIOUS
<1>4. ents \in Seq(Entries) /\ Len(ents) >= 1 /\ Target(d) = d.root
  <2>1. Target(d) = d.root
    BY DEF Target
  <2>2. d.root \in Indices
    BY <1>1, DirFacts
  <2> QED BY <1>1, <1>3, <2>1, <2>2 DEF Indices, DirOK, IndexOK
<1>5. PickLblock(ents, Hash[n]) + 1 = l
  <2>1. Len(d.blks) \in Nat /\ Ordered(d.blks, ents)
    BY <1>1, <1>3, DirFacts
  <2> QED BY <1>1, <1>2, <1>4, <2>1, PickedFinds
<1>6. PickLeaf(d, Hash[n]) + 1 = l
  BY <1>3, <1>4, <1>5 DEF PickLeaf
<1> QED BY <1>2, <1>6

\* As long as no name is added that is there, the records, the block counts and the
\* index of a directory keep their bounds: no split, repacking or second level
\* makes an entry beyond a limit.
THEOREM TypesHold == Spec => [](~twice => TypeOK)
BY DirInvHolds, InvType, PTL

\* Until a leaf of the index tears a record (torn) or a name is added that is
\* there, the records of each block add up to the block and hold their names,
\* through linear insertions, merges, upgrades and splits of leaves.
THEOREM RecordsTileHolds == Spec => [](~twice => RecordsTile)
BY DirInvHolds, InvTile, PTL

\* As long as no name is added that is there and no record is torn, no name is
\* listed twice, and unless an addition failed half way the directory lists exactly
\* what was added and not removed.
THEOREM ListingExactHolds == Spec => []ListingExact
BY DirInvHolds, InvListing, PTL

\* The index of one level leads to the leaf that has the name, unless the name
\* shares its hash, an addition failed half way, the index was built over several
\* blocks or a name was added that was there: the exchange sort sorts, the names of a leaf lie between the
\* hash of its entry and that of the next, and a split puts the new entry there.
THEOREM HashFindsNameHolds == Spec => [](~twice => HashFindsName)
BY DirInvHolds, InvHash, PTL
=============================================================================
