----------------------------- MODULE MkfsProofs -----------------------------
(***************************************************************************)
(* Proofs about Mkfs for every disk size, every number of blocks a group    *)
(* and a table block hold, and any number of failures and power losses: a   *)
(* mkfs that reports success made a consistent file system, and what is     *)
(* mounted is what mkfs made.                                               *)
(***************************************************************************)
EXTENDS Mkfs, SumProofs

\* The sizes mkfs is called with.
Sizes == DiskSizes \cup {Fallback, MinBlocks}

NumGroups(n) == DivUp(n, PerGroup(n))

\* Rounding up.
LEMMA DivUpBounds ==
  ASSUME NEW a \in Nat \ {0}, NEW b \in Nat \ {0}
  PROVE  /\ DivUp(a, b) \in Nat \ {0}
         /\ (DivUp(a, b) - 1) * b < a /\ a <= DivUp(a, b) * b
<1> DEFINE x == a + b - 1
           q == x \div b
           r == x % b
<1>1. x \in Nat /\ x >= b
  OBVIOUS
<1> HIDE DEF x
<1>2. q \in Nat /\ r \in 0 .. b - 1 /\ x = b * q + r
  BY <1>1
<1> HIDE DEF q, r
<1>3. q # 0
  BY <1>1, <1>2
<1>4. (q - 1) * b = b * q - b /\ q * b = b * q
  BY <1>2
<1>5. b * q \in Int
  BY <1>2
<1>6. (q - 1) * b < a /\ a <= q * b
  BY <1>2, <1>4, <1>5 DEF x
<1> QED BY <1>2, <1>3, <1>6 DEF DivUp, q, x

\* Groups, and the first block of each.
LEMMA GroupStarts ==
  ASSUME NEW n \in Sizes
  PROVE  /\ n \in Nat \ {0} /\ PerGroup(n) \in Nat \ {0} /\ PerGroup(n) <= MaxPerGroup
         /\ NumGroups(n) \in Nat \ {0} /\ GroupsOf(n) = 0 .. NumGroups(n) - 1
         /\ Cardinality(GroupsOf(n)) = NumGroups(n)
         /\ NumGroups(n) > 1 => n > MaxPerGroup
         /\ \A g \in GroupsOf(n) : Start(n, g) \in Nat /\ Start(n, g) < n
         /\ \A g, h \in GroupsOf(n) : g < h => Start(n, g) + PerGroup(n) <= Start(n, h)
<1>1. n \in Nat \ {0} /\ MaxPerGroup \in Nat \ {0}
  BY MkfsAssumption DEF Sizes
<1>2. PerGroup(n) \in Nat \ {0} /\ PerGroup(n) <= MaxPerGroup
  BY <1>1 DEF PerGroup
<1> DEFINE p == PerGroup(n)
           m == NumGroups(n)
<1>3. m \in Nat \ {0} /\ (m - 1) * p < n /\ n <= m * p
  BY <1>1, <1>2, DivUpBounds DEF NumGroups
<1>4. GroupsOf(n) = 0 .. m - 1
  BY DEF GroupsOf, NumGroups
<1>5. Cardinality(GroupsOf(n)) = m
  <2> HIDE DEF m, p
  <2>0. 0 \in Int /\ m - 1 \in Int
    BY <1>3
  <2>1. Cardinality(0 .. m - 1) = IF 0 > m - 1 THEN 0 ELSE (m - 1) - 0 + 1
    BY <2>0, FS_Interval
  <2> QED BY <1>3, <1>4, <2>1
<1>6. ASSUME m > 1, n <= MaxPerGroup PROVE FALSE
  <2>1. p = n
    BY <1>6 DEF PerGroup
  <2> HIDE DEF m, p
  <2>2. (m - 1) * n < n
    BY <1>3, <2>1
  <2>3. (m - 1) * n >= 1 * n
    BY <1>1, <1>3, <1>6
  <2> QED BY <1>1, <1>3, <2>2, <2>3
<1>7. ASSUME NEW g \in GroupsOf(n) PROVE Start(n, g) \in Nat /\ Start(n, g) < n
  <2> HIDE DEF m, p
  <2>1. g \in 0 .. m - 1
    BY <1>4
  <2>2. g * p <= (m - 1) * p /\ g * p \in Nat
    BY <1>2, <1>3, <2>1 DEF p
  <2>3. (m - 1) * p \in Int
    BY <1>2, <1>3 DEF p
  <2> QED BY <1>1, <1>3, <2>2, <2>3 DEF Start, p
<1>8. ASSUME NEW g \in GroupsOf(n), NEW h \in GroupsOf(n), g < h
      PROVE  Start(n, g) + PerGroup(n) <= Start(n, h)
  <2> HIDE DEF m
  <2>1. g \in Int /\ h \in Int /\ g + 1 <= h
    BY <1>3, <1>4, <1>8
  <2> HIDE DEF p
  <2>2. (g + 1) * p <= h * p /\ (g + 1) * p = g * p + p
    BY <1>2, <2>1 DEF p
  <2> QED BY <2>2 DEF Start, p
<1> QED BY <1>1, <1>2, <1>3, <1>4, <1>5, <1>6, <1>7, <1>8

\* The parts of a group's metadata, one after the other from its first block.
LEMMA Parts ==
  ASSUME NEW n \in Sizes
  PROVE  /\ GdBlocks(n) \in Nat \ {0} /\ TableBlocks(n) \in Nat \ {0}
         /\ \A g \in GroupsOf(n) :
               /\ Overhead(n, g) = GdBlocks(n) + TableBlocks(n) + (IF g = 0 THEN 4 ELSE 3)
               /\ NumGroups(n) > 1 => Overhead(n, g) <= PerGroup(n)
               /\ BlockBitmap(n, g) = Start(n, g) + 1 + GdBlocks(n)
               /\ InodeBitmap(n, g) = Start(n, g) + 2 + GdBlocks(n)
               /\ InodeTable(n, g) = Start(n, g) + 3 + GdBlocks(n)
         /\ 0 \in GroupsOf(n) /\ Start(n, 0) = 0
         /\ RootDir(n) = 3 + GdBlocks(n) + TableBlocks(n)
<1>1. /\ PerGroup(n) \in Nat \ {0} /\ NumGroups(n) \in Nat \ {0}
      /\ Cardinality(GroupsOf(n)) = NumGroups(n) /\ GroupsOf(n) = 0 .. NumGroups(n) - 1
      /\ NumGroups(n) > 1 => n > MaxPerGroup
      /\ n \in Nat \ {0} /\ MaxPerGroup \in Nat
      /\ \A g \in GroupsOf(n) : Start(n, g) \in Nat
  BY GroupStarts, MkfsAssumption
<1>2. GdBlocks(n) \in Nat \ {0} /\ TableBlocks(n) \in Nat \ {0}
  <2>1. DescsPerBlock \in Nat \ {0} /\ InodesPerBlock \in Nat \ {0}
    BY MkfsAssumption
  <2> QED BY <1>1, <2>1, DivUpBounds DEF GdBlocks, TableBlocks
<1>3. 0 \in GroupsOf(n) /\ Start(n, 0) = 0
  BY <1>1 DEF Start
<1>4. ASSUME NEW g \in GroupsOf(n)
      PROVE  /\ Overhead(n, g) = GdBlocks(n) + TableBlocks(n) + (IF g = 0 THEN 4 ELSE 3)
             /\ BlockBitmap(n, g) = Start(n, g) + 1 + GdBlocks(n)
             /\ InodeBitmap(n, g) = Start(n, g) + 2 + GdBlocks(n)
             /\ InodeTable(n, g) = Start(n, g) + 3 + GdBlocks(n)
  <2>1. Start(n, g) \in Nat
    BY <1>1
  <2>2. Overhead(n, g) = GdBlocks(n) + TableBlocks(n) + (IF g = 0 THEN 4 ELSE 3)
    <3>1. CASE g = 0
      BY <1>2, <3>1 DEF Overhead
    <3>2. CASE g # 0
      BY <1>2, <3>2 DEF Overhead
    <3> QED BY <3>1, <3>2
  <2>3. BlockBitmap(n, g) = Start(n, g) + 1 + GdBlocks(n)
    BY DEF BlockBitmap
  <2>4. InodeBitmap(n, g) = Start(n, g) + 2 + GdBlocks(n)
    BY <1>2, <2>1, <2>3 DEF InodeBitmap
  <2>5. InodeTable(n, g) = Start(n, g) + 3 + GdBlocks(n)
    BY <1>2, <2>1, <2>4 DEF InodeTable
  <2> QED BY <2>2, <2>3, <2>4, <2>5
<1>5. ASSUME NumGroups(n) > 1, NEW g \in GroupsOf(n) PROVE Overhead(n, g) <= PerGroup(n)
  <2>1. n > MaxPerGroup
    BY <1>1, <1>5
  <2>2. PerGroup(n) = MaxPerGroup
    BY <1>1, <2>1 DEF PerGroup
  <2>3. Overhead(n, 0) <= MaxPerGroup
    BY <2>1, LayoutAssumption DEF Sizes
  <2>4. Overhead(n, 0) = GdBlocks(n) + TableBlocks(n) + 4
    BY <1>3, <1>4
  <2>5. Overhead(n, g) = GdBlocks(n) + TableBlocks(n) + (IF g = 0 THEN 4 ELSE 3)
    BY <1>4
  <2> QED BY <1>1, <1>2, <2>2, <2>3, <2>4, <2>5
<1>6. RootDir(n) = 3 + GdBlocks(n) + TableBlocks(n)
  BY <1>2, <1>3, <1>4 DEF RootDir
<1> QED BY <1>2, <1>3, <1>4, <1>5, <1>6

\* The metadata of a group is one run of blocks, and its bitmap marks as much
\* of it as lies inside the group.
LEMMA GroupLayout ==
  ASSUME NEW n \in Sizes, NEW g \in GroupsOf(n)
  PROVE  LET inside == {b - Start(n, g) : b \in Metadata(n, g)} \cap (0 .. GroupLen(n, g) - 1)
             clear == (0 .. MaxPerGroup - 1) \ BlockBits(n, g)
         IN  /\ inside = BlockBits(n, g) \cap (0 .. GroupLen(n, g) - 1)
             /\ Desc(n, g).bfree = Cardinality(clear) /\ Desc(n, g).bfree \in Nat
             /\ Cardinality(Metadata(n, g)) = Overhead(n, g)
<1> DEFINE s == Start(n, g)
           o == Overhead(n, g)
           len == GroupLen(n, g)
           u == Used(n, g)
<1>1. /\ n \in Nat \ {0} /\ PerGroup(n) \in Nat \ {0} /\ PerGroup(n) <= MaxPerGroup
      /\ s \in Nat /\ s < n /\ MaxPerGroup \in Nat
  BY GroupStarts, MkfsAssumption
<1>2. /\ GdBlocks(n) \in Nat \ {0} /\ TableBlocks(n) \in Nat \ {0}
      /\ o = GdBlocks(n) + TableBlocks(n) + (IF g = 0 THEN 4 ELSE 3)
      /\ BlockBitmap(n, g) = s + 1 + GdBlocks(n)
      /\ InodeBitmap(n, g) = s + 2 + GdBlocks(n)
      /\ InodeTable(n, g) = s + 3 + GdBlocks(n)
      /\ g = 0 => RootDir(n) = s + 3 + GdBlocks(n) + TableBlocks(n)
  <2>1. g = 0 => s = 0
    BY Parts
  <2>2. RootDir(n) = 3 + GdBlocks(n) + TableBlocks(n)
    BY Parts
  <2>3. GdBlocks(n) \in Nat \ {0} /\ TableBlocks(n) \in Nat \ {0}
    BY Parts
  <2>4. g = 0 => RootDir(n) = s + 3 + GdBlocks(n) + TableBlocks(n)
    <3> HIDE DEF s
    <3> QED BY <2>1, <2>2, <2>3
  <2> QED BY <2>3, <2>4, Parts
<1>3. len \in Nat /\ len <= MaxPerGroup /\ o \in Nat
  <2> HIDE DEF s, o
  <2>1. len = IF s + PerGroup(n) > n THEN n - s ELSE PerGroup(n)
    BY DEF GroupLen, s
  <2> HIDE DEF len
  <2> QED BY <1>1, <1>2, <2>1
<1>4. u = IF o > len THEN len ELSE o
  BY DEF Used
<1> HIDE DEF s, o, len, u
<1>5. u \in Nat /\ u <= len /\ u <= o
  BY <1>3, <1>4
<1>6. Metadata(n, g) = s .. s + o - 1
  <2>1. Metadata(n, g) =
           (s .. s + GdBlocks(n)) \cup {s + 1 + GdBlocks(n), s + 2 + GdBlocks(n)}
           \cup (s + 3 + GdBlocks(n) .. s + 3 + GdBlocks(n) + TableBlocks(n) - 1)
           \cup (IF g = 0 THEN {RootDir(n)} ELSE {})
    BY <1>2 DEF Metadata, s
  <2>2. CASE g = 0
    BY <1>1, <1>2, <2>1, <2>2
  <2>3. CASE g # 0
    BY <1>1, <1>2, <2>1, <2>3
  <2> QED BY <2>2, <2>3
<1>7. Cardinality(Metadata(n, g)) = o
  <2>0. s \in Int /\ s + o - 1 \in Int
    BY <1>1, <1>3
  <2>1. Cardinality(s .. s + o - 1) = IF s > s + o - 1 THEN 0 ELSE (s + o - 1) - s + 1
    BY <2>0, FS_Interval
  <2> QED BY <1>1, <1>3, <1>6, <2>1
<1>8. BlockBits(n, g) = (0 .. u - 1) \cup (len .. MaxPerGroup - 1)
  BY DEF BlockBits, u, len
<1>9. {b - s : b \in Metadata(n, g)} \cap (0 .. len - 1) = BlockBits(n, g) \cap (0 .. len - 1)
  <2>1. {b - s : b \in s .. s + o - 1} = 0 .. o - 1
    <3>1. \A x \in 0 .. o - 1 : x + s \in s .. s + o - 1 /\ x = (x + s) - s
      BY <1>1, <1>3
    <3>2. \A b \in s .. s + o - 1 : b - s \in 0 .. o - 1
      BY <1>1, <1>3
    <3> QED BY <3>1, <3>2
  <2>2. (0 .. o - 1) \cap (0 .. len - 1) = 0 .. u - 1
    BY <1>3, <1>4
  <2>3. BlockBits(n, g) \cap (0 .. len - 1) = 0 .. u - 1
    BY <1>3, <1>5, <1>8
  <2> QED BY <1>6, <2>1, <2>2, <2>3
<1>10. (0 .. MaxPerGroup - 1) \ BlockBits(n, g) = u .. len - 1
  BY <1>1, <1>3, <1>5, <1>8
<1>11. Cardinality(u .. len - 1) = len - u
  <2>0. u \in Int /\ len - 1 \in Int
    BY <1>3, <1>5
  <2>1. Cardinality(u .. len - 1) = IF u > len - 1 THEN 0 ELSE (len - 1) - u + 1
    BY <2>0, FS_Interval
  <2> QED BY <1>3, <1>5, <2>1
<1>12. Desc(n, g).bfree = len - u /\ len - u \in Nat
  BY <1>3, <1>5 DEF Desc, len, u
<1> QED BY <1>7, <1>9, <1>10, <1>11, <1>12 DEF s, o, len

-----------------------------------------------------------------------------
(* The writes of mkfs fall on different blocks.                             *)

Places(q) == {q[i].at : i \in 1 .. Len(q)}
Spread(q) == \A i, j \in 1 .. Len(q) : q[i].at = q[j].at => i = j

LEMMA Joined ==
  ASSUME NEW S, NEW q \in Seq(S), NEW r \in Seq(S)
  PROVE  /\ q \o r \in Seq(S) /\ Len(q \o r) = Len(q) + Len(r)
         /\ Len(q) \in Nat /\ Len(r) \in Nat
         /\ \A i \in 1 .. Len(q) : (q \o r)[i] = q[i]
         /\ \A i \in 1 .. Len(r) : (q \o r)[Len(q) + i] = r[i]
         /\ Places(q \o r) = Places(q) \cup Places(r)
<1>1. /\ q \o r \in Seq(S) /\ Len(q \o r) = Len(q) + Len(r)
      /\ Len(q) \in Nat /\ Len(r) \in Nat
      /\ \A i \in 1 .. Len(q) : (q \o r)[i] = q[i]
      /\ \A i \in 1 .. Len(r) : (q \o r)[Len(q) + i] = r[i]
  OBVIOUS
<1> DEFINE z == q \o r
<1> HIDE DEF z
<1>2. \A i \in 1 .. Len(q) : i \in 1 .. Len(z)
  BY <1>1 DEF z
<1>3. \A i \in 1 .. Len(r) : Len(q) + i \in 1 .. Len(z)
  BY <1>1 DEF z
<1>4. \A i \in 1 .. Len(z) :
         \/ i \in 1 .. Len(q) \/ (i - Len(q) \in 1 .. Len(r) /\ Len(q) + (i - Len(q)) = i)
  BY <1>1 DEF z
<1>5. Places(q) \subseteq Places(z)
  BY <1>1, <1>2 DEF Places, z
<1>6. Places(r) \subseteq Places(z)
  BY <1>1, <1>3 DEF Places, z
<1>7. ASSUME NEW a \in Places(z) PROVE a \in Places(q) \cup Places(r)
  <2>1. PICK i \in 1 .. Len(z) : a = z[i].at
    BY <1>7 DEF Places
  <2>2. CASE i \in 1 .. Len(q)
    <3>1. z[i] = q[i]
      BY <1>1, <2>2 DEF z
    <3> QED BY <2>1, <2>2, <3>1 DEF Places
  <2>3. CASE i - Len(q) \in 1 .. Len(r) /\ Len(q) + (i - Len(q)) = i
    <3>1. z[i] = r[i - Len(q)]
      BY <1>1, <2>3 DEF z
    <3> QED BY <2>1, <2>3, <3>1 DEF Places
  <2> QED BY <1>4, <2>2, <2>3
<1> QED BY <1>1, <1>5, <1>6, <1>7 DEF z

LEMMA JoinedSpread ==
  ASSUME NEW S, NEW q \in Seq(S), NEW r \in Seq(S), Spread(q), Spread(r),
         Places(q) \cap Places(r) = {}
  PROVE  Spread(q \o r)
<1> DEFINE z == q \o r
           L == Len(q)
<1>1. /\ Len(z) = L + Len(r) /\ L \in Nat /\ Len(r) \in Nat
      /\ \A i \in 1 .. L : z[i] = q[i]
      /\ \A i \in 1 .. Len(r) : z[L + i] = r[i]
  BY Joined
<1> HIDE DEF z, L
<1>2. ASSUME NEW i \in 1 .. Len(z), i <= L
      PROVE  i \in 1 .. L /\ z[i].at = q[i].at /\ z[i].at \in Places(q)
  <2>1. i \in 1 .. L
    BY <1>1, <1>2
  <2> QED BY <1>1, <2>1 DEF Places, L
<1>3. ASSUME NEW i \in 1 .. Len(z), ~(i <= L)
      PROVE  i - L \in 1 .. Len(r) /\ z[i].at = r[i - L].at /\ z[i].at \in Places(r)
  <2>1. i - L \in 1 .. Len(r) /\ L + (i - L) = i
    BY <1>1, <1>3
  <2>2. z[i] = r[i - L]
    BY <1>1, <2>1
  <2> QED BY <2>1, <2>2 DEF Places
<1>4. ASSUME NEW i \in 1 .. Len(z), NEW j \in 1 .. Len(z), z[i].at = z[j].at
      PROVE  i = j
  <2>1. CASE i <= L /\ j <= L
    BY <1>2, <1>4, <2>1 DEF Spread, L
  <2>2. CASE ~(i <= L) /\ ~(j <= L)
    <3>1. i - L = j - L
      BY <1>3, <1>4, <2>2 DEF Spread
    <3> QED BY <1>1, <3>1
  <2>3. CASE i <= L /\ ~(j <= L)
    BY <1>2, <1>3, <1>4, <2>3
  <2>4. CASE ~(i <= L) /\ j <= L
    BY <1>2, <1>3, <1>4, <2>4
  <2> QED BY <2>1, <2>2, <2>3, <2>4
<1> QED BY <1>4 DEF Spread, z

\* One step of FlattenSeq.
FlattenStep(seqs, f, i) == IF i = 1 THEN seqs[i] ELSE f[i - 1] \o seqs[i]

\* What FlattenSeq computes: one sequence after the other is appended.
LEMMA FlattenUnfolds ==
  ASSUME NEW seqs, Len(seqs) \in Nat \ {0}
  PROVE  \E f : /\ \A i \in 1 .. Len(seqs) : f[i] = FlattenStep(seqs, f, i)
                /\ FlattenSeq(seqs) = f[Len(seqs)]
<1> DEFINE L == Len(seqs)
           Upto(f, n) == \A i \in 1 .. L : i <= n => f[i] = FlattenStep(seqs, f, i)
           Q == {n \in Nat : \E f : Upto(f, n)}
<1> HIDE DEF L
<1>l. L \in Nat \ {0}
  BY DEF L
<1>1. 0 \in Q
  <2>1. Upto(seqs, 0)
    BY <1>l
  <2> QED BY <2>1
<1>2. ASSUME NEW n \in Q PROVE n + 1 \in Q
  <2>1. PICK f : Upto(f, n)
    OBVIOUS
  <2> DEFINE next == [i \in 1 .. L |-> FlattenStep(seqs, f, i)]
  <2>2. ASSUME NEW i \in 1 .. L, i <= n + 1
        PROVE  next[i] = FlattenStep(seqs, next, i)
    <3>1. next[i] = FlattenStep(seqs, f, i)
      OBVIOUS
    <3>2. CASE i = 1
      <4> HIDE DEF next
      <4> QED BY <3>1, <3>2 DEF FlattenStep
    <3>3. CASE i # 1
      <4>1. i - 1 \in 1 .. L /\ i - 1 <= n
        BY <1>l, <2>2, <3>3
      <4>2. f[i - 1] = FlattenStep(seqs, f, i - 1)
        BY <2>1, <4>1
      <4>3. next[i - 1] = f[i - 1]
        BY <4>1, <4>2
      <4> HIDE DEF next
      <4> QED BY <3>1, <3>3, <4>3 DEF FlattenStep
    <3> QED BY <3>2, <3>3
  <2> HIDE DEF next
  <2>3. Upto(next, n + 1)
    BY <2>2
  <2> QED BY <2>3
<1>3. L \in Q
  <2> HIDE DEF Q
  <2>1. Q \in SUBSET Nat
    BY DEF Q
  <2> QED BY <1>1, <1>2, <1>l, <2>1, SetInduction
<1>4. PICK f : Upto(f, L)
  BY <1>3
<1>5. \A i \in 1 .. L : f[i] = FlattenStep(seqs, f, i)
  BY <1>4, <1>l
<1> DEFINE flat == [i \in 1 .. L |-> f[i]]
<1>6. ASSUME NEW i \in 1 .. L PROVE FlattenStep(seqs, flat, i) = FlattenStep(seqs, f, i)
  <2>1. CASE i = 1
    <3> HIDE DEF flat
    <3> QED BY <2>1 DEF FlattenStep
  <2>2. CASE i # 1
    <3>1. i - 1 \in 1 .. L
      BY <1>l, <2>2
    <3>2. flat[i - 1] = f[i - 1]
      BY <3>1
    <3> HIDE DEF flat
    <3> QED BY <2>2, <3>2 DEF FlattenStep
  <2> QED BY <2>1, <2>2
<1>7. flat = [i \in 1 .. L |-> FlattenStep(seqs, flat, i)]
  <2>1. \A i \in 1 .. L : f[i] = FlattenStep(seqs, flat, i)
    <3> HIDE DEF flat
    <3> QED BY <1>5, <1>6
  <2> QED BY <2>1
<1> HIDE DEF flat
<1> DEFINE h == CHOOSE h : h = [i \in 1 .. L |-> FlattenStep(seqs, h, i)]
<1>8. h = [i \in 1 .. L |-> FlattenStep(seqs, h, i)]
  BY <1>7
<1>9. FlattenSeq(seqs) = h[L]
  BY <1>l DEF FlattenSeq, FlattenStep, L
<1> HIDE DEF h
<1>10. \A i \in 1 .. L : h[i] = FlattenStep(seqs, h, i)
  BY <1>8
<1> QED BY <1>9, <1>10 DEF L

\* Sequences that fall on different places, one after the other.
LEMMA FlattenSpread ==
  ASSUME NEW S, NEW m \in Nat, NEW seqs \in [1 .. m -> Seq(S)],
         \A g \in 1 .. m : Spread(seqs[g]),
         \A g, h \in 1 .. m : g # h => Places(seqs[g]) \cap Places(seqs[h]) = {}
  PROVE  /\ FlattenSeq(seqs) \in Seq(S) /\ Spread(FlattenSeq(seqs))
         /\ \A a \in Places(FlattenSeq(seqs)) : \E g \in 1 .. m : a \in Places(seqs[g])
<1>1. seqs \in Seq(Seq(S)) /\ Len(seqs) = m
  OBVIOUS
<1>2. CASE m = 0
  <2>1. FlattenSeq(seqs) = seqs
    BY <1>1, <1>2 DEF FlattenSeq
  <2>2. seqs \in Seq(S) /\ Len(seqs) = 0
    BY <1>1, <1>2
  <2> QED BY <2>1, <2>2 DEF Spread, Places
<1>3. CASE m # 0
  <2>1. PICK f : /\ \A i \in 1 .. m : f[i] = FlattenStep(seqs, f, i)
                 /\ FlattenSeq(seqs) = f[m]
    BY <1>1, <1>3, FlattenUnfolds
  <2> DEFINE Good(i) == /\ f[i] \in Seq(S) /\ Spread(f[i])
                        /\ \A a \in Places(f[i]) : \E g \in 1 .. i : a \in Places(seqs[g])
             Q == {i \in Nat : i + 1 \in 1 .. m => Good(i + 1)}
  <2>2. 0 \in Q
    <3>1. 1 \in 1 .. m /\ f[1] = seqs[1]
      BY <1>3, <2>1 DEF FlattenStep
    <3>2. Good(1)
      BY <3>1
    <3> QED BY <3>2
  <2>3. ASSUME NEW i \in Q PROVE i + 1 \in Q
    <3> SUFFICES ASSUME i + 1 + 1 \in 1 .. m PROVE Good(i + 1 + 1)
      OBVIOUS
    <3> DEFINE j == i + 1
    <3>1. j \in 1 .. m /\ j + 1 \in 1 .. m /\ j + 1 # 1 /\ j + 1 - 1 = j /\ i \in Nat
      OBVIOUS
    <3>2. Good(j)
      BY <3>1
    <3> HIDE DEF j
    <3>3. f[j + 1] = f[j] \o seqs[j + 1]
      <4>1. f[j + 1] = FlattenStep(seqs, f, j + 1)
        BY <2>1, <3>1
      <4>2. PICK x : x = j + 1
        OBVIOUS
      <4>3. x # 1
        BY <3>1, <4>2
      <4>4. FlattenStep(seqs, f, x) = f[x - 1] \o seqs[x]
        BY <4>3, Zenon DEF FlattenStep
      <4>5. x - 1 = j
        BY <3>1, <4>2
      <4>6. f[x] = f[j] \o seqs[x]
        BY <4>1, <4>2, <4>4, <4>5, Zenon
      <4> QED BY <4>2, <4>6, Zenon
    <3>4. seqs[j + 1] \in Seq(S) /\ Spread(seqs[j + 1]) /\ f[j] \in Seq(S) /\ Spread(f[j])
      BY <3>1, <3>2
    <3>5. ASSUME NEW a \in Places(f[j]) PROVE a \notin Places(seqs[j + 1])
      <4>1. PICK g \in 1 .. j : a \in Places(seqs[g])
        BY <3>2
      <4>2. g \in 1 .. m /\ g # j + 1
        BY <3>1
      <4> QED BY <3>1, <4>1, <4>2
    <3>6. f[j + 1] \in Seq(S) /\ Places(f[j + 1]) = Places(f[j]) \cup Places(seqs[j + 1])
      BY <3>3, <3>4, Joined
    <3>7. Spread(f[j + 1])
      BY <3>3, <3>4, <3>5, JoinedSpread
    <3>8. ASSUME NEW a \in Places(f[j + 1])
          PROVE  \E g \in 1 .. j + 1 : a \in Places(seqs[g])
      <4>1. CASE a \in Places(f[j])
        <5>1. PICK g \in 1 .. j : a \in Places(seqs[g])
          BY <3>2, <4>1
        <5>2. g \in 1 .. j + 1
          BY <3>1
        <5> QED BY <5>1, <5>2
      <4>2. CASE a \in Places(seqs[j + 1])
        BY <3>1, <4>2
      <4> QED BY <3>6, <4>1, <4>2
    <3>9. Good(j + 1)
      BY <3>6, <3>7, <3>8
    <3> QED BY <3>9 DEF j
  <2>4. m - 1 \in Q
    <3> HIDE DEF Q
    <3>1. Q \in SUBSET Nat
      BY DEF Q
    <3>2. \A i \in Nat : i \in Q
      BY <2>2, <2>3, <3>1, SetInduction
    <3>3. m - 1 \in Nat
      BY <1>3
    <3> QED BY <3>2, <3>3
  <2>5. Good(m)
    <3>1. m - 1 + 1 = m /\ m \in 1 .. m
      BY <1>3
    <3> QED BY <2>4, <3>1
  <2> QED BY <2>1, <2>5
<1> QED BY <1>2, <1>3

\* The blocks a to b of each group in G.
Region(n, G, a, b) == {Start(n, g) + o : g \in G, o \in a .. b}

LEMMA RegionsApart ==
  ASSUME NEW n \in Sizes, NEW G \in SUBSET GroupsOf(n), NEW H \in SUBSET GroupsOf(n),
         NEW a \in Nat, NEW b \in Nat, NEW c \in Nat, NEW d \in Nat,
         \A g \in G : b < Overhead(n, g), \A h \in H : d < Overhead(n, h),
         G \cap H = {} \/ b < c \/ d < a
  PROVE  Region(n, G, a, b) \cap Region(n, H, c, d) = {}
<1> SUFFICES ASSUME NEW g \in G, NEW h \in H, NEW o \in a .. b, NEW u \in c .. d,
                    Start(n, g) + o = Start(n, h) + u
             PROVE  FALSE
  BY DEF Region
<1>1. /\ Start(n, g) \in Nat /\ Start(n, h) \in Nat /\ PerGroup(n) \in Nat
      /\ g < h => Start(n, g) + PerGroup(n) <= Start(n, h)
      /\ h < g => Start(n, h) + PerGroup(n) <= Start(n, g)
      /\ g \in 0 .. NumGroups(n) - 1 /\ h \in 0 .. NumGroups(n) - 1 /\ NumGroups(n) \in Nat
  BY GroupStarts
<1>2. /\ NumGroups(n) > 1 => Overhead(n, g) <= PerGroup(n) /\ Overhead(n, h) <= PerGroup(n)
      /\ Overhead(n, g) \in Nat /\ Overhead(n, h) \in Nat
  <2>1. GdBlocks(n) \in Nat /\ TableBlocks(n) \in Nat
    BY Parts
  <2>2. \A x \in GroupsOf(n) : Overhead(n, x) \in Nat
    <3> TAKE x \in GroupsOf(n)
    <3>1. Overhead(n, x) = GdBlocks(n) + TableBlocks(n) + (IF x = 0 THEN 4 ELSE 3)
      BY Parts
    <3> QED BY <2>1, <3>1
  <2> QED BY <2>2, Parts
<1>3. o \in Nat /\ u \in Nat /\ o < Overhead(n, g) /\ u < Overhead(n, h)
  BY <1>2
<1>4. g = h
  <2>1. g < h => NumGroups(n) > 1
    BY <1>1
  <2>2. h < g => NumGroups(n) > 1
    BY <1>1
  <2>3. ~(g < h)
    BY <1>1, <1>2, <1>3, <2>1
  <2>4. ~(h < g)
    BY <1>1, <1>2, <1>3, <2>2
  <2> QED BY <1>1, <2>3, <2>4
<1>5. o = u
  BY <1>1, <1>3, <1>4
<1> QED BY <1>4, <1>5

\* What mkfs for n blocks may write.
WriteSet(n) ==
    [at : Nat, c : [what : {"sb", "gdt", "bbmap", "ibmap", "inodes", "rootdir"}, i : Nat, n : {n}]]

LEMMA GdtPart ==
  ASSUME NEW n \in Sizes, NEW at \in Nat
  PROVE  /\ GdtWrites(n, at) \in Seq(WriteSet(n)) /\ Len(GdtWrites(n, at)) = GdBlocks(n)
         /\ Spread(GdtWrites(n, at)) /\ Places(GdtWrites(n, at)) \subseteq at + 1 .. at + GdBlocks(n)
         /\ GdtWrites(n, at)[1] = Write(at + 1, "gdt", 0, n)
<1> DEFINE q == GdtWrites(n, at)
           m == GdBlocks(n)
<1>1. m \in Nat \ {0}
  BY Parts
<1>2. q = [i \in 1 .. m |-> Write(at + i, "gdt", i - 1, n)]
  BY DEF GdtWrites
<1> HIDE DEF q, m
<1>3. \A i \in 1 .. m : Write(at + i, "gdt", i - 1, n) \in WriteSet(n)
  BY <1>1 DEF Write, Tag, WriteSet
<1>4. q \in Seq(WriteSet(n)) /\ Len(q) = m
  BY <1>1, <1>2, <1>3
<1>5. \A i \in 1 .. m : q[i] = Write(at + i, "gdt", i - 1, n)
  BY <1>2
<1>6. \A i \in 1 .. m : q[i].at = at + i
  <2> TAKE i \in 1 .. m
  <2>1. q[i] = [at |-> at + i, c |-> Tag("gdt", i - 1, n)]
    BY <1>5 DEF Write
  <2> QED BY <2>1
<1>7. Spread(q) /\ Places(q) \subseteq at + 1 .. at + m
  BY <1>1, <1>4, <1>6 DEF Spread, Places
<1>8. q[1] = Write(at + 1, "gdt", 0, n)
  BY <1>1, <1>5
<1> QED BY <1>4, <1>7, <1>8 DEF q, m

LEMMA OneWrite ==
  ASSUME NEW S, NEW w \in S
  PROVE  /\ <<w>> \in Seq(S) /\ Len(<<w>>) = 1 /\ <<w>>[1] = w
         /\ Spread(<<w>>) /\ Places(<<w>>) = {w.at}
<1>1. <<w>> \in Seq(S) /\ Len(<<w>>) = 1 /\ <<w>>[1] = w
  OBVIOUS
<1>2. 1 .. 1 = {1}
  OBVIOUS
<1> QED BY <1>1, <1>2 DEF Spread, Places

LEMMA TwoWrites ==
  ASSUME NEW S, NEW v \in S, NEW w \in S, v.at # w.at
  PROVE  /\ <<v, w>> \in Seq(S) /\ Len(<<v, w>>) = 2 /\ <<v, w>>[1] = v
         /\ Spread(<<v, w>>) /\ Places(<<v, w>>) = {v.at, w.at}
<1>1. <<v, w>> \in Seq(S) /\ Len(<<v, w>>) = 2 /\ <<v, w>>[1] = v /\ <<v, w>>[2] = w
  OBVIOUS
<1>2. 1 .. 2 = {1, 2}
  OBVIOUS
<1> QED BY <1>1, <1>2 DEF Spread, Places

LEMMA BackupPart ==
  ASSUME NEW n \in Sizes, NEW g \in GroupsOf(n)
  PROVE  /\ BackupWrites(n, g) \in Seq(WriteSet(n)) /\ Spread(BackupWrites(n, g))
         /\ Places(BackupWrites(n, g)) \subseteq Region(n, {g}, 0, GdBlocks(n))
<1> DEFINE s == Start(n, g)
           w == Write(s, "sb", g, n)
           q == GdtWrites(n, s)
<1>1. s \in Nat /\ GdBlocks(n) \in Nat /\ g \in Nat
  <2>1. g \in 0 .. NumGroups(n) - 1 /\ NumGroups(n) \in Nat
    BY GroupStarts
  <2>2. g \in Nat
    BY <2>1
  <2> QED BY <2>2, GroupStarts, Parts
<1>2. w \in WriteSet(n) /\ w.at = s
  BY <1>1 DEF Write, Tag, WriteSet
<1>3. <<w>> \in Seq(WriteSet(n)) /\ Spread(<<w>>) /\ Places(<<w>>) = {s}
  BY <1>2, OneWrite
<1>4. q \in Seq(WriteSet(n)) /\ Spread(q) /\ Places(q) \subseteq s + 1 .. s + GdBlocks(n)
  BY <1>1, GdtPart
<1>5. Places(<<w>>) \cap Places(q) = {}
  BY <1>1, <1>3, <1>4
<1>6. /\ <<w>> \o q \in Seq(WriteSet(n)) /\ Spread(<<w>> \o q)
      /\ Places(<<w>> \o q) = Places(<<w>>) \cup Places(q)
  <2>1. PICK o : o = <<w>>
    OBVIOUS
  <2> HIDE DEF q, w
  <2>2. o \in Seq(WriteSet(n)) /\ Spread(o) /\ Places(o) \cap Places(q) = {}
    BY <1>3, <1>5, <2>1
  <2>3. /\ o \o q \in Seq(WriteSet(n)) /\ Spread(o \o q)
        /\ Places(o \o q) = Places(o) \cup Places(q)
    BY <1>4, <2>2, Joined, JoinedSpread
  <2> QED BY <2>1, <2>3
<1>7. \A a \in s .. s + GdBlocks(n) : a - s \in 0 .. GdBlocks(n) /\ a = s + (a - s)
  BY <1>1
<1>8. s .. s + GdBlocks(n) \subseteq Region(n, {g}, 0, GdBlocks(n))
  BY <1>7 DEF Region
<1>9. Places(<<w>> \o q) \subseteq s .. s + GdBlocks(n)
  BY <1>1, <1>3, <1>4, <1>6
<1> QED BY <1>6, <1>8, <1>9 DEF BackupWrites

LEMMA BitmapPart ==
  ASSUME NEW n \in Sizes, NEW g \in GroupsOf(n)
  PROVE  /\ BitmapWrites(n, g) \in Seq(WriteSet(n)) /\ Spread(BitmapWrites(n, g))
         /\ Places(BitmapWrites(n, g)) \subseteq Region(n, {g}, GdBlocks(n) + 1, GdBlocks(n) + 2)
<1> DEFINE s == Start(n, g)
           v == Write(BlockBitmap(n, g), "bbmap", g, n)
           w == Write(InodeBitmap(n, g), "ibmap", g, n)
<1>1. s \in Nat /\ GdBlocks(n) \in Nat /\ g \in Nat
  <2>1. g \in 0 .. NumGroups(n) - 1 /\ NumGroups(n) \in Nat
    BY GroupStarts
  <2>2. g \in Nat
    BY <2>1
  <2> QED BY <2>2, GroupStarts, Parts
<1>2. /\ BlockBitmap(n, g) = s + 1 + GdBlocks(n)
      /\ InodeBitmap(n, g) = s + 2 + GdBlocks(n)
  BY Parts
<1>3. /\ v \in WriteSet(n) /\ v.at = s + (GdBlocks(n) + 1)
      /\ w \in WriteSet(n) /\ w.at = s + (GdBlocks(n) + 2)
  BY <1>1, <1>2 DEF Write, Tag, WriteSet
<1>4. /\ <<v, w>> \in Seq(WriteSet(n)) /\ Spread(<<v, w>>)
      /\ Places(<<v, w>>) = {s + (GdBlocks(n) + 1), s + (GdBlocks(n) + 2)}
  <2>1. v.at # w.at
    BY <1>1, <1>3
  <2> HIDE DEF v, w
  <2> QED BY <1>3, <2>1, TwoWrites
<1>5. {GdBlocks(n) + 1, GdBlocks(n) + 2} \subseteq GdBlocks(n) + 1 .. GdBlocks(n) + 2
  BY <1>1
<1> HIDE DEF v, w
<1>6. Places(<<v, w>>) \subseteq Region(n, {g}, GdBlocks(n) + 1, GdBlocks(n) + 2)
  BY <1>4, <1>5 DEF Region
<1> QED BY <1>4, <1>6 DEF BitmapWrites, v, w

\* The backups of all groups but the first.
LEMMA BackupsPart ==
  ASSUME NEW n \in Sizes
  PROVE  LET last == NumGroups(n) - 1
             q == FlattenSeq([g \in 1 .. last |-> BackupWrites(n, g)])
         IN  /\ q \in Seq(WriteSet(n)) /\ Spread(q)
             /\ Places(q) \subseteq Region(n, 1 .. last, 0, GdBlocks(n))
<1> DEFINE last == NumGroups(n) - 1
           seqs == [g \in 1 .. last |-> BackupWrites(n, g)]
           R(g) == Region(n, {g}, 0, GdBlocks(n))
<1>1. last \in Nat /\ GroupsOf(n) = 0 .. last /\ GdBlocks(n) \in Nat
  <2>1. NumGroups(n) \in Nat \ {0} /\ GroupsOf(n) = 0 .. NumGroups(n) - 1
    BY GroupStarts
  <2>2. GdBlocks(n) \in Nat
    BY Parts
  <2> QED BY <2>1, <2>2
<1> HIDE DEF last
<1>2. \A g \in 1 .. last : g \in GroupsOf(n)
  BY <1>1
<1>3. /\ seqs \in [1 .. last -> Seq(WriteSet(n))]
      /\ \A g \in 1 .. last : Spread(seqs[g]) /\ Places(seqs[g]) \subseteq R(g)
  BY <1>2, BackupPart
<1>4. \A g \in GroupsOf(n) : GdBlocks(n) < Overhead(n, g)
  <2> TAKE g \in GroupsOf(n)
  <2>1. Overhead(n, g) = GdBlocks(n) + TableBlocks(n) + (IF g = 0 THEN 4 ELSE 3)
    BY Parts
  <2>2. TableBlocks(n) \in Nat
    BY Parts
  <2> QED BY <1>1, <2>1, <2>2
<1> HIDE DEF seqs
<1>5. ASSUME NEW g \in 1 .. last, NEW h \in 1 .. last, g # h
      PROVE  Places(seqs[g]) \cap Places(seqs[h]) = {}
  <2>1. /\ {g} \in SUBSET GroupsOf(n) /\ {h} \in SUBSET GroupsOf(n) /\ {g} \cap {h} = {}
        /\ \A x \in {g} : GdBlocks(n) < Overhead(n, x)
        /\ \A x \in {h} : GdBlocks(n) < Overhead(n, x)
    BY <1>2, <1>4, <1>5
  <2>2. R(g) \cap R(h) = {}
    BY <1>1, <2>1, RegionsApart
  <2> QED BY <1>3, <2>2
<1>6. /\ FlattenSeq(seqs) \in Seq(WriteSet(n)) /\ Spread(FlattenSeq(seqs))
      /\ \A a \in Places(FlattenSeq(seqs)) : \E g \in 1 .. last : a \in Places(seqs[g])
  BY <1>1, <1>3, <1>5, FlattenSpread
<1>7. \A g \in 1 .. last : R(g) \subseteq Region(n, 1 .. last, 0, GdBlocks(n))
  BY DEF Region
<1>8. Places(FlattenSeq(seqs)) \subseteq Region(n, 1 .. last, 0, GdBlocks(n))
  BY <1>3, <1>6, <1>7
<1> QED BY <1>6, <1>8 DEF seqs, last

\* The bitmaps of all groups.
LEMMA BitmapsPart ==
  ASSUME NEW n \in Sizes
  PROVE  LET last == NumGroups(n) - 1
             q == FlattenSeq([g \in 1 .. last + 1 |-> BitmapWrites(n, g - 1)])
         IN  /\ q \in Seq(WriteSet(n)) /\ Spread(q)
             /\ Places(q) \subseteq Region(n, 0 .. last, GdBlocks(n) + 1, GdBlocks(n) + 2)
<1> DEFINE last == NumGroups(n) - 1
           seqs == [g \in 1 .. last + 1 |-> BitmapWrites(n, g - 1)]
           R(g) == Region(n, {g}, GdBlocks(n) + 1, GdBlocks(n) + 2)
<1>1. /\ last \in Nat /\ last + 1 \in Nat /\ GroupsOf(n) = 0 .. last
      /\ GdBlocks(n) + 1 \in Nat /\ GdBlocks(n) + 2 \in Nat
  <2>1. NumGroups(n) \in Nat \ {0} /\ GroupsOf(n) = 0 .. NumGroups(n) - 1
    BY GroupStarts
  <2>2. GdBlocks(n) \in Nat
    BY Parts
  <2> QED BY <2>1, <2>2
<1> HIDE DEF last
<1>2. \A g \in 1 .. last + 1 : g - 1 \in GroupsOf(n)
  BY <1>1
<1>3. /\ seqs \in [1 .. last + 1 -> Seq(WriteSet(n))]
      /\ \A g \in 1 .. last + 1 : Spread(seqs[g]) /\ Places(seqs[g]) \subseteq R(g - 1)
  BY <1>2, BitmapPart
<1>4. \A g \in GroupsOf(n) : GdBlocks(n) + 2 < Overhead(n, g)
  <2> TAKE g \in GroupsOf(n)
  <2>1. Overhead(n, g) = GdBlocks(n) + TableBlocks(n) + (IF g = 0 THEN 4 ELSE 3)
    BY Parts
  <2>2. TableBlocks(n) \in Nat /\ GdBlocks(n) \in Nat
    BY Parts
  <2> QED BY <2>1, <2>2
<1> HIDE DEF seqs
<1>5. ASSUME NEW g \in 1 .. last + 1, NEW h \in 1 .. last + 1, g # h
      PROVE  Places(seqs[g]) \cap Places(seqs[h]) = {}
  <2>1. g - 1 # h - 1
    BY <1>1, <1>5
  <2>2. /\ {g - 1} \in SUBSET GroupsOf(n) /\ {h - 1} \in SUBSET GroupsOf(n)
        /\ {g - 1} \cap {h - 1} = {}
        /\ \A x \in {g - 1} : GdBlocks(n) + 2 < Overhead(n, x)
        /\ \A x \in {h - 1} : GdBlocks(n) + 2 < Overhead(n, x)
    BY <1>2, <1>4, <2>1
  <2>3. R(g - 1) \cap R(h - 1) = {}
    BY <1>1, <2>2, RegionsApart
  <2> QED BY <1>3, <2>3
<1>6. /\ FlattenSeq(seqs) \in Seq(WriteSet(n)) /\ Spread(FlattenSeq(seqs))
      /\ \A a \in Places(FlattenSeq(seqs)) : \E g \in 1 .. last + 1 : a \in Places(seqs[g])
  BY <1>1, <1>3, <1>5, FlattenSpread
<1>7. \A g \in GroupsOf(n) : R(g) \subseteq Region(n, 0 .. last, GdBlocks(n) + 1, GdBlocks(n) + 2)
  BY <1>1 DEF Region
<1>8. Places(FlattenSeq(seqs)) \subseteq Region(n, 0 .. last, GdBlocks(n) + 1, GdBlocks(n) + 2)
  BY <1>2, <1>3, <1>6, <1>7
<1> QED BY <1>6, <1>8 DEF seqs, last

\* The inode table and the root directory.
LEMMA RootPart ==
  ASSUME NEW n \in Sizes
  PROVE  LET v == Write(InodeTable(n, 0), "inodes", 0, n)
             q == <<v, Write(RootDir(n), "rootdir", 0, n)>>
         IN  /\ q \in Seq(WriteSet(n)) /\ Spread(q) /\ Len(q) = 2 /\ q[1] = v
             /\ Places(q) \subseteq
                   Region(n, {0}, GdBlocks(n) + 3, GdBlocks(n) + TableBlocks(n) + 3)
<1> DEFINE v == Write(InodeTable(n, 0), "inodes", 0, n)
           w == Write(RootDir(n), "rootdir", 0, n)
           G == GdBlocks(n)
           T == TableBlocks(n)
<1>1. /\ G \in Nat \ {0} /\ T \in Nat \ {0} /\ Start(n, 0) = 0
      /\ InodeTable(n, 0) = Start(n, 0) + 3 + G /\ RootDir(n) = 3 + G + T
  BY Parts
<1> HIDE DEF G, T
<1>2. v \in WriteSet(n) /\ v.at = G + 3 /\ w \in WriteSet(n) /\ w.at = G + T + 3
  BY <1>1 DEF Write, Tag, WriteSet
<1> HIDE DEF v, w
<1>3. v.at # w.at
  BY <1>1, <1>2
<1>4. /\ <<v, w>> \in Seq(WriteSet(n)) /\ Len(<<v, w>>) = 2 /\ <<v, w>>[1] = v
      /\ Spread(<<v, w>>) /\ Places(<<v, w>>) = {G + 3, G + T + 3}
  BY <1>2, <1>3, TwoWrites
<1>5. \A a \in {G + 3, G + T + 3} : a \in G + 3 .. G + T + 3 /\ a = Start(n, 0) + a
  BY <1>1
<1>6. Places(<<v, w>>) \subseteq Region(n, {0}, G + 3, G + T + 3)
  BY <1>4, <1>5 DEF Region
<1> QED BY <1>4, <1>6 DEF v, w, G, T

\* No two writes of mkfs fall on the same block; the super block is the first, and
\* group 0's descriptors and the inode table are among them.
LEMMA WritesSpread ==
  ASSUME NEW n \in Sizes
  PROVE  /\ Writes(n) \in Seq(WriteSet(n)) /\ Spread(Writes(n)) /\ Len(Writes(n)) \in Nat
         /\ 1 \in 1 .. Len(Writes(n)) /\ Writes(n)[1] = Write(0, "sb", 0, n)
         /\ \E i \in 1 .. Len(Writes(n)) : Writes(n)[i] = Write(1, "gdt", 0, n)
         /\ \E i \in 1 .. Len(Writes(n)) :
               Writes(n)[i] = Write(InodeTable(n, 0), "inodes", 0, n)
<1> DEFINE G == GdBlocks(n)
           T == TableBlocks(n)
           last == NumGroups(n) - 1
           S == WriteSet(n)
           sb == Write(0, "sb", 0, n)
           A == <<sb>>
           B == GdtWrites(n, 0)
           C == FlattenSeq([g \in 1 .. last |-> BackupWrites(n, g)])
           D == FlattenSeq([g \in 1 .. last + 1 |-> BitmapWrites(n, g - 1)])
           v == Write(InodeTable(n, 0), "inodes", 0, n)
           E == <<v, Write(RootDir(n), "rootdir", 0, n)>>
           RA == Region(n, {0}, 0, 0)
           RB == Region(n, {0}, 1, G)
           RC == Region(n, 1 .. last, 0, G)
           RD == Region(n, 0 .. last, G + 1, G + 2)
           RE == Region(n, {0}, G + 3, G + T + 3)
<1>1. Writes(n) = (((A \o B) \o C) \o D) \o E
  <2>1. Cardinality(GroupsOf(n)) = NumGroups(n)
    BY GroupStarts
  <2> QED BY <2>1, Zenon DEF Writes
<1>2. C \in Seq(S) /\ Spread(C) /\ Places(C) \subseteq RC
  BY BackupsPart, Zenon
<1>3. D \in Seq(S) /\ Spread(D) /\ Places(D) \subseteq RD
  BY BitmapsPart, Zenon
<1>4. E \in Seq(S) /\ Spread(E) /\ Places(E) \subseteq RE /\ Len(E) = 2 /\ E[1] = v
  BY RootPart, Zenon
<1>5. last \in Nat /\ GroupsOf(n) = 0 .. last
  <2>1. NumGroups(n) \in Nat \ {0} /\ GroupsOf(n) = 0 .. NumGroups(n) - 1
    BY GroupStarts
  <2> QED BY <2>1
<1>6. /\ G \in Nat \ {0} /\ T \in Nat \ {0} /\ Start(n, 0) = 0
      /\ \A g \in GroupsOf(n) : Overhead(n, g) = G + T + (IF g = 0 THEN 4 ELSE 3)
  BY Parts
<1> HIDE DEF G, T, last, C, D, E, v
<1>7. A \in Seq(S) /\ Spread(A) /\ Places(A) \subseteq RA /\ Len(A) = 1 /\ A[1] = sb
  <2>1. sb \in S /\ sb.at = 0
    BY DEF Write, Tag, WriteSet
  <2>2. 0 \in RA
    <3>1. 0 = Start(n, 0) + 0 /\ 0 \in 0 .. 0
      BY <1>6
    <3> QED BY <3>1 DEF Region
  <2> HIDE DEF sb
  <2>3. A \in Seq(S) /\ Spread(A) /\ Places(A) = {sb.at} /\ Len(A) = 1 /\ A[1] = sb
    BY <2>1, OneWrite
  <2> QED BY <2>1, <2>2, <2>3
<1>8. /\ B \in Seq(S) /\ Spread(B) /\ Places(B) \subseteq RB /\ Len(B) = G
      /\ B[1] = Write(1, "gdt", 0, n)
  <2>1. 0 + 1 = 1 /\ 0 + G = G
    BY <1>6
  <2>2. /\ B \in Seq(S) /\ Spread(B) /\ Places(B) \subseteq 0 + 1 .. 0 + G /\ Len(B) = G
        /\ B[1] = Write(0 + 1, "gdt", 0, n)
    BY GdtPart DEF G
  <2>3. \A a \in 1 .. G : a = Start(n, 0) + a
    BY <1>6
  <2>4. 1 .. G \subseteq RB
    BY <2>3 DEF Region
  <2> QED BY <2>1, <2>2, <2>4
<1> HIDE DEF A, B, S, sb
<1>9. \A g \in GroupsOf(n) : G < Overhead(n, g) /\ G + 2 < Overhead(n, g) /\ 0 < Overhead(n, g)
  <2> TAKE g \in GroupsOf(n)
  <2>1. Overhead(n, g) = G + T + (IF g = 0 THEN 4 ELSE 3)
    BY <1>6
  <2> QED BY <1>6, <2>1
<1>10. /\ {0} \in SUBSET GroupsOf(n) /\ 1 .. last \in SUBSET GroupsOf(n)
       /\ 0 .. last \in SUBSET GroupsOf(n) /\ {0} \cap (1 .. last) = {}
       /\ \A g \in {0} : 0 < Overhead(n, g) /\ G < Overhead(n, g) /\ G + T + 3 < Overhead(n, g)
       /\ \A g \in 1 .. last : G < Overhead(n, g)
       /\ \A g \in 0 .. last : G + 2 < Overhead(n, g)
       /\ 0 \in Nat /\ 1 \in Nat /\ G \in Nat /\ G + 1 \in Nat /\ G + 2 \in Nat
       /\ G + 3 \in Nat /\ G + T + 3 \in Nat
  <2>1. {0} \in SUBSET GroupsOf(n) /\ 1 .. last \in SUBSET GroupsOf(n)
    BY <1>5
  <2>2. 0 .. last \in SUBSET GroupsOf(n) /\ {0} \cap (1 .. last) = {}
    BY <1>5
  <2>3. Overhead(n, 0) = G + T + 4
    BY <1>6, <2>1
  <2>4. 0 < Overhead(n, 0) /\ G < Overhead(n, 0) /\ G + T + 3 < Overhead(n, 0)
    BY <1>6, <2>3
  <2> QED BY <1>6, <1>9, <2>1, <2>2, <2>4
<1>11. 0 < 1 /\ 0 < G + 1 /\ 0 < G + 3 /\ G < G + 1 /\ G < G + 3 /\ G + 2 < G + 3
  BY <1>6
<1>12. RA \cap RB = {} /\ RA \cap RC = {} /\ RA \cap RD = {} /\ RA \cap RE = {}
  <2>1. RA \cap RB = {}
    BY <1>10, <1>11, RegionsApart
  <2>2. RA \cap RC = {}
    BY <1>10, <1>11, RegionsApart
  <2>3. RA \cap RD = {}
    BY <1>10, <1>11, RegionsApart
  <2>4. RA \cap RE = {}
    BY <1>10, <1>11, RegionsApart
  <2> QED BY <2>1, <2>2, <2>3, <2>4
<1>13. RB \cap RC = {} /\ RB \cap RD = {} /\ RB \cap RE = {}
  <2>1. RB \cap RC = {}
    BY <1>10, <1>11, RegionsApart
  <2>2. RB \cap RD = {}
    BY <1>10, <1>11, RegionsApart
  <2>3. RB \cap RE = {}
    BY <1>10, <1>11, RegionsApart
  <2> QED BY <2>1, <2>2, <2>3
<1>14. RC \cap RD = {} /\ RC \cap RE = {} /\ RD \cap RE = {}
  <2>1. RC \cap RD = {}
    BY <1>10, <1>11, RegionsApart
  <2>2. RC \cap RE = {}
    BY <1>10, <1>11, RegionsApart
  <2>3. RD \cap RE = {}
    BY <1>10, <1>11, RegionsApart
  <2> QED BY <2>1, <2>2, <2>3
<1> HIDE DEF RA, RB, RC, RD, RE
<1> DEFINE P == A \o B
           Q == P \o C
           U == Q \o D
           W == U \o E
<1>15. /\ P \in Seq(S) /\ Spread(P) /\ Places(P) \subseteq RA \cup RB /\ Len(P) = 1 + G
       /\ P[1] = sb /\ P[2] = Write(1, "gdt", 0, n)
  <2>1. Places(A) \cap Places(B) = {}
    BY <1>7, <1>8, <1>12
  <2>2. /\ P \in Seq(S) /\ Len(P) = Len(A) + Len(B) /\ Places(P) = Places(A) \cup Places(B)
        /\ \A i \in 1 .. Len(A) : P[i] = A[i]
        /\ \A i \in 1 .. Len(B) : P[Len(A) + i] = B[i]
    <3>1. A \in Seq(S) /\ B \in Seq(S)
      BY <1>7, <1>8
    <3> QED BY <3>1, Joined
  <2>3. Spread(P)
    BY <1>7, <1>8, <2>1, JoinedSpread
  <2> HIDE DEF P
  <2>4. P[1] = sb
    BY <1>7, <2>2
  <2>5. 1 \in 1 .. Len(B) /\ Len(A) + 1 = 2
    BY <1>6, <1>7, <1>8
  <2>6. P[2] = B[1]
    BY <2>2, <2>5
  <2> QED BY <1>7, <1>8, <2>2, <2>3, <2>4, <2>6
<1> HIDE DEF P
<1>16. /\ Q \in Seq(S) /\ Spread(Q) /\ Places(Q) \subseteq RA \cup RB \cup RC
       /\ Len(Q) \in Nat /\ Len(Q) >= 1 + G /\ \A i \in 1 .. 1 + G : Q[i] = P[i]
  <2>1. Places(P) \cap Places(C) = {}
    BY <1>2, <1>12, <1>13, <1>15
  <2>2. /\ Q \in Seq(S) /\ Len(Q) = Len(P) + Len(C) /\ Places(Q) = Places(P) \cup Places(C)
        /\ Len(C) \in Nat /\ \A i \in 1 .. Len(P) : Q[i] = P[i]
    <3>1. P \in Seq(S) /\ C \in Seq(S)
      BY <1>2, <1>15
    <3> QED BY <3>1, Joined
  <2>3. Spread(Q)
    <3>1. P \in Seq(S) /\ C \in Seq(S) /\ Spread(P) /\ Spread(C)
      BY <1>2, <1>15
    <3> QED BY <2>1, <3>1, JoinedSpread
  <2> HIDE DEF Q
  <2> QED BY <1>2, <1>6, <1>15, <2>2, <2>3
<1> HIDE DEF Q
<1>17. /\ U \in Seq(S) /\ Spread(U) /\ Places(U) \subseteq RA \cup RB \cup RC \cup RD
       /\ Len(U) \in Nat /\ Len(U) >= 1 + G /\ \A i \in 1 .. 1 + G : U[i] = P[i]
  <2>1. Places(Q) \cap Places(D) = {}
    BY <1>3, <1>12, <1>13, <1>14, <1>16
  <2>2. /\ U \in Seq(S) /\ Len(U) = Len(Q) + Len(D) /\ Places(U) = Places(Q) \cup Places(D)
        /\ Len(D) \in Nat /\ \A i \in 1 .. Len(Q) : U[i] = Q[i]
    <3>1. Q \in Seq(S) /\ D \in Seq(S)
      BY <1>3, <1>16
    <3> QED BY <3>1, Joined
  <2>3. Spread(U)
    <3>1. Q \in Seq(S) /\ D \in Seq(S) /\ Spread(Q) /\ Spread(D)
      BY <1>3, <1>16
    <3> QED BY <2>1, <3>1, JoinedSpread
  <2> HIDE DEF U
  <2>4. \A i \in 1 .. 1 + G : i \in 1 .. Len(Q)
    BY <1>6, <1>16
  <2> QED BY <1>3, <1>6, <1>16, <2>2, <2>3, <2>4
<1> HIDE DEF U
<1>18. /\ W \in Seq(S) /\ Spread(W) /\ Len(W) \in Nat /\ Len(W) >= 2 + G
       /\ \A i \in 1 .. 1 + G : W[i] = P[i]
       /\ \E i \in 1 .. Len(W) : W[i] = v
  <2>1. Places(U) \cap Places(E) = {}
    BY <1>4, <1>12, <1>13, <1>14, <1>17
  <2>2. /\ W \in Seq(S) /\ Len(W) = Len(U) + Len(E)
        /\ \A i \in 1 .. Len(U) : W[i] = U[i]
        /\ \A i \in 1 .. Len(E) : W[Len(U) + i] = E[i]
    <3>1. U \in Seq(S) /\ E \in Seq(S)
      BY <1>4, <1>17
    <3> QED BY <3>1, Joined
  <2>3. Spread(W)
    <3>1. U \in Seq(S) /\ E \in Seq(S) /\ Spread(U) /\ Spread(E)
      BY <1>4, <1>17
    <3> QED BY <2>1, <3>1, JoinedSpread
  <2> HIDE DEF W
  <2>4. \A i \in 1 .. 1 + G : i \in 1 .. Len(U)
    BY <1>6, <1>17
  <2>5. 1 \in 1 .. Len(E) /\ Len(U) + 1 \in 1 .. Len(W)
    BY <1>4, <1>17, <2>2
  <2>6. W[Len(U) + 1] = v
    BY <1>4, <2>2, <2>5
  <2>7. Len(W) \in Nat /\ Len(W) >= 2 + G
    BY <1>4, <1>6, <1>17, <2>2
  <2>8. \A i \in 1 .. 1 + G : W[i] = P[i]
    BY <1>17, <2>2, <2>4
  <2> QED BY <2>2, <2>3, <2>5, <2>6, <2>7, <2>8
<1> HIDE DEF W
<1>19. 1 \in 1 .. 1 + G /\ 2 \in 1 .. 1 + G /\ 1 \in 1 .. Len(W) /\ 2 \in 1 .. Len(W)
  BY <1>6, <1>18
<1>20. W[1] = sb /\ W[2] = Write(1, "gdt", 0, n)
  BY <1>15, <1>18, <1>19
<1>21. Writes(n) = W
  BY <1>1, Zenon DEF W, U, Q, P
<1> QED BY <1>18, <1>19, <1>20, <1>21 DEF S, sb, v

-----------------------------------------------------------------------------
(* The inductive invariant                                                  *)

Contents ==
    [what : {"blank", "sb", "gdt", "bbmap", "ibmap", "inodes", "rootdir"}, i : Nat, n : Nat]

\* The first m writes of a mkfs for n blocks are on disk d.
Stored(d, n, m) ==
    \A i \in 1 .. m : Writes(n)[i].at \in DOMAIN d /\ d[Writes(n)[i].at] = Writes(n)[i].c

HasSuper(d) == d[0].what = "sb"

\* A disk without a super block is blank, and one with it holds the writes of no
\* other mkfs than the super block's.
OneMake(d) ==
    /\ HasSuper(d) => d[0].n \in Sizes /\ \A b \in DOMAIN d : d[b] = Blank \/ d[b].n = d[0].n
    /\ ~HasSuper(d) => \A b \in DOMAIN d : d[b] = Blank

\* Group 0's descriptor on disk d.
DescOf(d) == IF d[1].what = "gdt" THEN Desc(d[1].n, 0) ELSE NoDesc

DiskInv ==
    /\ Size \in DiskSizes /\ disk \in [0 .. Size - 1 -> Contents] /\ OneMake(disk)
    /\ ~HasSuper(disk) => done = 0
    /\ done \in Nat /\ cut \in BOOLEAN

\* How far a mkfs under way came, what one that ended left, and that the disk
\* has only what such a one left when none was cut short.
FormatInv ==
    /\ pc = "mkfs" =>
          /\ t \in Sizes /\ done = 0 /\ k \in 0 .. Len(Writes(t)) + 1
          /\ k > 1 => HasSuper(disk) /\ disk[0].n = t
          /\ k <= 1 => ~HasSuper(disk)
          /\ Stored(disk, t, k - 1)
    /\ done > 0 => /\ done \in Sizes /\ HasSuper(disk) /\ disk[0].n = done
                   /\ Stored(disk, done, Len(Writes(done)))
    /\ HasSuper(disk) /\ pc # "mkfs" /\ ~cut => done = disk[0].n

MountInv ==
    /\ pc = "reread" => done > 0
    /\ pc \in {"gd", "root", "mounted"} => HasSuper(disk) /\ t = disk[0].n
    /\ pc \in {"root", "mounted"} => 1 \in DOMAIN disk /\ mem = Repaired(DescOf(disk), t)
    /\ pc = "mounted" =>
          root = IF disk[DescOf(disk).itable].what = "inodes" THEN "disk" ELSE "forced"

IInv == DiskInv /\ FormatInv /\ MountInv

LEMMA DescRead == DiskDesc(0) = DescOf(disk)
<1>1. DescsPerBlock \in Nat \ {0}
  BY MkfsAssumption
<1>2. 1 + 0 \div DescsPerBlock = 1
  BY <1>1
<1> QED BY <1>2, Zenon DEF DiskDesc, DescOf

LEMMA SizesPositive == Sizes \subseteq Nat \ {0}
BY MkfsAssumption DEF Sizes

LEMMA InitInv == Init => IInv
<1> SUFFICES ASSUME Init PROVE IInv
  OBVIOUS
<1>1. PICK s \in DiskSizes : disk = [b \in 0 .. s - 1 |-> Blank]
  BY DEF Init
<1>2. s \in Nat \ {0}
  BY MkfsAssumption
<1>3. Size = s
  <2>0. 0 \in Int /\ s - 1 \in Int
    BY <1>2
  <2>1. Cardinality(0 .. s - 1) = IF 0 > s - 1 THEN 0 ELSE (s - 1) - 0 + 1
    BY <2>0, FS_Interval
  <2>2. DOMAIN disk = 0 .. s - 1
    BY <1>1
  <2> QED BY <1>2, <2>1, <2>2 DEF Size
<1>4. Blank \in Contents /\ Blank.what # "sb"
  BY DEF Blank, Contents
<1>5. disk \in [0 .. s - 1 -> Contents] /\ \A b \in DOMAIN disk : disk[b] = Blank
  BY <1>1, <1>4
<1>6. ~HasSuper(disk)
  <2>1. 0 \in DOMAIN disk
    BY <1>1, <1>2
  <2> QED BY <1>4, <1>5, <2>1 DEF HasSuper
<1>7. OneMake(disk)
  BY <1>5, <1>6 DEF OneMake
<1>8. DiskInv
  BY <1>3, <1>5, <1>7 DEF DiskInv, Init
<1>9. FormatInv
  BY <1>6 DEF FormatInv, Init
<1>10. MountInv
  BY DEF MountInv, Init
<1> QED BY <1>8, <1>9, <1>10 DEF IInv

\* One more write of a mkfs: it falls on no earlier one.
LEMMA StoreMore ==
  ASSUME NEW n \in Sizes, NEW z \in Nat \ {0}, NEW d \in [0 .. z - 1 -> Contents], OneMake(d),
         NEW j \in 1 .. Len(Writes(n)), Stored(d, n, j - 1), Writes(n)[j].at < z,
         j > 1 => HasSuper(d) /\ d[0].n = n,
         j <= 1 => ~HasSuper(d)
  PROVE  LET e == [d EXCEPT ![Writes(n)[j].at] = Writes(n)[j].c]
         IN  /\ e \in [0 .. z - 1 -> Contents] /\ OneMake(e)
             /\ HasSuper(e) /\ e[0].n = n /\ Stored(e, n, j)
<1> DEFINE ws == Writes(n)
           w == ws[j]
           e == [d EXCEPT ![w.at] = w.c]
<1>1. ws \in Seq(WriteSet(n)) /\ Spread(ws) /\ Len(ws) \in Nat /\ 1 \in 1 .. Len(ws)
      /\ ws[1] = Write(0, "sb", 0, n)
  BY WritesSpread
<1> HIDE DEF ws
<1>2. n \in Nat \ {0}
  BY SizesPositive
<1>3. w \in WriteSet(n)
  BY <1>1 DEF ws
<1>4. w.at \in Nat /\ w.c \in Contents /\ w.c.n = n
  BY <1>2, <1>3 DEF WriteSet, Contents
<1>5. w.at \in 0 .. z - 1
  BY <1>4 DEF ws
<1>6. ws[1].at = 0 /\ ws[1].c.what = "sb" /\ ws[1].c.n = n
  BY <1>1 DEF Write, Tag
<1> HIDE DEF w
<1>7. e \in [0 .. z - 1 -> Contents] /\ DOMAIN d = 0 .. z - 1 /\ DOMAIN e = 0 .. z - 1
  BY <1>4, <1>5
<1>8. e[w.at] = w.c /\ \A b \in 0 .. z - 1 : b # w.at => e[b] = d[b]
  BY <1>5
<1>e. e = [d EXCEPT ![w.at] = w.c]
  OBVIOUS
<1> HIDE DEF e
<1>9. HasSuper(e) /\ e[0].n = n
  <2>1. CASE j = 1
    <3>1. w.at = 0 /\ w.c.what = "sb"
      BY <1>6, <2>1 DEF w
    <3> QED BY <1>4, <1>8, <3>1 DEF HasSuper
  <2>2. CASE j # 1
    <3>1. j > 1 /\ j \in 1 .. Len(ws)
      BY <1>1, <2>2 DEF ws
    <3>2. w.at # 0
      BY <1>1, <1>6, <2>2, <3>1 DEF Spread, w
    <3>3. e[0] = d[0]
      BY <1>8, <3>2
    <3> QED BY <3>1, <3>3 DEF HasSuper
  <2> QED BY <2>1, <2>2
<1>10. ASSUME NEW b \in DOMAIN e PROVE e[b] = Blank \/ e[b].n = n
  <2>1. CASE b = w.at
    BY <1>4, <1>8, <2>1
  <2>2. CASE b # w.at
    <3>1. e[b] = d[b] /\ b \in DOMAIN d
      BY <1>7, <1>8, <2>2
    <3>2. CASE j > 1
      BY <3>1, <3>2 DEF OneMake
    <3>3. CASE j <= 1
      BY <3>1, <3>3 DEF OneMake
    <3> QED BY <1>1, <3>2, <3>3 DEF ws
  <2> QED BY <2>1, <2>2
<1>11. OneMake(e)
  BY <1>9, <1>10 DEF OneMake
<1>12. Stored(e, n, j)
  <2> SUFFICES ASSUME NEW i \in 1 .. j PROVE ws[i].at \in DOMAIN e /\ e[ws[i].at] = ws[i].c
    BY DEF Stored, ws
  <2>0. j \in 1 .. Len(ws) /\ i \in 1 .. Len(ws)
    BY <1>1 DEF ws
  <2>1. CASE i = j
    BY <1>5, <1>7, <1>8, <2>1 DEF w
  <2>2. CASE i # j
    <3>1. i \in 1 .. j - 1
      BY <2>0, <2>2
    <3>2. ws[i].at \in DOMAIN d /\ d[ws[i].at] = ws[i].c
      BY <3>1 DEF Stored, ws
    <3>3. ws[i].at # w.at
      BY <1>1, <2>0, <2>2 DEF Spread, w
    <3> QED BY <1>7, <1>8, <3>2, <3>3
  <2> QED BY <2>1, <2>2
<1> QED BY <1>7, <1>9, <1>11, <1>12, <1>e DEF w, ws

\* The size mkfs is called with.
LEMMA SizeChosen ==
  ASSUME Size \in DiskSizes, NEW told \in Told
  PROVE  TotalBlocks(told) \in Sizes
BY DEF Told, TotalBlocks, Sizes

\* A boot that fails before mkfs wrote anything, or when it is over.
LEMMA FailInv ==
  ASSUME IInv, Fail, pc # "mkfs" \/ ~HasSuper(disk)
  PROVE  IInv'
<1>1. /\ pc' = "failed" /\ disk' = disk /\ t' = t /\ k' = k /\ mem' = mem /\ root' = root
      /\ done' = done /\ cut' = cut
  BY DEF Fail, Goto
<1>2. Size' = Size
  BY <1>1 DEF Size
<1>3. DiskInv'
  BY <1>1, <1>2 DEF IInv, DiskInv
<1>4. FormatInv'
  BY <1>1 DEF IInv, FormatInv
<1>5. MountInv'
  BY <1>1 DEF MountInv
<1> QED BY <1>3, <1>4, <1>5 DEF IInv

\* A block that is there is in the disk's domain.
LEMMA OnTheDisk ==
  ASSUME IInv
  PROVE  Size \in Nat \ {0} /\ DOMAIN disk = 0 .. Size - 1
BY MkfsAssumption DEF IInv, DiskInv

LEMMA NextInv == IInv /\ [Next]_vars => IInv'
<1> SUFFICES ASSUME IInv, [Next]_vars PROVE IInv'
  OBVIOUS
<1> USE DEF Goto
<1>d. DiskInv /\ FormatInv /\ MountInv
  BY DEF IInv
<1>1. CASE Boot
  <2>1. CASE Reads(0) /\ HasSuper(disk) /\ pc' = "gd" /\ t' = disk[0].n
             /\ UNCHANGED <<disk, mem, root, done, cut>> /\ pc # "mkfs"
    <3>1. DiskInv'
      BY <1>d, <2>1 DEF DiskInv, Size
    <3>2. FormatInv'
      BY <1>d, <2>1 DEF FormatInv
    <3>3. MountInv'
      BY <1>d, <2>1 DEF MountInv
    <3> QED BY <3>1, <3>2, <3>3 DEF IInv
  <2>2. CASE /\ Reads(0) /\ ~HasSuper(disk) /\ pc' = "mkfs" /\ k' = 0
             /\ \E told \in Told : t' = TotalBlocks(told)
             /\ UNCHANGED <<disk, mem, root, done, cut>>
    <3>1. t' \in Sizes
      BY <1>d, <2>2, SizeChosen DEF DiskInv
    <3>2. DiskInv'
      BY <1>d, <2>2 DEF DiskInv, Size
    <3>3. done = 0 /\ k' \in 0 .. Len(Writes(t')) + 1
      <4>1. Len(Writes(t')) \in Nat
        BY <3>1, WritesSpread
      <4> QED BY <1>d, <2>2, <4>1 DEF DiskInv
    <3>4. Stored(disk', t', k' - 1)
      BY <2>2 DEF Stored
    <3>5. FormatInv'
      <4>1. ~(k' > 1) /\ ~(done' > 0) /\ ~HasSuper(disk')
        BY <2>2, <3>3
      <4> QED BY <2>2, <3>1, <3>3, <3>4, <4>1 DEF FormatInv
    <3>6. MountInv'
      BY <2>2 DEF MountInv
    <3> QED BY <3>2, <3>5, <3>6 DEF IInv
  <2>3. CASE Fail
    BY <1>1, <2>3, FailInv DEF Boot
  <2> QED BY <1>1, <2>1, <2>2, <2>3 DEF Boot, HasSuper
<1>2. CASE MkfsRead
  <2>0. pc = "mkfs" /\ k = 0 /\ ~HasSuper(disk)
    BY <1>d, <1>2 DEF MkfsRead, FormatInv
  <2>1. CASE Reads(0) /\ k' = 1 /\ UNCHANGED <<disk, pc, t, mem, root, done, cut>>
    <3>1. DiskInv'
      BY <1>d, <2>1 DEF DiskInv, Size
    <3>2. t \in Sizes /\ done = 0
      BY <1>d, <2>0 DEF FormatInv
    <3>3. Len(Writes(t)) \in Nat
      BY <3>2, WritesSpread
    <3>4. Stored(disk, t, 0)
      BY DEF Stored
    <3>5. FormatInv'
      <4>1. k' - 1 = 0 /\ ~(k' > 1) /\ ~(done' > 0) /\ k' \in 0 .. Len(Writes(t)) + 1
        BY <2>1, <3>2, <3>3
      <4> QED BY <2>0, <2>1, <3>2, <3>4, <4>1 DEF FormatInv
    <3>6. MountInv'
      BY <2>0, <2>1 DEF MountInv
    <3> QED BY <3>1, <3>5, <3>6 DEF IInv
  <2>2. CASE Fail
    BY <2>0, <2>2, FailInv
  <2> QED BY <1>2, <2>1, <2>2 DEF MkfsRead
<1>3. CASE MkfsWrite
  <2> DEFINE w == Writes(t)[k]
             e == [disk EXCEPT ![w.at] = w.c]
  <2>1. /\ pc = "mkfs" /\ k \in 1 .. Len(Writes(t)) /\ t' = t /\ done' = done
        /\ \/ w.at < Size /\ disk' = e /\ k' = k + 1 /\ pc' = pc /\ cut' = cut
           \/ w.at < Size /\ disk' = e /\ k' = k /\ pc' = "failed" /\ cut' = TRUE
           \/ disk' = disk /\ k' = k /\ pc' = "failed" /\ cut' = TRUE
    BY <1>3 DEF MkfsWrite
  <2>2. /\ t \in Sizes /\ done = 0 /\ Stored(disk, t, k - 1)
        /\ k > 1 => HasSuper(disk) /\ disk[0].n = t
        /\ k <= 1 => ~HasSuper(disk)
    BY <1>d, <2>1 DEF FormatInv
  <2>3. Size \in Nat \ {0} /\ disk \in [0 .. Size - 1 -> Contents] /\ OneMake(disk)
    BY <1>d, OnTheDisk DEF DiskInv
  <2>4. Len(Writes(t)) \in Nat
    BY <2>2, WritesSpread
  <2>5. w.at < Size => /\ e \in [0 .. Size - 1 -> Contents] /\ OneMake(e)
                       /\ HasSuper(e) /\ e[0].n = t /\ Stored(e, t, k)
    BY <2>1, <2>2, <2>3, StoreMore
  <2> HIDE DEF e
  <2>6. w.at < Size /\ disk' = e => DiskInv'
    <3> SUFFICES ASSUME w.at < Size, disk' = e PROVE DiskInv'
      OBVIOUS
    <3> HIDE DEF w
    <3>1. DOMAIN disk' = DOMAIN disk
      BY <2>3, <2>5
    <3>2. Size' = Size
      BY <3>1 DEF Size
    <3>3. cut' \in BOOLEAN
      BY <1>d, <2>1 DEF DiskInv
    <3> QED BY <1>d, <2>1, <2>5, <3>2, <3>3 DEF DiskInv
  <2> HIDE DEF w
  <2>7. CASE w.at < Size /\ disk' = e /\ k' = k + 1 /\ pc' = pc /\ cut' = cut
    <3>1. k' \in 0 .. Len(Writes(t)) + 1 /\ k' - 1 = k /\ k' > 1 /\ ~(k' <= 1) /\ ~(done' > 0)
      BY <2>1, <2>2, <2>4, <2>7
    <3>2. FormatInv'
      BY <2>1, <2>2, <2>5, <2>7, <3>1 DEF FormatInv
    <3>3. MountInv'
      BY <2>1, <2>7 DEF MountInv
    <3> QED BY <2>6, <2>7, <3>2, <3>3 DEF IInv
  <2>8. CASE w.at < Size /\ disk' = e /\ k' = k /\ pc' = "failed" /\ cut' = TRUE
    <3>1. ~(done' > 0)
      BY <2>1, <2>2
    <3>2. FormatInv'
      BY <2>8, <3>1 DEF FormatInv
    <3>3. MountInv'
      BY <2>8 DEF MountInv
    <3> QED BY <2>6, <2>8, <3>2, <3>3 DEF IInv
  <2>9. CASE disk' = disk /\ k' = k /\ pc' = "failed" /\ cut' = TRUE
    <3>1. ~(done' > 0)
      BY <2>1, <2>2
    <3>2. FormatInv'
      BY <2>9, <3>1 DEF FormatInv
    <3>3. MountInv'
      BY <2>9 DEF MountInv
    <3>4. DiskInv'
      BY <1>d, <2>1, <2>9 DEF DiskInv, Size
    <3> QED BY <3>2, <3>3, <3>4 DEF IInv
  <2> QED BY <2>1, <2>7, <2>8, <2>9
<1>4. CASE MkfsDone
  <2>1. /\ pc = "mkfs" /\ k > Len(Writes(t)) /\ pc' = "reread" /\ done' = t
        /\ UNCHANGED <<disk, t, k, mem, root, cut>>
    BY <1>4 DEF MkfsDone
  <2>2. /\ t \in Sizes /\ Stored(disk, t, k - 1) /\ k \in 0 .. Len(Writes(t)) + 1
        /\ k > 1 => HasSuper(disk) /\ disk[0].n = t
    BY <1>d, <2>1 DEF FormatInv
  <2>3. Len(Writes(t)) \in Nat /\ 1 \in 1 .. Len(Writes(t))
    BY <2>2, WritesSpread
  <2>4. k > 1 /\ k - 1 = Len(Writes(t))
    BY <2>1, <2>2, <2>3
  <2>5. t \in Nat /\ t > 0
    BY <2>2, SizesPositive
  <2>6. DiskInv'
    BY <1>d, <2>1, <2>2, <2>4, <2>5 DEF DiskInv, Size
  <2>7. FormatInv'
    BY <2>1, <2>2, <2>4 DEF FormatInv
  <2>8. MountInv'
    BY <2>1, <2>5 DEF MountInv
  <2> QED BY <2>6, <2>7, <2>8 DEF IInv
<1>5. CASE Reread
  <2>1. CASE /\ pc = "reread" /\ pc' = "gd" /\ t' = disk[0].n
             /\ UNCHANGED <<disk, k, mem, root, done, cut>>
    <3>1. HasSuper(disk)
      BY <1>d, <2>1 DEF FormatInv, MountInv
    <3>2. DiskInv'
      BY <1>d, <2>1 DEF DiskInv, Size
    <3>3. FormatInv'
      BY <1>d, <2>1 DEF FormatInv
    <3>4. MountInv'
      BY <2>1, <3>1 DEF MountInv
    <3> QED BY <3>2, <3>3, <3>4 DEF IInv
  <2>2. CASE pc = "reread" /\ Fail
    BY <2>2, FailInv
  <2> QED BY <1>5, <2>1, <2>2 DEF Reread
<1>6. CASE MountGd
  <2>1. CASE /\ pc = "gd" /\ Reads(1) /\ mem' = Repaired(DiskDesc(0), t) /\ pc' = "root"
             /\ UNCHANGED <<disk, t, k, root, done, cut>>
    <3>1. 1 \in DOMAIN disk
      BY <2>1, OnTheDisk DEF Reads
    <3>2. mem' = Repaired(DescOf(disk), t)
      BY <2>1, DescRead
    <3>3. DiskInv'
      BY <1>d, <2>1 DEF DiskInv, Size
    <3>4. FormatInv'
      BY <1>d, <2>1 DEF FormatInv
    <3>5. HasSuper(disk) /\ t = disk[0].n
      BY <1>d, <2>1 DEF MountInv
    <3>6. MountInv'
      BY <2>1, <3>1, <3>2, <3>5 DEF MountInv
    <3> QED BY <3>3, <3>4, <3>6 DEF IInv
  <2>2. CASE pc = "gd" /\ Fail
    BY <2>2, FailInv
  <2> QED BY <1>6, <2>1, <2>2 DEF MountGd
<1>7. CASE MountRoot
  <2> DEFINE b == DescOf(disk).itable
  <2>0. DiskDesc(0).itable = b
    BY DescRead
  <2>1. CASE /\ pc = "root" /\ pc' = "mounted"
             /\ root' = IF disk[b].what = "inodes" THEN "disk" ELSE "forced"
             /\ UNCHANGED <<disk, t, k, mem, done, cut>>
    <3>1. DiskInv'
      BY <1>d, <2>1 DEF DiskInv, Size
    <3>2. FormatInv'
      BY <1>d, <2>1 DEF FormatInv
    <3>3. /\ HasSuper(disk) /\ t = disk[0].n
          /\ 1 \in DOMAIN disk /\ mem = Repaired(DescOf(disk), t)
      BY <1>d, <2>1 DEF MountInv
    <3>4. MountInv'
      BY <2>1, <3>3 DEF MountInv
    <3> QED BY <3>1, <3>2, <3>4 DEF IInv
  <2>2. CASE pc = "root" /\ Fail
    BY <2>2, FailInv
  <2> HIDE DEF b
  <2> QED BY <1>7, <2>0, <2>1, <2>2 DEF MountRoot
<1>8. CASE PowerOff
  <2>1. /\ pc' = "off" /\ cut' = (cut \/ pc = "mkfs") /\ UNCHANGED <<disk, t, k, done>>
    BY <1>8 DEF PowerOff
  <2>2. DiskInv'
    <3>1. Size' = Size /\ cut' \in BOOLEAN
      BY <2>1 DEF Size
    <3> QED BY <1>d, <2>1, <3>1 DEF DiskInv
  <2>3. FormatInv'
    <3>1. ~cut' => ~cut /\ pc # "mkfs"
      BY <2>1
    <3> QED BY <1>d, <2>1, <3>1 DEF FormatInv
  <2>4. MountInv'
    BY <2>1 DEF MountInv
  <2> QED BY <2>2, <2>3, <2>4 DEF IInv
<1>9. CASE UNCHANGED vars
  <2>1. /\ disk' = disk /\ pc' = pc /\ t' = t /\ k' = k /\ mem' = mem /\ root' = root
        /\ done' = done /\ cut' = cut
    BY <1>9 DEF vars
  <2>2. DiskInv'
    BY <1>d, <2>1 DEF DiskInv, Size
  <2>3. FormatInv'
    BY <1>d, <2>1 DEF FormatInv
  <2>4. MountInv'
    BY <1>d, <2>1 DEF MountInv
  <2> QED BY <2>2, <2>3, <2>4 DEF IInv
<1> QED BY <1>1, <1>2, <1>3, <1>4, <1>5, <1>6, <1>7, <1>8, <1>9 DEF Next

LEMMA AlwaysInv == Spec => []IInv
<1>1. Init => IInv
  BY InitInv
<1>2. IInv /\ [Next]_vars => IInv'
  BY NextInv
<1> QED BY <1>1, <1>2, PTL DEF Spec

-----------------------------------------------------------------------------
\* A mkfs that reported success left every one of its writes on the disk, none on
\* another; in every group the metadata is marked in the bitmap and nothing else,
\* and the descriptor counts the clear bits (ext4_mkfs).
THEOREM FormatSoundHolds == Spec => []FormatSound
<1>1. IInv => FormatSound
  <2> SUFFICES ASSUME IInv, done > 0 PROVE FormatSound
    BY DEF FormatSound
  <2>1. done \in Sizes /\ Stored(disk, done, Len(Writes(done)))
    BY DEF IInv, FormatInv
  <2>2. \A i \in 1 .. Len(Writes(done)) : disk[Writes(done)[i].at] = Writes(done)[i].c
    BY <2>1 DEF Stored
  <2>3. \A g \in GroupsOf(done) :
           LET inside == {b - Start(done, g) : b \in Metadata(done, g)}
                             \cap (0 .. GroupLen(done, g) - 1)
               clear == (0 .. MaxPerGroup - 1) \ BlockBits(done, g)
           IN  /\ inside = BlockBits(done, g) \cap (0 .. GroupLen(done, g) - 1)
               /\ Desc(done, g).bfree = Cardinality(clear)
               /\ Cardinality(Metadata(done, g)) = Overhead(done, g)
    BY <2>1, GroupLayout, Zenon
  <2> QED BY <2>2, <2>3, Zenon DEF FormatSound
<1> QED BY <1>1, AlwaysInv, PTL

\* The layout a mount rebuilds is mkfs's, and its counts are when they are not zero.
LEMMA RepairedLayout ==
  ASSUME NEW n \in Sizes
  PROVE  /\ \A d \in {NoDesc, Desc(n, 0)} :
               /\ Repaired(d, n).bbmap = Desc(n, 0).bbmap
               /\ Repaired(d, n).ibmap = Desc(n, 0).ibmap
               /\ Repaired(d, n).itable = Desc(n, 0).itable
         /\ Repaired(Desc(n, 0), n).bfree = Desc(n, 0).bfree \/ Desc(n, 0).bfree = 0
         /\ Repaired(Desc(n, 0), n).ifree = Desc(n, 0).ifree \/ Desc(n, 0).ifree = 0
<1> DEFINE d == Desc(n, 0)
<1>1. /\ GdBlocks(n) \in Nat /\ Start(n, 0) = 0 /\ 0 \in GroupsOf(n)
      /\ BlockBitmap(n, 0) = Start(n, 0) + 1 + GdBlocks(n)
      /\ InodeBitmap(n, 0) = Start(n, 0) + 2 + GdBlocks(n)
      /\ InodeTable(n, 0) = Start(n, 0) + 3 + GdBlocks(n)
  BY Parts
<1>2. /\ d.bbmap = 1 + GdBlocks(n) /\ d.ibmap = 2 + GdBlocks(n) /\ d.itable = 3 + GdBlocks(n)
  BY <1>1 DEF Desc
<1>3. /\ Rebuilt(n).bbmap = d.bbmap /\ Rebuilt(n).ibmap = d.ibmap /\ Rebuilt(n).itable = d.itable
  BY <1>1, <1>2 DEF Rebuilt
<1>4. d.bfree \in Nat
  BY <1>1, GroupLayout
<1>5. d.ifree \in Nat
  <2>1. PerGroup(n) \in Nat \ {0}
    BY GroupStarts
  <2>2. d.ifree = PerGroup(n) - ReservedInodes(n)
    BY DEF Desc
  <2> QED BY <2>1, <2>2 DEF ReservedInodes
<1>6. NoDesc.itable = 0
  BY DEF NoDesc
<1> HIDE DEF d
<1>7. ASSUME NEW c
      PROVE  /\ Repaired(c, n).bbmap = IF c.itable = 0 \/ c.itable >= n THEN Rebuilt(n).bbmap ELSE c.bbmap
             /\ Repaired(c, n).ibmap = IF c.itable = 0 \/ c.itable >= n THEN Rebuilt(n).ibmap ELSE c.ibmap
             /\ Repaired(c, n).itable = IF c.itable = 0 \/ c.itable >= n THEN Rebuilt(n).itable ELSE c.itable
             /\ c.bfree > 0 => Repaired(c, n).bfree = c.bfree
             /\ c.ifree > 0 => Repaired(c, n).ifree = c.ifree
  BY DEF Repaired
<1>8. \A c \in {NoDesc, d} : /\ Repaired(c, n).bbmap = d.bbmap
                             /\ Repaired(c, n).ibmap = d.ibmap
                             /\ Repaired(c, n).itable = d.itable
  BY <1>3, <1>6, <1>7
<1>9. /\ Repaired(d, n).bfree = d.bfree \/ d.bfree = 0
      /\ Repaired(d, n).ifree = d.ifree \/ d.ifree = 0
  <2>1. (d.bfree > 0 \/ d.bfree = 0) /\ (d.ifree > 0 \/ d.ifree = 0)
    BY <1>4, <1>5
  <2> QED BY <1>7, <2>1
<1> QED BY <1>8, <1>9 DEF d

\* What is mounted is what mkfs made: the bitmaps and the inode table are where it
\* put them, on a half-formatted disk too; and if no mkfs was cut short, the disk is
\* completely formatted, the root directory's inode is the one on it, and the
\* counts are mkfs's but for a count of zero (ext4_fill_super).
THEOREM MountSoundHolds == Spec => []MountSound
<1>1. IInv => MountSound
  <2> SUFFICES ASSUME IInv, pc = "mounted" PROVE MountSound
    BY DEF MountSound
  <2> DEFINE c == DescOf(disk)
             d == Desc(t, 0)
  <2>1. /\ HasSuper(disk) /\ t = disk[0].n /\ 1 \in DOMAIN disk /\ mem = Repaired(c, t)
        /\ root = IF disk[c.itable].what = "inodes" THEN "disk" ELSE "forced"
    BY DEF IInv, MountInv
  <2>2. t \in Sizes /\ (disk[1] = Blank \/ disk[1].n = t)
    BY <2>1 DEF IInv, DiskInv, OneMake
  <2>3. c \in {NoDesc, d}
    <3>1. CASE disk[1] = Blank
      <4>1. disk[1].what # "gdt"
        BY <3>1 DEF Blank
      <4> QED BY <4>1, Zenon DEF DescOf
    <3>2. CASE disk[1].n = t
      BY <3>2, Zenon DEF DescOf
    <3> QED BY <2>2, <3>1, <3>2
  <2>4. mem.bbmap = d.bbmap /\ mem.ibmap = d.ibmap /\ mem.itable = d.itable
    <3> HIDE DEF c, d
    <3>1. \A x \in {NoDesc, d} : /\ Repaired(x, t).bbmap = d.bbmap
                                 /\ Repaired(x, t).ibmap = d.ibmap
                                 /\ Repaired(x, t).itable = d.itable
      BY <2>2, RepairedLayout DEF d
    <3> QED BY <2>1, <2>3, <3>1
  <2>5. ASSUME ~cut
        PROVE  /\ done = t /\ root = "disk"
               /\ mem.bfree = d.bfree \/ d.bfree = 0
               /\ mem.ifree = d.ifree \/ d.ifree = 0
    <3>1. done = t /\ t > 0
      <4>1. done = t
        BY <2>1, <2>5 DEF IInv, FormatInv
      <4>2. t > 0
        BY <2>2, SizesPositive
      <4> QED BY <4>1, <4>2
    <3>2. Stored(disk, t, Len(Writes(t)))
      BY <3>1 DEF IInv, FormatInv
    <3>3. PICK i \in 1 .. Len(Writes(t)) : Writes(t)[i] = Write(1, "gdt", 0, t)
      BY <2>2, WritesSpread
    <3>4. PICK j \in 1 .. Len(Writes(t)) : Writes(t)[j] = Write(InodeTable(t, 0), "inodes", 0, t)
      BY <2>2, WritesSpread
    <3>5. disk[1] = Tag("gdt", 0, t)
      <4>1. Writes(t)[i].at = 1 /\ Writes(t)[i].c = Tag("gdt", 0, t)
        BY <3>3 DEF Write
      <4>2. disk[Writes(t)[i].at] = Writes(t)[i].c
        BY <3>2 DEF Stored
      <4> QED BY <4>1, <4>2
    <3>6. disk[InodeTable(t, 0)] = Tag("inodes", 0, t)
      <4>1. Writes(t)[j].at = InodeTable(t, 0) /\ Writes(t)[j].c = Tag("inodes", 0, t)
        BY <3>4 DEF Write
      <4>2. disk[Writes(t)[j].at] = Writes(t)[j].c
        BY <3>2 DEF Stored
      <4> QED BY <4>1, <4>2
    <3>7. c = d
      <4>1. disk[1].what = "gdt" /\ disk[1].n = t
        BY <3>5 DEF Tag
      <4> QED BY <4>1, Zenon DEF DescOf
    <3>8. root = "disk"
      <4>1. d.itable = InodeTable(t, 0)
        BY DEF Desc
      <4>2. disk[InodeTable(t, 0)].what = "inodes"
        BY <3>6 DEF Tag
      <4> HIDE DEF c, d
      <4> QED BY <2>1, <3>7, <4>1, <4>2
    <3>9. /\ mem.bfree = d.bfree \/ d.bfree = 0
          /\ mem.ifree = d.ifree \/ d.ifree = 0
      <4> HIDE DEF c
      <4>1. mem = Repaired(d, t)
        BY <2>1, <3>7
      <4> QED BY <2>2, <4>1, RepairedLayout
    <3> QED BY <3>1, <3>8, <3>9
  <2> HIDE DEF d
  <2>6. MountSound <=>
          (pc = "mounted" =>
             /\ mem.bbmap = d.bbmap /\ mem.ibmap = d.ibmap /\ mem.itable = d.itable
             /\ ~cut => /\ done = t /\ root = "disk"
                        /\ mem.bfree = d.bfree \/ d.bfree = 0
                        /\ mem.ifree = d.ifree \/ d.ifree = 0)
    BY Zenon DEF MountSound, d
  <2> QED BY <2>4, <2>5, <2>6
<1> QED BY <1>1, AlwaysInv, PTL
=============================================================================
