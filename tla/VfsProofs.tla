----------------------------- MODULE VfsProofs -----------------------------
(***************************************************************************)
(* Proofs about the VFS layer, for every size of the pools and every set of *)
(* paths.                                                                   *)
(*                                                                          *)
(* The references on a dentry are those of its children and others, which   *)
(* Outer counts.  Every dget and dput moves Outer by one at one dentry, and *)
(* the invariant Core bounds it by the holders that outlive a call (Ext).   *)
(* Good adds to Core what holds while no call went astray: that the cache   *)
(* agrees with the disk, and the disk with itself.                          *)
(* A lookup can be undone: one dput of the dentry it reached gives back the *)
(* memory it began with (WalkInv), so each call is judged from there.       *)
(***************************************************************************)
EXTENDS Vfs, SumProofs

\* What callers of open and creat do: they never open "/" or "" (a descriptor for
\* which no reference is taken).
Callers == \A p \in OpenPaths \cup CreatePaths : p.comps # << >>

\* Paths on which every call drops the references it takes: open with O_CREAT
\* and mkdir leak the parent they look up, and chdir leaks a root reached by
\* a path.
Balanced == /\ \A p \in CreatePaths \cup MkdirPaths : Len(p.comps) = 1
            /\ \A p \in OtherPaths : p.comps # << >> => Last(p.comps) \in Names

One(x, y) == IF x = y THEN 1 ELSE 0
Kids(s, x) == {y \in Dentries \ {Root} : s.d[y].used /\ s.d[y].parent = x}
FdsOn(f, x) == {y \in Fds : f[y].used /\ f[y].dentry = x}

\* References on x that are not those of its children.
Outer(s, x) == s.d[x].count - Cardinality(Kids(s, x))
Ext(c, f, x) == One(Root, x) + One(c, x) + Cardinality(FdsOn(f, x))

DentryType == [used : BOOLEAN, count : Nat, parent : Dentries \cup {Null},
               name : Components, inode : Inodes \cup {Null}, listed : BOOLEAN]
InodeType == [used : BOOLEAN, count : Nat, ino : Inos \cup {Null},
              kind : {"free", "dir", "file"}]
MemType == [d : [Dentries -> DentryType], i : [Inodes -> InodeType]]
FdType == [used : BOOLEAN, dentry : Dentries \cup {Null}, inode : Inodes \cup {Null}]
DiskType == [dir : [Inos -> Seq({Hole} \cup [name : Components, ino : Inos])],
             kind : [Inos -> {"free", "dir", "file"}]]

DentriesOK(s) ==
    \A x \in Dentries :
        /\ IF s.d[x].used THEN s.d[x].count >= 1 ELSE s.d[x] = FreeDentry
        /\ s.d[x].used /\ x # Root => s.d[x].parent \in Dentries \ {x}
        /\ x # Root => (s.d[x].listed <=> s.d[x].inode # Null)
        /\ s.d[x].inode # Null => s.i[s.d[x].inode].used
InodesOK(s) ==
    \A n \in Inodes :
        IF s.i[n].used THEN s.i[n].count = 2 /\ s.i[n].ino \in Inos /\ s.i[n].kind # "free"
                       ELSE s.i[n] = FreeInode
RootOK(s) ==
    /\ s.d[Root].used /\ s.d[Root].parent = Root /\ s.d[Root].name = Dot
    /\ ~s.d[Root].listed /\ s.d[Root].inode # Null
    /\ InoOf(s, Root) = RootIno /\ KindOf(s, Root) = "dir"
CountsOK(s) == \A x \in Dentries : Outer(s, x) >= One(Root, x)
OwnInodes(s) ==
    \A x, y \in Dentries : x # y /\ s.d[x].inode # Null => s.d[x].inode # s.d[y].inode
NoOrphan(s) ==
    ~FsFails => \A n \in Inodes : s.i[n].used => \E x \in Dentries : s.d[x].inode = n

SInv(s) == /\ s \in MemType /\ DentriesOK(s) /\ InodesOK(s) /\ RootOK(s)
           /\ CountsOK(s) /\ OwnInodes(s) /\ NoOrphan(s)

EInv(dk) ==
    /\ dk \in DiskType
    /\ \A o \in Inos : \A j, k \in DOMAIN dk.dir[o] :
          dk.dir[o][j] # Hole /\ dk.dir[o][j].name = dk.dir[o][k].name => j = k
    /\ \A o, q \in Inos : \A j \in DOMAIN dk.dir[o], k \in DOMAIN dk.dir[q] :
          dk.dir[o][j] # Hole /\ dk.dir[o][j].ino = dk.dir[q][k].ino => o = q /\ j = k
    /\ \A o \in Inos : \A j \in DOMAIN dk.dir[o] :
          dk.dir[o][j] # Hole => /\ dk.dir[o][j].name \in Names
                                 /\ dk.kind[dk.dir[o][j].ino] # "free"
                                 /\ dk.dir[o][j].ino # RootIno /\ dk.kind[o] = "dir"
    /\ dk.kind[RootIno] = "dir"

Has(dk, dir, name, ino) ==
    \E k \in DOMAIN dk.dir[dir] : dk.dir[dir][k] = [name |-> name, ino |-> ino]

CInv(s, dk) ==
    /\ \A x \in Dentries : s.d[x].listed =>
          /\ s.d[s.d[x].parent].inode # Null
          /\ Has(dk, InoOf(s, s.d[x].parent), s.d[x].name, InoOf(s, x))
          /\ dk.kind[InoOf(s, x)] = KindOf(s, x)
    /\ \A x, y \in Dentries :
          x # y /\ s.d[x].inode # Null /\ s.d[y].inode # Null => InoOf(s, x) # InoOf(s, y)

CwdInv(s, c) == c # Null => c \in Dentries /\ s.d[c].inode # Null /\ KindOf(s, c) = "dir"
FdsInv(s, f) ==
    /\ f \in [Fds -> FdType]
    /\ \A y \in Fds : f[y].used =>
          /\ f[y].dentry \in Dentries
          /\ s.d[f[y].dentry].inode # Null => f[y].inode = s.d[f[y].dentry].inode

\* What every state satisfies, and what only those without a call gone astray do.
Core(s, c, f, dk) ==
    /\ SInv(s) /\ CwdInv(s, c) /\ FdsInv(s, f) /\ dk \in DiskType
    /\ \A x \in Dentries : Outer(s, x) >= Ext(c, f, x)
Good(s, c, f, dk) == Core(s, c, f, dk) /\ CInv(s, dk) /\ EInv(dk)

Exact(s, c, f) == \A x \in Dentries : Outer(s, x) = Ext(c, f, x)

-----------------------------------------------------------------------------
\* The numbers and names that the pools are made of.
LEMMA Basics ==
  /\ NDentries \in Nat /\ NInodes \in Nat /\ NFds \in Nat
  /\ Root \in Dentries /\ Null \notin Dentries /\ Null \notin Inodes
  /\ Dentries \subseteq Nat /\ Inodes \subseteq Nat /\ Fds \subseteq Nat
  /\ RootIno \in Inos /\ Null \notin Inos /\ 1 \in Inodes
  /\ Dot \notin Names /\ DotDot \notin Names /\ Dot # DotDot
<1>1. Dot \notin Names /\ DotDot \notin Names
  BY VfsAssumption
<1>2. Dot # DotDot
  BY DEF Dot, DotDot
<1>3. RootIno \in Inos /\ Null \notin Inos
  BY VfsAssumption DEF RootIno, Inos, Null
<1> QED BY <1>1, <1>2, <1>3, VfsAssumption DEF Root, Dentries, Inodes, Fds, Null

\* A set of numbers has its least one.
LEMMA MinIsIn ==
  ASSUME NEW S \in SUBSET Nat, S # {}
  PROVE  Min(S) \in S /\ \A x \in S : Min(S) <= x
<1>1. \E n \in S : \A m \in S : n <= m
  BY LeastNumber
<1> QED BY <1>1 DEF Min

\* An allocation finds a free slot when there is one.
LEMMA FreeSlot ==
  ASSUME NEW pool, DOMAIN pool \subseteq Nat, Null \notin DOMAIN pool
  PROVE  /\ LowestFree(pool) # Null =>
              LowestFree(pool) \in DOMAIN pool /\ ~pool[LowestFree(pool)].used
         /\ LowestFree(pool) = Null <=> \A x \in DOMAIN pool : pool[x].used
<1> DEFINE free == {x \in DOMAIN pool : ~pool[x].used}
<1>1. LowestFree(pool) = IF free = {} THEN Null ELSE Min(free)
  BY DEF LowestFree
<1>2. free \in SUBSET Nat
  OBVIOUS
<1>3. CASE free = {}
  BY <1>1, <1>3
<1>4. CASE free # {}
  <2>1. Min(free) \in free
    <3> HIDE DEF free
    <3> QED BY <1>2, <1>4, MinIsIn
  <2> QED BY <1>1, <1>4, <2>1
<1> QED BY <1>3, <1>4

LEMMA KidsFinite ==
  ASSUME NEW s, NEW x
  PROVE  /\ IsFiniteSet(Kids(s, x)) /\ Cardinality(Kids(s, x)) \in Nat
         /\ Kids(s, x) \in SUBSET Dentries
<1>1. IsFiniteSet(Dentries)
  <2>1. 1 \in Int /\ NDentries \in Int
    BY Basics
  <2> QED BY <2>1, FS_Interval DEF Dentries
<1>2. Kids(s, x) \in SUBSET Dentries
  BY DEF Kids
<1>3. IsFiniteSet(Kids(s, x))
  BY <1>1, <1>2, FS_Subset
<1> QED BY <1>2, <1>3, FS_CardinalityType

LEMMA OuterIsInt ==
  ASSUME NEW s \in MemType, NEW x \in Dentries
  PROVE  Outer(s, x) \in Int /\ s.d[x].count \in Nat /\ Outer(s, x) <= s.d[x].count
<1>1. Cardinality(Kids(s, x)) \in Nat
  BY KidsFinite
<1>2. s.d[x].count \in Nat
  BY DEF MemType, DentryType
<1> QED BY <1>1, <1>2 DEF Outer

\* Two memories with the same fields in every slot are the same.
LEMMA SameMemory ==
  ASSUME NEW s \in MemType, NEW t \in MemType,
         \A x \in Dentries :
            /\ s.d[x].used = t.d[x].used /\ s.d[x].count = t.d[x].count
            /\ s.d[x].parent = t.d[x].parent /\ s.d[x].name = t.d[x].name
            /\ s.d[x].inode = t.d[x].inode /\ s.d[x].listed = t.d[x].listed,
         \A n \in Inodes : s.i[n] = t.i[n]
  PROVE  s = t
<1>1. \A x \in Dentries : s.d[x] \in DentryType /\ t.d[x] \in DentryType
  BY DEF MemType
<1>2. \A x \in Dentries : s.d[x] = t.d[x]
  BY <1>1 DEF DentryType
<1>3. s.d = t.d
  BY <1>2 DEF MemType
<1>4. s.i = t.i
  BY DEF MemType
<1> QED BY <1>3, <1>4 DEF MemType
-----------------------------------------------------------------------------
(* Steps that only count: dget, and a dput that leaves a reference.         *)

Drop(s, x) == [s EXCEPT !.d[x].count = @ - 1]

Recount(s, t) ==
    /\ t \in MemType /\ t.i = s.i
    /\ \A y \in Dentries :
          /\ t.d[y].used = s.d[y].used /\ t.d[y].parent = s.d[y].parent
          /\ t.d[y].name = s.d[y].name /\ t.d[y].inode = s.d[y].inode
          /\ t.d[y].listed = s.d[y].listed
          /\ ~s.d[y].used => t.d[y] = s.d[y]
          /\ s.d[y].count >= 1 => t.d[y].count >= 1

\* What is left after dentries and inodes were released.
Shrunk(s, t) ==
    /\ \A y \in Dentries : t.d[y].used =>
          /\ s.d[y].used /\ t.d[y].parent = s.d[y].parent /\ t.d[y].name = s.d[y].name
          /\ t.d[y].inode = s.d[y].inode /\ t.d[y].listed = s.d[y].listed
    /\ \A n \in Inodes : t.i[n].used => t.i[n] = s.i[n]

LEMMA ShrunkTrans ==
  ASSUME NEW s, NEW t, NEW u, Shrunk(s, t), Shrunk(t, u)
  PROVE  Shrunk(s, u)
BY DEF Shrunk

LEMMA KidsSame ==
  ASSUME NEW s, NEW t, NEW x,
         \A y \in Dentries : t.d[y].used = s.d[y].used /\ t.d[y].parent = s.d[y].parent
  PROVE  Kids(t, x) = Kids(s, x)
BY DEF Kids

LEMMA DgetCounts ==
  ASSUME NEW s \in MemType, NEW x \in Dentries, s.d[x].used
  PROVE  /\ Recount(s, Dget(s, x))
         /\ \A y \in Dentries : Dget(s, x).d[y].count = s.d[y].count + One(x, y)
         /\ \A y \in Dentries : Outer(Dget(s, x), y) = Outer(s, y) + One(x, y)
<1> DEFINE t == Dget(s, x)
           e == [s.d[x] EXCEPT !.count = @ + 1]
<1>0. t = [d |-> [s.d EXCEPT ![x] = e], i |-> s.i]
  BY DEF MemType, Dget
<1>1. /\ t.i = s.i /\ t.d = [s.d EXCEPT ![x] = e]
      /\ \A y \in Dentries : y # x => t.d[y] = s.d[y]
      /\ t.d[x] = [s.d[x] EXCEPT !.count = @ + 1]
  BY <1>0 DEF MemType
<1>2. s.d[x] \in DentryType
  BY DEF MemType
<1>3. t.d[x] \in DentryType /\ t.d[x].count = s.d[x].count + 1
  BY <1>1, <1>2 DEF DentryType
<1>3a. /\ t.d[x].used = s.d[x].used /\ t.d[x].parent = s.d[x].parent
       /\ t.d[x].name = s.d[x].name /\ t.d[x].inode = s.d[x].inode
       /\ t.d[x].listed = s.d[x].listed
  BY <1>1, <1>2 DEF DentryType
<1> HIDE DEF t
<1>4. t \in MemType
  <2>1. e \in DentryType
    BY <1>1, <1>3
  <2> HIDE DEF e
  <2> QED BY <1>0, <2>1 DEF MemType
<1>3b. t.d[x].count >= 1
  BY <1>2, <1>3 DEF DentryType
<1>5. Recount(s, t)
  BY <1>1, <1>3a, <1>3b, <1>4 DEF Recount
<1>6. \A y \in Dentries : t.d[y].count = s.d[y].count + One(x, y)
  BY <1>1, <1>3 DEF One, MemType, DentryType
<1>7. ASSUME NEW y \in Dentries PROVE Outer(t, y) = Outer(s, y) + One(x, y)
  <2>1. Kids(t, y) = Kids(s, y)
    BY <1>5, KidsSame DEF Recount
  <2>2. Cardinality(Kids(s, y)) \in Nat /\ s.d[y].count \in Nat
    BY KidsFinite DEF MemType, DentryType
  <2> QED BY <1>6, <2>1, <2>2 DEF Outer, One
<1> QED BY <1>5, <1>6, <1>7 DEF t

LEMMA DropCounts ==
  ASSUME NEW s \in MemType, NEW x \in Dentries, s.d[x].used, s.d[x].count > 1
  PROVE  /\ Recount(s, Drop(s, x))
         /\ \A y \in Dentries : Drop(s, x).d[y].count = s.d[y].count - One(x, y)
         /\ \A y \in Dentries : Outer(Drop(s, x), y) = Outer(s, y) - One(x, y)
<1> DEFINE t == Drop(s, x)
           e == [s.d[x] EXCEPT !.count = @ - 1]
<1>0. t = [d |-> [s.d EXCEPT ![x] = e], i |-> s.i]
  BY DEF MemType, Drop
<1>1. /\ t.i = s.i /\ t.d = [s.d EXCEPT ![x] = e]
      /\ \A y \in Dentries : y # x => t.d[y] = s.d[y]
      /\ t.d[x] = [s.d[x] EXCEPT !.count = @ - 1]
  BY <1>0 DEF MemType
<1>2. s.d[x] \in DentryType
  BY DEF MemType
<1>3. t.d[x] \in DentryType /\ t.d[x].count = s.d[x].count - 1
  BY <1>1, <1>2 DEF DentryType
<1>3a. /\ t.d[x].used = s.d[x].used /\ t.d[x].parent = s.d[x].parent
       /\ t.d[x].name = s.d[x].name /\ t.d[x].inode = s.d[x].inode
       /\ t.d[x].listed = s.d[x].listed
  BY <1>1, <1>2 DEF DentryType
<1> HIDE DEF t
<1>4. t \in MemType
  <2>1. e \in DentryType
    BY <1>1, <1>3
  <2> HIDE DEF e
  <2> QED BY <1>0, <2>1 DEF MemType
<1>3b. t.d[x].count >= 1
  BY <1>2, <1>3 DEF DentryType
<1>5. Recount(s, t)
  BY <1>1, <1>3a, <1>3b, <1>4 DEF Recount
<1>6. \A y \in Dentries : t.d[y].count = s.d[y].count - One(x, y)
  BY <1>1, <1>3 DEF One, MemType, DentryType
<1>7. ASSUME NEW y \in Dentries PROVE Outer(t, y) = Outer(s, y) - One(x, y)
  <2>1. Kids(t, y) = Kids(s, y)
    BY <1>5, KidsSame DEF Recount
  <2>2. Cardinality(Kids(s, y)) \in Nat /\ s.d[y].count \in Nat
    BY KidsFinite DEF MemType, DentryType
  <2> QED BY <1>6, <2>1, <2>2 DEF Outer, One
<1> QED BY <1>5, <1>6, <1>7 DEF t

\* Counting keeps every invariant but the one about the counts.
LEMMA RecountKeeps ==
  ASSUME NEW s, NEW t, SInv(s), Recount(s, t), CountsOK(t)
  PROVE  SInv(t) /\ Shrunk(s, t) /\ Shrunk(t, s) /\ \A dk : CInv(s, dk) => CInv(t, dk)
<1>1. DentriesOK(t)
  BY DEF SInv, DentriesOK, Recount
<1>2. InodesOK(t)
  BY DEF SInv, InodesOK, Recount
<1>3. RootOK(t)
  BY Basics DEF SInv, RootOK, Recount, InoOf, KindOf
<1>4. OwnInodes(t)
  BY DEF SInv, OwnInodes, Recount
<1>5. NoOrphan(t)
  BY DEF SInv, NoOrphan, Recount
<1>6. Shrunk(s, t) /\ Shrunk(t, s)
  BY DEF Recount, Shrunk
<1>7. ASSUME NEW dk, CInv(s, dk) PROVE CInv(t, dk)
  <2>1. \A x \in Dentries : s.d[x].inode = t.d[x].inode
           /\ InoOf(t, x) = InoOf(s, x) /\ KindOf(t, x) = KindOf(s, x)
    BY DEF Recount, InoOf, KindOf
  <2>2. \A x \in Dentries : t.d[x].listed => t.d[x].parent \in Dentries
    <3>1. \A x \in Dentries : x # Root /\ ~s.d[x].used => ~s.d[x].listed
      BY DEF SInv, DentriesOK, FreeDentry
    <3> QED BY <3>1 DEF SInv, DentriesOK, RootOK, Recount
  <2> QED BY <1>7, <2>1, <2>2 DEF CInv, Recount
<1> QED BY <1>1, <1>2, <1>3, <1>4, <1>5, <1>6, <1>7 DEF SInv, Recount
-----------------------------------------------------------------------------
(* dput.                                                                    *)

Used(s) == {x \in Dentries : s.d[x].used}

LEMMA UsedFinite ==
  ASSUME NEW s
  PROVE  /\ IsFiniteSet(Used(s)) /\ Cardinality(Used(s)) \in Nat
         /\ Cardinality(Used(s)) <= NDentries
<1>1. IsFiniteSet(Dentries) /\ Cardinality(Dentries) = NDentries
  <2>1. 1 \in Int /\ NDentries \in Int
    BY Basics
  <2>2. NDentries >= 1
    BY VfsAssumption
  <2>3. IsFiniteSet(Dentries) /\ Cardinality(Dentries) = IF 1 > NDentries THEN 0 ELSE NDentries - 1 + 1
    BY <2>1, FS_Interval DEF Dentries
  <2> QED BY <2>1, <2>2, <2>3
<1>2. Used(s) \in SUBSET Dentries
  BY DEF Used
<1>3. IsFiniteSet(Used(s)) /\ Cardinality(Used(s)) <= Cardinality(Dentries)
  BY <1>1, <1>2, FS_Subset
<1> QED BY <1>1, <1>3, FS_CardinalityType

\* Slots and references.
LEMMA HeldIsUsed ==
  ASSUME NEW s, SInv(s), NEW x \in Dentries
  PROVE  /\ Outer(s, x) >= 1 => s.d[x].used /\ s.d[x].count >= 1
         /\ s.d[x].count = 0 => Kids(s, x) = {}
         /\ s.d[x].count = 1 /\ Outer(s, x) >= 1 => Kids(s, x) = {}
         /\ ~s.d[x].used => s.d[x].count = 0 /\ Kids(s, x) = {}
<1>1. Outer(s, x) \in Int /\ s.d[x].count \in Nat /\ Outer(s, x) <= s.d[x].count
  BY OuterIsInt DEF SInv
<1>2. ~s.d[x].used => s.d[x].count = 0
  BY DEF SInv, DentriesOK, FreeDentry
<1>3. Outer(s, x) >= 0
  BY <1>1 DEF SInv, CountsOK, One
<1>4. Cardinality(Kids(s, x)) = s.d[x].count - Outer(s, x)
  <2>1. Cardinality(Kids(s, x)) \in Nat
    BY KidsFinite
  <2> QED BY <1>1, <2>1 DEF Outer
<1>5. Cardinality(Kids(s, x)) = 0 => Kids(s, x) = {}
  BY KidsFinite, FS_EmptySet
<1>6. s.d[x].count = 0 => Cardinality(Kids(s, x)) = 0
  <2>1. Cardinality(Kids(s, x)) \in Nat
    BY KidsFinite
  <2> QED BY <1>1, <1>3, <1>4, <2>1
<1>7. s.d[x].count = 1 /\ Outer(s, x) >= 1 => Cardinality(Kids(s, x)) = 0
  BY <1>1, <1>4
<1> QED BY <1>1, <1>2, <1>5, <1>6, <1>7

LEMMA ParentHeld ==
  ASSUME NEW s, SInv(s), NEW x \in Dentries, x # Root, s.d[x].used
  PROVE  /\ s.d[x].parent \in Dentries \ {x} /\ x \in Kids(s, s.d[x].parent)
         /\ s.d[s.d[x].parent].used
         /\ s.d[s.d[x].parent].count >= 1 + Outer(s, s.d[x].parent)
<1>1. s.d[x].parent \in Dentries \ {x}
  BY DEF SInv, DentriesOK
<1> DEFINE p == s.d[x].parent
<1>2. x \in Kids(s, p)
  BY <1>1 DEF Kids
<1>3. Cardinality(Kids(s, p)) \in Nat /\ Cardinality(Kids(s, p)) # 0
  BY <1>2, KidsFinite, FS_EmptySet
<1>4. s.d[p].count \in Nat
  BY <1>1, OuterIsInt DEF SInv
<1>5. s.d[p].count >= 1 + Outer(s, p)
  BY <1>3, <1>4 DEF Outer
<1>6. s.d[p].used
  BY <1>1, <1>2, HeldIsUsed
<1> QED BY <1>1, <1>2, <1>5, <1>6

\* The last reference: the slot, the inode and the place below the parent go,
\* and the reference on the parent is to be dropped next.
LEMMA ReleasedOK ==
  ASSUME NEW s, SInv(s), NEW x \in Dentries, x # Root,
         s.d[x].count = 1, Outer(s, x) >= 1
  PROVE  LET t == Released(s, x)
             p == s.d[x].parent
         IN  /\ SInv(t) /\ Shrunk(s, t)
             /\ \A y \in Dentries : Outer(t, y) = Outer(s, y) - One(x, y) + One(p, y)
             /\ \A y \in Dentries : y # x => t.d[y] = s.d[y]
             /\ t.d[x] = FreeDentry
             /\ \A n \in Inodes : t.i[n] = IF n = s.d[x].inode THEN FreeInode ELSE s.i[n]
             /\ Used(t) = Used(s) \ {x}
<1> DEFINE t == Released(s, x)
           p == s.d[x].parent
           n0 == s.d[x].inode
<1>1. s.d[x].used /\ Kids(s, x) = {}
  BY HeldIsUsed
<1>2. p \in Dentries \ {x} /\ x \in Kids(s, p) /\ s.d[p].used
  BY <1>1, ParentHeld
<1>3. s.d \in [Dentries -> DentryType] /\ s.i \in [Inodes -> InodeType]
  BY DEF SInv, MemType
<1>4. n0 # Null => n0 \in Inodes /\ s.i[n0].used /\ s.i[n0].count = 2
  <2>1. n0 \in Inodes \cup {Null}
    BY <1>3 DEF DentryType
  <2> QED BY <2>1 DEF SInv, DentriesOK, InodesOK
<1>5. /\ t.d = [s.d EXCEPT ![x] = FreeDentry]
      /\ t.i = Iput(s.i, n0)
      /\ t = [d |-> [s.d EXCEPT ![x] = FreeDentry], i |-> Iput(s.i, n0)]
  BY DEF Released
<1>6. FreeDentry \in DentryType
  BY DEF FreeDentry, DentryType, Components
<1>7. FreeInode \in InodeType /\ ~FreeInode.used
  BY DEF FreeInode, InodeType
<1>8. /\ Iput(s.i, n0) \in [Inodes -> InodeType]
      /\ \A n \in Inodes : Iput(s.i, n0)[n] = IF n = n0 THEN FreeInode ELSE s.i[n]
  <2>1. CASE n0 = Null
    BY <1>3, <2>1, Basics DEF Iput
  <2>2. CASE n0 # Null
    <3>1. Iput(s.i, n0) = [s.i EXCEPT ![n0] = FreeInode]
      BY <1>4, <2>2 DEF Iput
    <3> QED BY <1>3, <1>7, <3>1
  <2> QED BY <2>1, <2>2
<1>9. /\ \A y \in Dentries : y # x => t.d[y] = s.d[y]
      /\ t.d[x] = FreeDentry
      /\ \A n \in Inodes : t.i[n] = IF n = n0 THEN FreeInode ELSE s.i[n]
  BY <1>3, <1>5, <1>8
<1>10. t \in MemType
  BY <1>3, <1>5, <1>6, <1>8 DEF MemType
<1>f. /\ ~FreeDentry.used /\ FreeDentry.count = 0 /\ FreeDentry.inode = Null
      /\ ~FreeDentry.listed
  BY DEF FreeDentry
<1> HIDE DEF t, n0, p
<1>s. \A y \in Dentries : s.d[y] \in DentryType /\ s.d[y].inode \in Inodes \cup {Null}
  BY <1>3 DEF DentryType
<1>11. Used(t) = Used(s) \ {x}
  BY <1>9, <1>f DEF Used
<1>12. \A y \in Dentries : Kids(t, y) = Kids(s, y) \ {x}
  BY <1>9, <1>f DEF Kids
<1>13. ASSUME NEW y \in Dentries
       PROVE  Outer(t, y) = Outer(s, y) - One(x, y) + One(p, y)
  <2>1. Cardinality(Kids(s, y)) \in Nat /\ s.d[y].count \in Nat
    BY KidsFinite, <1>3 DEF DentryType
  <2>2. Cardinality(Kids(s, y) \ {x}) =
          IF x \in Kids(s, y) THEN Cardinality(Kids(s, y)) - 1 ELSE Cardinality(Kids(s, y))
    BY KidsFinite, FS_RemoveElement, Zenon
  <2>3. x \in Kids(s, y) <=> y = p
    BY <1>2 DEF Kids, p
  <2>4. CASE y = x
    <3>1. Outer(s, x) = 1 /\ Kids(s, x) \ {x} = {} /\ Cardinality({}) = 0
      BY <1>1, <2>4, FS_EmptySet DEF Outer
    <3>2. Outer(t, x) = 0
      BY <1>9, <1>12, <1>f, <3>1 DEF Outer
    <3> QED BY <1>2, <2>4, <3>1, <3>2 DEF One
  <2>5. CASE y # x
    <3>1. t.d[y].count = s.d[y].count /\ Kids(t, y) = Kids(s, y) \ {x}
      BY <1>9, <1>12, <2>5
    <3> QED BY <2>1, <2>2, <2>3, <2>5, <3>1 DEF Outer, One
  <2> QED BY <2>4, <2>5
<1>14. CountsOK(t)
  <2> SUFFICES ASSUME NEW y \in Dentries PROVE Outer(t, y) >= One(Root, y)
    BY DEF CountsOK
  <2>1. Outer(s, y) >= One(Root, y) /\ Outer(s, y) \in Int
    BY OuterIsInt DEF SInv, CountsOK
  <2>2. y = x => Outer(s, y) >= 1
    OBVIOUS
  <2> QED BY <1>13, <2>1, <2>2 DEF One
<1>15. DentriesOK(t)
  <2> SUFFICES ASSUME NEW y \in Dentries
      PROVE /\ IF t.d[y].used THEN t.d[y].count >= 1 ELSE t.d[y] = FreeDentry
            /\ t.d[y].used /\ y # Root => t.d[y].parent \in Dentries \ {y}
            /\ y # Root => (t.d[y].listed <=> t.d[y].inode # Null)
            /\ t.d[y].inode # Null => t.i[t.d[y].inode].used
    BY DEF DentriesOK
  <2>1. CASE y = x
    BY <1>9, <1>f, <2>1
  <2>2. CASE y # x
    <3>1. t.d[y] = s.d[y]
      BY <1>9, <2>2
    <3>2. s.d[y].inode # Null => s.d[y].inode # n0
      BY <2>2 DEF SInv, OwnInodes, n0
    <3>3. s.d[y].inode # Null => t.i[s.d[y].inode] = s.i[s.d[y].inode]
      BY <1>9, <1>s, <3>2
    <3> QED BY <3>1, <3>3 DEF SInv, DentriesOK
  <2> QED BY <2>1, <2>2
<1>16. InodesOK(t)
  BY <1>7, <1>9 DEF SInv, InodesOK
<1>17. RootOK(t)
  <2>1. t.d[Root] = s.d[Root]
    BY <1>9, Basics
  <2>2. s.d[Root].inode # Null /\ s.d[Root].inode # n0
    BY Basics DEF SInv, RootOK, OwnInodes, n0
  <2>3. t.i[s.d[Root].inode] = s.i[s.d[Root].inode]
    BY <1>9, <1>s, <2>2, Basics
  <2> QED BY <2>1, <2>3 DEF SInv, RootOK, InoOf, KindOf
<1>18. OwnInodes(t)
  BY <1>9, <1>f DEF SInv, OwnInodes
<1>19. NoOrphan(t)
  BY <1>7, <1>9 DEF SInv, NoOrphan, n0
<1>20. Shrunk(s, t)
  BY <1>7, <1>9, <1>f DEF Shrunk
<1>21. SInv(t)
  BY <1>10, <1>14, <1>15, <1>16, <1>17, <1>18, <1>19 DEF SInv
<1> QED BY <1>9, <1>11, <1>13, <1>20, <1>21 DEF t, p, n0

\* The recursive function of dput.
ClimbStep(s, x, f, n) == IF n = 0 THEN [s |-> s, d |-> x] ELSE DputOne(f[n - 1])

LEMMA DputUnfolds ==
  ASSUME NEW s, NEW x
  PROVE  \E f : /\ f[0] = [s |-> s, d |-> x]
                /\ \A n \in 1 .. NDentries : f[n] = DputOne(f[n - 1])
                /\ Dput(s, x) = f[NDentries].s
<1> DEFINE L == NDentries
           Upto(f, n) == \A i \in 0 .. L : i <= n => f[i] = ClimbStep(s, x, f, i)
           Q == {n \in Nat : \E f : Upto(f, n)}
<1> HIDE DEF L
<1>l. L \in Nat
  BY Basics DEF L
<1>1. 0 \in Q
  <2> DEFINE f == [i \in 0 .. L |-> [s |-> s, d |-> x]]
  <2>1. Upto(f, 0)
    BY <1>l DEF ClimbStep
  <2> QED BY <2>1
<1>2. ASSUME NEW n \in Q PROVE n + 1 \in Q
  <2>1. PICK f : Upto(f, n)
    OBVIOUS
  <2> DEFINE next == [i \in 0 .. L |-> ClimbStep(s, x, f, i)]
  <2>2. ASSUME NEW i \in 0 .. L, i <= n + 1 PROVE next[i] = ClimbStep(s, x, next, i)
    <3>1. next[i] = ClimbStep(s, x, f, i)
      OBVIOUS
    <3>2. CASE i = 0
      <4> HIDE DEF next
      <4> QED BY <3>1, <3>2 DEF ClimbStep
    <3>3. CASE i # 0
      <4>1. i - 1 \in 0 .. L /\ i - 1 <= n
        BY <1>l, <2>2, <3>3
      <4>2. f[i - 1] = ClimbStep(s, x, f, i - 1)
        BY <2>1, <4>1
      <4>3. next[i - 1] = f[i - 1]
        BY <4>1, <4>2
      <4> HIDE DEF next
      <4> QED BY <3>1, <3>3, <4>3 DEF ClimbStep
    <3> QED BY <3>2, <3>3
  <2> HIDE DEF next
  <2>3. Upto(next, n + 1)
    BY <2>2
  <2> QED BY <2>3
<1>3. L \in Q
  <2> HIDE DEF Q
  <2>1. Q \in SUBSET Nat
    BY DEF Q
  <2> QED BY <1>1, <1>2, <1>l, <2>1, SetInduction
<1>4. PICK g : Upto(g, L)
  BY <1>3
<1> DEFINE h == [i \in 0 .. L |-> ClimbStep(s, x, g, i)]
<1>5. h = [i \in 0 .. L |-> ClimbStep(s, x, h, i)]
  <2>1. ASSUME NEW i \in 0 .. L PROVE ClimbStep(s, x, g, i) = ClimbStep(s, x, h, i)
    <3>1. CASE i = 0
      BY <3>1 DEF ClimbStep
    <3>2. CASE i # 0
      <4>1. i - 1 \in 0 .. L
        BY <1>l, <3>2
      <4>2. h[i - 1] = g[i - 1]
        BY <1>4, <1>l, <4>1
      <4> HIDE DEF h
      <4> QED BY <3>2, <4>2 DEF ClimbStep
    <3> QED BY <3>1, <3>2
  <2> QED BY <2>1
<1> DEFINE climb == CHOOSE f : f = [i \in 0 .. L |-> ClimbStep(s, x, f, i)]
<1>6. climb = [i \in 0 .. L |-> ClimbStep(s, x, climb, i)]
  <2> HIDE DEF h
  <2> QED BY <1>5
<1>7. Dput(s, x) = climb[L].s
  BY DEF Dput, ClimbStep, L
<1> HIDE DEF climb
<1>8. \A i \in 0 .. L : climb[i] = ClimbStep(s, x, climb, i)
  BY <1>6
<1>9. climb[0] = [s |-> s, d |-> x] /\ \A n \in 1 .. L : climb[n] = DputOne(climb[n - 1])
  BY <1>8, <1>l DEF ClimbStep
<1> QED BY <1>7, <1>9 DEF L

\* The reference that x must have for a dput of it; the mount keeps the root's.
Spare(s, x) == Outer(s, x) >= 1 + One(Root, x)

\* One round of dput.
LEMMA DputRound ==
  ASSUME NEW s, SInv(s), NEW x \in Dentries, Spare(s, x)
  PROVE  /\ s.d[x].used /\ s.d[x].count >= 1
         /\ s.d[x].count > 1 =>
              DputOne([s |-> s, d |-> x]) = [s |-> Drop(s, x), d |-> Null]
         /\ s.d[x].count = 1 =>
              /\ x # Root /\ Outer(s, x) >= 1 /\ s.d[x].parent \in Dentries \ {x}
              /\ DputOne([s |-> s, d |-> x]) = [s |-> Released(s, x), d |-> s.d[x].parent]
              /\ SInv(Released(s, x)) /\ Spare(Released(s, x), s.d[x].parent)
              /\ Cardinality(Used(Released(s, x))) = Cardinality(Used(s)) - 1
<1>1. Outer(s, x) \in Int /\ s.d[x].count \in Nat /\ Outer(s, x) <= s.d[x].count
  BY OuterIsInt DEF SInv
<1>2. Outer(s, x) >= 1
  BY <1>1 DEF Spare, One
<1>3. s.d[x].used /\ s.d[x].count >= 1
  BY <1>2, HeldIsUsed
<1>4. x # Null
  BY Basics
<1>5. ASSUME s.d[x].count > 1
      PROVE  DputOne([s |-> s, d |-> x]) = [s |-> Drop(s, x), d |-> Null]
  BY <1>4, <1>5 DEF DputOne, Drop
<1>6. ASSUME s.d[x].count = 1
      PROVE  /\ x # Root /\ s.d[x].parent \in Dentries \ {x}
             /\ DputOne([s |-> s, d |-> x]) = [s |-> Released(s, x), d |-> s.d[x].parent]
             /\ SInv(Released(s, x)) /\ Spare(Released(s, x), s.d[x].parent)
             /\ Cardinality(Used(Released(s, x))) = Cardinality(Used(s)) - 1
  <2>1. x # Root
    BY <1>1, <1>6 DEF Spare, One
  <2>2. s.d[x].parent \in Dentries \ {x}
    BY <1>3, <2>1, ParentHeld
  <2>3. DputOne([s |-> s, d |-> x]) = [s |-> Released(s, x), d |-> s.d[x].parent]
    BY <1>4, <1>6, <2>2 DEF DputOne
  <2> DEFINE t == Released(s, x)
             p == s.d[x].parent
  <2>4. /\ SInv(t) /\ Used(t) = Used(s) \ {x}
        /\ \A y \in Dentries : Outer(t, y) = Outer(s, y) - One(x, y) + One(p, y)
    BY <1>2, <1>6, <2>1, ReleasedOK
  <2> HIDE DEF t
  <2>5. Spare(t, p)
    <3>1. Outer(s, p) >= One(Root, p) /\ Outer(s, p) \in Int
      BY <2>2, OuterIsInt DEF SInv, CountsOK
    <3>2. Outer(t, p) = Outer(s, p) - One(x, p) + One(p, p)
      BY <2>2, <2>4
    <3> QED BY <2>2, <3>1, <3>2 DEF Spare, One
  <2>6. Cardinality(Used(t)) = Cardinality(Used(s)) - 1
    <3>1. x \in Used(s)
      BY <1>3 DEF Used
    <3>2. Cardinality(Used(s) \ {x}) =
            IF x \in Used(s) THEN Cardinality(Used(s)) - 1 ELSE Cardinality(Used(s))
      BY UsedFinite, FS_RemoveElement, Zenon
    <3> QED BY <2>4, <3>1, <3>2
  <2> QED BY <2>1, <2>2, <2>3, <2>4, <2>5, <2>6 DEF t
<1> QED BY <1>2, <1>3, <1>5, <1>6

\* Every round but the last frees a slot: dput ends before the slots do.
LEMMA ClimbEnds ==
  ASSUME NEW s, SInv(s), NEW x \in Dentries, Spare(s, x), NEW f,
         f[0] = [s |-> s, d |-> x],
         \A n \in 1 .. NDentries : f[n] = DputOne(f[n - 1]),
         NEW k \in 0 .. NDentries, Cardinality(Used(s)) <= k
  PROVE  f[k].d = Null
<1> DEFINE OK(w, n) == \/ w.d = Null
                       \/ /\ w = [s |-> w.s, d |-> w.d] /\ w.d \in Dentries /\ SInv(w.s)
                          /\ Spare(w.s, w.d) /\ Cardinality(Used(w.s)) <= k - n
           Q == {n \in Nat : n <= k => OK(f[n], n)}
<1>1. 0 \in Q
  <2>1. k - 0 = k
    OBVIOUS
  <2>2. OK(f[0], 0)
    BY <2>1
  <2> QED BY <2>2
<1>2. ASSUME NEW n \in Q PROVE n + 1 \in Q
  <2> SUFFICES ASSUME n + 1 <= k PROVE OK(f[n + 1], n + 1)
    OBVIOUS
  <2>1. n \in Nat /\ n <= k /\ n + 1 \in 1 .. NDentries /\ (n + 1) - 1 = n
    BY Basics
  <2>2. f[n + 1] = DputOne(f[n])
    <3>1. f[n + 1] = DputOne(f[(n + 1) - 1])
      BY <2>1
    <3> QED BY <2>1, <3>1
  <2>3. OK(f[n], n)
    BY <2>1
  <2>4. CASE f[n].d = Null
    BY <2>2, <2>4 DEF DputOne
  <2>5. CASE f[n].d # Null
    <3>1. PICK w : w = f[n]
      OBVIOUS
    <3>2. /\ w = [s |-> w.s, d |-> w.d] /\ w.d \in Dentries /\ SInv(w.s)
          /\ Spare(w.s, w.d) /\ Cardinality(Used(w.s)) <= k - n
      BY <2>3, <2>5, <3>1
    <3>3. PICK u, y : u = w.s /\ y = w.d
      OBVIOUS
    <3>4. /\ SInv(u) /\ y \in Dentries /\ Spare(u, y) /\ Cardinality(Used(u)) <= k - n
          /\ w = [s |-> u, d |-> y]
      BY <3>2, <3>3
    <3>5. /\ u.d[y].used /\ u.d[y].count >= 1
          /\ u.d[y].count > 1 =>
               DputOne([s |-> u, d |-> y]) = [s |-> Drop(u, y), d |-> Null]
          /\ u.d[y].count = 1 =>
              /\ u.d[y].parent \in Dentries \ {y}
              /\ DputOne([s |-> u, d |-> y]) = [s |-> Released(u, y), d |-> u.d[y].parent]
              /\ SInv(Released(u, y)) /\ Spare(Released(u, y), u.d[y].parent)
              /\ Cardinality(Used(Released(u, y))) = Cardinality(Used(u)) - 1
      BY <3>4, DputRound
    <3>6. u.d[y].count \in Nat
      BY <3>4, OuterIsInt DEF SInv
    <3>7. f[n + 1] = DputOne([s |-> u, d |-> y])
      BY <2>2, <3>1, <3>4
    <3>8. CASE u.d[y].count > 1
      BY <3>5, <3>7, <3>8
    <3>9. CASE u.d[y].count = 1
      <4>1. f[n + 1] = [s |-> Released(u, y), d |-> u.d[y].parent]
        BY <3>5, <3>7, <3>9
      <4>2. Cardinality(Used(Released(u, y))) <= k - (n + 1)
        <5>1. Cardinality(Used(u)) \in Nat
          BY UsedFinite
        <5> QED BY <2>1, <3>4, <3>5, <3>9, <5>1
      <4> QED BY <3>5, <3>9, <4>1, <4>2
    <3> QED BY <3>5, <3>6, <3>8, <3>9
  <2> QED BY <2>4, <2>5
<1>3. k \in Q
  <2> HIDE DEF Q
  <2>1. Q \in SUBSET Nat
    BY DEF Q
  <2>2. k \in Nat
    BY Basics
  <2> QED BY <1>1, <1>2, <2>1, <2>2, SetInduction
<1>4. OK(f[k], k)
  BY <1>3
<1>5. SUFFICES ASSUME SInv(f[k].s), Cardinality(Used(f[k].s)) <= k - k PROVE FALSE
  BY <1>4
<1>6. PICK u : u = f[k].s
  OBVIOUS
<1>7. SInv(u) /\ Cardinality(Used(u)) <= 0
  BY <1>5, <1>6
<1>8. Root \in Used(u)
  BY <1>7, Basics DEF SInv, RootOK, Used
<1>9. Cardinality(Used(u)) = 0
  BY <1>7, UsedFinite
<1> QED BY <1>8, <1>9, UsedFinite, FS_EmptySet

\* A dput of a dentry that keeps a reference.
LEMMA DputDrops ==
  ASSUME NEW s, SInv(s), NEW x \in Dentries, Spare(s, x), s.d[x].count > 1
  PROVE  Dput(s, x) = Drop(s, x)
<1>1. PICK f : /\ f[0] = [s |-> s, d |-> x]
               /\ \A n \in 1 .. NDentries : f[n] = DputOne(f[n - 1])
               /\ Dput(s, x) = f[NDentries].s
  BY DputUnfolds
<1> DEFINE end == [s |-> Drop(s, x), d |-> Null]
<1>2. DputOne([s |-> s, d |-> x]) = end
  BY DputRound
<1>3. DputOne(end) = end
  BY DEF DputOne
<1>e. end.s = Drop(s, x)
  OBVIOUS
<1> HIDE DEF end
<1> DEFINE Q == {n \in Nat : n + 1 <= NDentries => f[n + 1] = end}
<1>4. 0 \in Q
  <2>1. 0 + 1 <= NDentries => f[0 + 1] = end
    <3>1. 1 - 1 = 0 /\ 0 + 1 = 1
      OBVIOUS
    <3>2. 1 <= NDentries => f[1] = DputOne(f[1 - 1])
      BY <1>1, Basics
    <3> QED BY <1>1, <1>2, <3>1, <3>2
  <2> QED BY <2>1
<1>5. ASSUME NEW n \in Q PROVE n + 1 \in Q
  <2> SUFFICES ASSUME (n + 1) + 1 <= NDentries PROVE f[(n + 1) + 1] = end
    OBVIOUS
  <2>1. (n + 1) + 1 \in 1 .. NDentries /\ ((n + 1) + 1) - 1 = n + 1 /\ n + 1 <= NDentries
    BY Basics
  <2>2. f[(n + 1) + 1] = DputOne(f[((n + 1) + 1) - 1])
    BY <1>1, <2>1
  <2>3. f[n + 1] = end
    BY <2>1
  <2> QED BY <1>3, <2>1, <2>2, <2>3
<1>6. Q = Nat
  <2>1. Q \in SUBSET Nat
    OBVIOUS
  <2> HIDE DEF Q
  <2> QED BY <1>4, <1>5, <2>1, SetInduction
<1>7. NDentries - 1 \in Q /\ (NDentries - 1) + 1 = NDentries
  <2> HIDE DEF Q
  <2> QED BY <1>6, VfsAssumption
<1>8. f[NDentries] = end
  <2>1. (NDentries - 1) + 1 <= NDentries => f[(NDentries - 1) + 1] = end
    BY <1>7
  <2> QED BY <1>7, <2>1, Basics
<1> QED BY <1>1, <1>8, <1>e

\* A dput of the last reference: release the slot and go on with the parent.
LEMMA DputClimbs ==
  ASSUME NEW s, SInv(s), NEW x \in Dentries, Spare(s, x), s.d[x].count = 1
  PROVE  Dput(s, x) = Dput(Released(s, x), s.d[x].parent)
<1>1. PICK f : /\ f[0] = [s |-> s, d |-> x]
               /\ \A n \in 1 .. NDentries : f[n] = DputOne(f[n - 1])
               /\ Dput(s, x) = f[NDentries].s
  BY DputUnfolds
<1>2. PICK t, p : t = Released(s, x) /\ p = s.d[x].parent
  OBVIOUS
<1>3. PICK g : /\ g[0] = [s |-> t, d |-> p]
               /\ \A n \in 1 .. NDentries : g[n] = DputOne(g[n - 1])
               /\ Dput(t, p) = g[NDentries].s
  BY DputUnfolds
<1>4. /\ p \in Dentries /\ SInv(t) /\ Spare(t, p)
      /\ DputOne([s |-> s, d |-> x]) = [s |-> t, d |-> p]
      /\ Cardinality(Used(t)) = Cardinality(Used(s)) - 1
  BY <1>2, DputRound
<1> DEFINE Q == {n \in Nat : n + 1 <= NDentries => f[n + 1] = g[n]}
<1>5. 0 \in Q
  <2>1. 0 + 1 <= NDentries => f[0 + 1] = g[0]
    <3>1. 1 - 1 = 0 /\ 0 + 1 = 1
      OBVIOUS
    <3>2. 1 <= NDentries => f[1] = DputOne(f[1 - 1])
      BY <1>1, Basics
    <3> QED BY <1>1, <1>3, <1>4, <3>1, <3>2
  <2> QED BY <2>1
<1>6. ASSUME NEW n \in Q PROVE n + 1 \in Q
  <2> SUFFICES ASSUME (n + 1) + 1 <= NDentries PROVE f[(n + 1) + 1] = g[n + 1]
    OBVIOUS
  <2>1. /\ (n + 1) + 1 \in 1 .. NDentries /\ ((n + 1) + 1) - 1 = n + 1
        /\ n + 1 \in 1 .. NDentries /\ (n + 1) - 1 = n
    BY Basics
  <2>2. f[(n + 1) + 1] = DputOne(f[((n + 1) + 1) - 1])
    BY <1>1, <2>1
  <2>3. g[n + 1] = DputOne(g[(n + 1) - 1])
    BY <1>3, <2>1
  <2>4. f[n + 1] = g[n]
    BY <2>1
  <2> QED BY <2>1, <2>2, <2>3, <2>4
<1>7. Q = Nat
  <2>1. Q \in SUBSET Nat
    OBVIOUS
  <2> HIDE DEF Q
  <2> QED BY <1>5, <1>6, <2>1, SetInduction
<1>8. PICK m \in Nat : m + 1 = NDentries
  <2>1. NDentries - 1 \in Nat /\ (NDentries - 1) + 1 = NDentries
    BY VfsAssumption
  <2> QED BY <2>1
<1>9. f[NDentries] = g[m]
  <2>1. m + 1 <= NDentries => f[m + 1] = g[m]
    BY <1>7
  <2> QED BY <1>8, <2>1, Basics
<1>10. m \in 0 .. NDentries /\ Cardinality(Used(t)) <= m
  <2>1. Cardinality(Used(s)) <= NDentries /\ Cardinality(Used(s)) \in Nat
    BY UsedFinite
  <2> QED BY <1>4, <1>8, <2>1
<1>11. g[m].d = Null
  BY <1>3, <1>4, <1>10, ClimbEnds
<1>12. g[NDentries] = g[m]
  <2>1. NDentries \in 1 .. NDentries /\ NDentries - 1 = m
    BY <1>8
  <2>2. g[NDentries] = DputOne(g[NDentries - 1])
    BY <1>3, <2>1
  <2> QED BY <1>11, <2>1, <2>2 DEF DputOne
<1> QED BY <1>1, <1>2, <1>3, <1>9, <1>12

\* What is left after a release tells of the disk what was told before.
LEMMA ShrunkCoherent ==
  ASSUME NEW s, NEW t, SInv(s), SInv(t), Shrunk(s, t), NEW dk, CInv(s, dk)
  PROVE  CInv(t, dk)
<1>1. ASSUME NEW x \in Dentries, t.d[x].inode # Null
      PROVE  /\ t.d[x].used /\ s.d[x].inode = t.d[x].inode /\ t.d[x].inode \in Inodes
             /\ InoOf(t, x) = InoOf(s, x) /\ KindOf(t, x) = KindOf(s, x)
  <2>1. t.d[x].used
    BY <1>1 DEF SInv, DentriesOK, FreeDentry
  <2>2. t.d[x].inode \in Inodes
    BY <1>1 DEF SInv, MemType, DentryType
  <2>3. t.i[t.d[x].inode].used
    BY <1>1 DEF SInv, DentriesOK
  <2>4. s.d[x].inode = t.d[x].inode /\ t.i[t.d[x].inode] = s.i[t.d[x].inode]
    BY <2>1, <2>2, <2>3 DEF Shrunk
  <2> QED BY <2>1, <2>2, <2>4 DEF InoOf, KindOf
<1>2. ASSUME NEW x \in Dentries, t.d[x].listed
      PROVE  /\ t.d[t.d[x].parent].inode # Null
             /\ Has(dk, InoOf(t, t.d[x].parent), t.d[x].name, InoOf(t, x))
             /\ dk.kind[InoOf(t, x)] = KindOf(t, x)
  <2>1. x # Root /\ t.d[x].inode # Null
    BY <1>2 DEF SInv, DentriesOK, RootOK
  <2>2. /\ t.d[x].used /\ s.d[x].inode = t.d[x].inode
        /\ InoOf(t, x) = InoOf(s, x) /\ KindOf(t, x) = KindOf(s, x)
    BY <1>1, <2>1
  <2>3. s.d[x].listed /\ s.d[x].parent = t.d[x].parent /\ s.d[x].name = t.d[x].name
    BY <1>2, <2>2 DEF Shrunk
  <2>4. t.d[x].parent \in Dentries /\ t.d[t.d[x].parent].used
    BY <2>1, <2>2, ParentHeld
  <2>5. /\ s.d[s.d[x].parent].inode # Null
        /\ Has(dk, InoOf(s, s.d[x].parent), s.d[x].name, InoOf(s, x))
        /\ dk.kind[InoOf(s, x)] = KindOf(s, x)
    BY <2>3 DEF CInv
  <2>6. t.d[t.d[x].parent].inode # Null
    BY <2>3, <2>4, <2>5 DEF Shrunk
  <2>7. InoOf(t, t.d[x].parent) = InoOf(s, t.d[x].parent)
    BY <1>1, <2>4, <2>6
  <2> QED BY <2>2, <2>3, <2>5, <2>6, <2>7
<1>3. ASSUME NEW x \in Dentries, NEW y \in Dentries,
             x # y, t.d[x].inode # Null, t.d[y].inode # Null
      PROVE  InoOf(t, x) # InoOf(t, y)
  BY <1>1, <1>3 DEF CInv
<1> QED BY <1>2, <1>3 DEF CInv

\* What dput does, whatever chain of parents it releases.
LEMMA DputOK ==
  ASSUME NEW s, SInv(s), NEW x \in Dentries, Spare(s, x)
  PROVE  /\ SInv(Dput(s, x)) /\ Shrunk(s, Dput(s, x))
         /\ \A y \in Dentries : Outer(Dput(s, x), y) = Outer(s, y) - One(x, y)
         /\ \A dk : CInv(s, dk) => CInv(Dput(s, x), dk)
<1> DEFINE Done(u, y) ==
             /\ SInv(Dput(u, y)) /\ Shrunk(u, Dput(u, y))
             /\ \A z \in Dentries : Outer(Dput(u, y), z) = Outer(u, z) - One(y, z)
           Q == {k \in Nat : \A u : \A y \in Dentries :
                    SInv(u) /\ Spare(u, y) /\ Cardinality(Used(u)) <= k => Done(u, y)}
<1>1. 0 \in Q
  <2> SUFFICES ASSUME NEW u, NEW y \in Dentries, SInv(u), Cardinality(Used(u)) <= 0
      PROVE FALSE
    OBVIOUS
  <2>1. Root \in Used(u)
    BY Basics DEF SInv, RootOK, Used
  <2>2. Cardinality(Used(u)) = 0
    BY UsedFinite
  <2> QED BY <2>1, <2>2, UsedFinite, FS_EmptySet
<1>2. ASSUME NEW k \in Q PROVE k + 1 \in Q
  <2> SUFFICES ASSUME NEW u, NEW y \in Dentries, SInv(u), Spare(u, y),
                      Cardinality(Used(u)) <= k + 1
      PROVE Done(u, y)
    OBVIOUS
  <2>1. u.d[y].count \in Nat /\ u.d[y].count >= 1 /\ u.d[y].used
    BY DputRound, OuterIsInt DEF SInv
  <2>2. CASE u.d[y].count > 1
    <3>1. Dput(u, y) = Drop(u, y)
      BY <2>2, DputDrops
    <3>2. /\ Recount(u, Drop(u, y))
          /\ \A z \in Dentries : Outer(Drop(u, y), z) = Outer(u, z) - One(y, z)
      BY <2>1, <2>2, DropCounts DEF SInv
    <3>3. CountsOK(Drop(u, y))
      <4> SUFFICES ASSUME NEW z \in Dentries PROVE Outer(Drop(u, y), z) >= One(Root, z)
        BY DEF CountsOK
      <4>1. Outer(u, z) >= One(Root, z) /\ Outer(u, z) \in Int
        BY OuterIsInt DEF SInv, CountsOK
      <4>2. y = z => Outer(u, z) >= 1 + One(Root, z)
        BY DEF Spare
      <4> QED BY <3>2, <4>1, <4>2 DEF One
    <3>4. SInv(Drop(u, y)) /\ Shrunk(u, Drop(u, y))
      BY <3>2, <3>3, RecountKeeps
    <3> QED BY <3>1, <3>2, <3>4
  <2>3. CASE u.d[y].count = 1
    <3>1. PICK t, p : t = Released(u, y) /\ p = u.d[y].parent
      OBVIOUS
    <3>2. /\ y # Root /\ Outer(u, y) >= 1 /\ p \in Dentries /\ SInv(t) /\ Spare(t, p)
          /\ Cardinality(Used(t)) = Cardinality(Used(u)) - 1
      BY <2>3, <3>1, DputRound
    <3>3. /\ Shrunk(u, t)
          /\ \A z \in Dentries : Outer(t, z) = Outer(u, z) - One(y, z) + One(p, z)
      BY <2>3, <3>1, <3>2, ReleasedOK
    <3>4. Cardinality(Used(t)) <= k
      <4>1. Cardinality(Used(u)) \in Nat /\ k \in Nat
        BY UsedFinite
      <4> QED BY <3>2, <4>1
    <3>5. Done(t, p)
      BY <3>2, <3>4
    <3>6. Dput(u, y) = Dput(t, p)
      BY <2>3, <3>1, DputClimbs
    <3>7. PICK v : v = Dput(t, p)
      OBVIOUS
    <3>8. /\ SInv(v) /\ Shrunk(t, v)
          /\ \A z \in Dentries : Outer(v, z) = Outer(t, z) - One(p, z)
      BY <3>5, <3>7
    <3>9. ASSUME NEW z \in Dentries PROVE Outer(v, z) = Outer(u, z) - One(y, z)
      <4>1. Outer(u, z) \in Int
        BY OuterIsInt DEF SInv
      <4> QED BY <3>3, <3>8, <4>1 DEF One
    <3>10. Shrunk(u, v)
      BY <3>3, <3>8, ShrunkTrans
    <3> QED BY <3>6, <3>7, <3>8, <3>9, <3>10
  <2> QED BY <2>1, <2>2, <2>3
<1>3. Cardinality(Used(s)) \in Q /\ Cardinality(Used(s)) <= Cardinality(Used(s))
  <2>1. Cardinality(Used(s)) \in Nat
    BY UsedFinite
  <2>2. Q \in SUBSET Nat
    OBVIOUS
  <2>3. Q = Nat
    <3> HIDE DEF Q
    <3> QED BY <1>1, <1>2, <2>2, SetInduction
  <2> HIDE DEF Q
  <2> QED BY <2>1, <2>3
<1>4. Done(s, x)
  BY <1>3
<1>5. ASSUME NEW dk, CInv(s, dk) PROVE CInv(Dput(s, x), dk)
  BY <1>4, <1>5, ShrunkCoherent
<1> QED BY <1>4, <1>5
-----------------------------------------------------------------------------
(* dget, d_alloc and d_instantiate.                                         *)

LEMMA DgetOK ==
  ASSUME NEW s, SInv(s), NEW x \in Dentries, s.d[x].used
  PROVE  /\ SInv(Dget(s, x)) /\ Shrunk(s, Dget(s, x)) /\ Shrunk(Dget(s, x), s)
         /\ \A y \in Dentries : Outer(Dget(s, x), y) = Outer(s, y) + One(x, y)
         /\ \A dk : CInv(s, dk) => CInv(Dget(s, x), dk)
         /\ Spare(Dget(s, x), x)
<1>1. PICK t : t = Dget(s, x)
  OBVIOUS
<1>2. /\ Recount(s, t)
      /\ \A y \in Dentries : Outer(t, y) = Outer(s, y) + One(x, y)
  BY <1>1, DgetCounts DEF SInv
<1>3. \A y \in Dentries : Outer(s, y) >= One(Root, y) /\ Outer(s, y) \in Int
  BY OuterIsInt DEF SInv, CountsOK
<1>4. CountsOK(t)
  BY <1>2, <1>3 DEF CountsOK, One
<1>5. Spare(t, x)
  BY <1>2, <1>3 DEF Spare, One
<1>6. SInv(t) /\ Shrunk(s, t) /\ Shrunk(t, s) /\ \A dk : CInv(s, dk) => CInv(t, dk)
  BY <1>2, <1>4, RecountKeeps
<1> QED BY <1>1, <1>2, <1>5, <1>6

\* u is s with a new dentry x below p.
Child(s, p, x, u) ==
    /\ p \in Dentries /\ x \in Dentries \ {Root, p}
    /\ ~s.d[x].used /\ u.d[x].used /\ u.d[x].count = 1 /\ u.d[x].parent = p
    /\ \A y \in Dentries : y # x =>
          /\ u.d[y].used = s.d[y].used /\ u.d[y].count = s.d[y].count + One(p, y)
          /\ u.d[y].parent = s.d[y].parent /\ u.d[y].name = s.d[y].name
          /\ u.d[y].inode = s.d[y].inode /\ u.d[y].listed = s.d[y].listed
    /\ \A n \in Inodes : IF n = u.d[x].inode THEN ~s.i[n].used ELSE u.i[n] = s.i[n]

LEMMA ChildCounts ==
  ASSUME NEW s, SInv(s), NEW p, NEW x, NEW u \in MemType, Child(s, p, x, u)
  PROVE  \A y \in Dentries : Outer(u, y) = Outer(s, y) + One(x, y)
<1> SUFFICES ASSUME NEW y \in Dentries PROVE Outer(u, y) = Outer(s, y) + One(x, y)
  OBVIOUS
<1>1. p \in Dentries /\ x \in Dentries /\ x # p /\ x # Root /\ ~s.d[x].used
  BY DEF Child
<1>2. Kids(u, y) = IF y = p THEN Kids(s, y) \cup {x} ELSE Kids(s, y)
  BY DEF Child, Kids
<1>3. x \notin Kids(s, y)
  BY <1>1 DEF Kids
<1>4. Cardinality(Kids(s, y) \cup {x}) =
        IF x \in Kids(s, y) THEN Cardinality(Kids(s, y)) ELSE Cardinality(Kids(s, y)) + 1
  BY KidsFinite, FS_AddElement, Zenon
<1>5. Cardinality(Kids(s, y)) \in Nat /\ s.d[y].count \in Nat
  BY KidsFinite, OuterIsInt DEF SInv
<1>6. CASE y = x
  <2>1. Kids(s, x) = {} /\ s.d[x].count = 0
    BY <1>1, HeldIsUsed
  <2>2. Cardinality(Kids(s, x)) = 0
    BY <2>1, FS_EmptySet
  <2>3. Outer(s, x) = 0
    BY <2>1, <2>2 DEF Outer
  <2>4. Outer(u, x) = 1
    BY <1>1, <1>2, <1>6, <2>2 DEF Outer, Child
  <2> QED BY <1>6, <2>3, <2>4 DEF One
<1>7. CASE y # x
  <2>1. u.d[y].count = s.d[y].count + One(p, y)
    BY <1>7 DEF Child
  <2> QED BY <1>2, <1>3, <1>4, <1>5, <1>7, <2>1 DEF Outer, One
<1> QED BY <1>6, <1>7

\* A new child is all that was added: dropping it gives back the memory there was.
LEMMA ChildDropped ==
  ASSUME NEW s, SInv(s), NEW p, NEW x, NEW u, SInv(u), Child(s, p, x, u), s.d[p].used
  PROVE  Dput(u, x) = s
<1>1. /\ p \in Dentries /\ x \in Dentries /\ x # p /\ x # Root
      /\ u \in MemType /\ s \in MemType
  BY DEF Child, SInv
<1>2. \A y \in Dentries : Outer(u, y) = Outer(s, y) + One(x, y)
  BY <1>1, ChildCounts
<1>3. \A y \in Dentries :
         /\ Outer(s, y) >= One(Root, y) /\ Outer(s, y) \in Int /\ s.d[y].count \in Nat
         /\ Outer(s, y) <= s.d[y].count
  BY <1>1, OuterIsInt DEF SInv, CountsOK
<1>4. Spare(u, x)
  BY <1>1, <1>2, <1>3 DEF Spare, One
<1>6. u.d[p].count > 1 /\ u.d[p].used
  <2>1. s.d[p].count >= 1 /\ s.d[p].count \in Nat
    BY <1>1, <1>3 DEF SInv, DentriesOK
  <2>2. u.d[p].count = s.d[p].count + 1 /\ u.d[p].used = s.d[p].used
    BY <1>1 DEF Child, One
  <2> QED BY <2>1, <2>2
<1>11. u.d[x].count = 1 /\ u.d[x].parent = p /\ Outer(u, x) >= 1
  BY <1>1, <1>2, <1>3 DEF Child, One
<1>12. PICK r : r = Released(u, x)
  OBVIOUS
<1>13. /\ SInv(r)
       /\ \A y \in Dentries : Outer(r, y) = Outer(u, y) - One(x, y) + One(p, y)
       /\ \A y \in Dentries : y # x => r.d[y] = u.d[y]
       /\ r.d[x] = FreeDentry
       /\ \A n \in Inodes : r.i[n] = IF n = u.d[x].inode THEN FreeInode ELSE u.i[n]
  BY <1>1, <1>11, <1>12, ReleasedOK
<1>14. Dput(u, x) = Dput(r, p)
  BY <1>1, <1>4, <1>11, <1>12, DputClimbs
<1>15. Spare(r, p) /\ r.d[p].count > 1 /\ r.d[p].used
  BY <1>1, <1>2, <1>3, <1>6, <1>13 DEF Spare, One
<1>16. Dput(r, p) = Drop(r, p)
  BY <1>1, <1>13, <1>15, DputDrops
<1>17. PICK q : q = Drop(r, p)
  OBVIOUS
<1>18. /\ Recount(r, q) /\ q \in MemType
       /\ \A y \in Dentries : q.d[y].count = r.d[y].count - One(p, y)
  BY <1>1, <1>13, <1>15, <1>17, DropCounts DEF Recount, SInv
<1>19. s.d[x] = FreeDentry
  BY <1>1 DEF SInv, DentriesOK, Child
<1>20. q.d[x] = FreeDentry
  <2>1. ~r.d[x].used
    BY <1>13 DEF FreeDentry
  <2> QED BY <1>1, <1>13, <1>18, <2>1 DEF Recount
<1>21. ASSUME NEW n \in Inodes PROVE q.i[n] = s.i[n]
  <2>1. q.i[n] = r.i[n]
    BY <1>18 DEF Recount
  <2>2. ~s.i[n].used => s.i[n] = FreeInode
    BY DEF SInv, InodesOK
  <2> QED BY <1>13, <2>1, <2>2 DEF Child
<1>22. ASSUME NEW y \in Dentries, y # x
       PROVE /\ q.d[y].used = s.d[y].used /\ q.d[y].count = s.d[y].count
             /\ q.d[y].parent = s.d[y].parent /\ q.d[y].name = s.d[y].name
             /\ q.d[y].inode = s.d[y].inode /\ q.d[y].listed = s.d[y].listed
  <2>1. r.d[y] = u.d[y]
    BY <1>13, <1>22
  <2>2. /\ q.d[y].used = r.d[y].used /\ q.d[y].count = r.d[y].count - One(p, y)
        /\ q.d[y].parent = r.d[y].parent /\ q.d[y].name = r.d[y].name
        /\ q.d[y].inode = r.d[y].inode /\ q.d[y].listed = r.d[y].listed
    BY <1>18 DEF Recount
  <2>3. /\ u.d[y].used = s.d[y].used /\ u.d[y].count = s.d[y].count + One(p, y)
        /\ u.d[y].parent = s.d[y].parent /\ u.d[y].name = s.d[y].name
        /\ u.d[y].inode = s.d[y].inode /\ u.d[y].listed = s.d[y].listed
    BY <1>22 DEF Child
  <2>4. s.d[y].count \in Nat /\ One(p, y) \in Int
    BY <1>3 DEF One
  <2> QED BY <2>1, <2>2, <2>3, <2>4
<1>23. q = s
  BY <1>1, <1>18, <1>19, <1>20, <1>21, <1>22, SameMemory
<1> QED BY <1>14, <1>16, <1>17, <1>23

\* Dropping it after the reference on its parent comes to the same.
LEMMA ChildUndone ==
  ASSUME NEW s, SInv(s), NEW p, NEW x, NEW u, SInv(u), Child(s, p, x, u), Spare(s, p)
  PROVE  /\ Spare(u, x) /\ Spare(u, p) /\ Spare(Dput(u, p), x)
         /\ Dput(u, p) = Drop(u, p)
         /\ Dput(Dput(u, p), x) = Dput(s, p)
<1>1. /\ p \in Dentries /\ x \in Dentries /\ x # p /\ x # Root
      /\ u \in MemType /\ s \in MemType
  BY DEF Child, SInv
<1>2. \A y \in Dentries : Outer(u, y) = Outer(s, y) + One(x, y)
  BY <1>1, ChildCounts
<1>3. \A y \in Dentries :
         /\ Outer(s, y) >= One(Root, y) /\ Outer(s, y) \in Int /\ s.d[y].count \in Nat
         /\ Outer(s, y) <= s.d[y].count
  BY <1>1, OuterIsInt DEF SInv, CountsOK
<1>4. Spare(u, x) /\ Spare(u, p)
  BY <1>1, <1>2, <1>3 DEF Spare, One
<1>5. s.d[p].count >= 1 /\ u.d[p].count = s.d[p].count + 1 /\ s.d[p].used
  <2>1. s.d[p].count >= 1 /\ s.d[p].used
    BY <1>1, DputRound
  <2> QED BY <1>1, <2>1 DEF Child, One
<1>6. u.d[p].count > 1 /\ u.d[p].used
  BY <1>1, <1>3, <1>5 DEF Child
<1>7. Dput(u, p) = Drop(u, p)
  BY <1>1, <1>4, <1>6, DputDrops
<1>8. PICK v : v = Drop(u, p)
  OBVIOUS
<1>9. /\ Recount(u, v) /\ v \in MemType
      /\ \A y \in Dentries : v.d[y].count = u.d[y].count - One(p, y)
  BY <1>1, <1>6, <1>8, DropCounts DEF Recount
<1>10. /\ SInv(v)
       /\ \A y \in Dentries : Outer(v, y) = Outer(u, y) - One(p, y)
  BY <1>1, <1>4, <1>7, <1>8, DputOK
<1>11. v.d[x].count = 1 /\ v.d[x].parent = p /\ v.d[x].inode = u.d[x].inode
  BY <1>1, <1>9 DEF Recount, Child, One
<1>12. Outer(v, x) >= 1 /\ Spare(v, x)
  BY <1>1, <1>2, <1>3, <1>10 DEF Spare, One
<1>13. Released(v, x) = s
  <2>1. PICK r : r = Released(v, x)
    OBVIOUS
  <2>2. /\ SInv(r)
        /\ \A y \in Dentries : y # x => r.d[y] = v.d[y]
        /\ r.d[x] = FreeDentry
        /\ \A n \in Inodes : r.i[n] = IF n = v.d[x].inode THEN FreeInode ELSE v.i[n]
    BY <1>1, <1>10, <1>11, <1>12, <2>1, ReleasedOK
  <2>3. s.d[x] = FreeDentry
    BY <1>1 DEF SInv, DentriesOK, Child
  <2>4. ASSUME NEW n \in Inodes PROVE r.i[n] = s.i[n]
    <3>1. v.i[n] = u.i[n]
      BY <1>9 DEF Recount
    <3>2. ~s.i[n].used => s.i[n] = FreeInode
      BY DEF SInv, InodesOK
    <3> QED BY <1>11, <2>2, <3>1, <3>2 DEF Child
  <2>5. ASSUME NEW y \in Dentries, y # x
        PROVE /\ r.d[y].used = s.d[y].used /\ r.d[y].count = s.d[y].count
              /\ r.d[y].parent = s.d[y].parent /\ r.d[y].name = s.d[y].name
              /\ r.d[y].inode = s.d[y].inode /\ r.d[y].listed = s.d[y].listed
    <3>1. r.d[y] = v.d[y]
      BY <2>2, <2>5
    <3>2. /\ v.d[y].used = u.d[y].used /\ v.d[y].count = u.d[y].count - One(p, y)
          /\ v.d[y].parent = u.d[y].parent /\ v.d[y].name = u.d[y].name
          /\ v.d[y].inode = u.d[y].inode /\ v.d[y].listed = u.d[y].listed
      BY <1>9 DEF Recount
    <3>3. /\ u.d[y].used = s.d[y].used /\ u.d[y].count = s.d[y].count + One(p, y)
          /\ u.d[y].parent = s.d[y].parent /\ u.d[y].name = s.d[y].name
          /\ u.d[y].inode = s.d[y].inode /\ u.d[y].listed = s.d[y].listed
      BY <2>5 DEF Child
    <3>4. s.d[y].count \in Nat /\ One(p, y) \in Int
      BY <1>3 DEF One
    <3> QED BY <3>1, <3>2, <3>3, <3>4
  <2>6. r = s
    <3>1. r \in MemType
      BY <2>2 DEF SInv
    <3> QED BY <1>1, <2>2, <2>3, <2>4, <2>5, <3>1, SameMemory
  <2> QED BY <2>1, <2>6
<1>14. Dput(v, x) = Dput(s, p)
  BY <1>1, <1>10, <1>11, <1>12, <1>13, DputClimbs
<1> QED BY <1>4, <1>7, <1>8, <1>12, <1>14

\* The inode of a new dentry: none, or one of a slot that was free.
Fresh(u, x) ==
    IF u.d[x].inode = Null THEN ~u.d[x].listed
    ELSE /\ u.d[x].listed
         /\ u.i[u.d[x].inode].used /\ u.i[u.d[x].inode].count = 2
         /\ InoOf(u, x) \in Inos /\ KindOf(u, x) # "free"

LEMMA ChildOK ==
  ASSUME NEW s, SInv(s), NEW p, NEW x, NEW u \in MemType, Child(s, p, x, u), Fresh(u, x),
         s.d[p].used
  PROVE  SInv(u) /\ Shrunk(u, s)
<1>1. p \in Dentries /\ x \in Dentries /\ x # p /\ x # Root /\ ~s.d[x].used
  BY DEF Child
<1>2. \A y \in Dentries : Outer(u, y) = Outer(s, y) + One(x, y)
  BY ChildCounts
<1>3. \A y \in Dentries :
         /\ Outer(s, y) >= One(Root, y) /\ Outer(s, y) \in Int /\ s.d[y].count \in Nat
         /\ s.d[y].inode \in Inodes \cup {Null} /\ u.d[y].inode \in Inodes \cup {Null}
  BY OuterIsInt DEF SInv, CountsOK, MemType, DentryType
<1>4. CountsOK(u)
  BY <1>2, <1>3 DEF CountsOK, One
<1>5. s.d[x] = FreeDentry /\ s.d[x].inode = Null
  <2>1. s.d[x] = FreeDentry
    BY <1>1 DEF SInv, DentriesOK
  <2> QED BY <2>1 DEF FreeDentry
<1> DEFINE n0 == u.d[x].inode
<1>6. n0 # Null => n0 \in Inodes /\ ~s.i[n0].used /\ u.i[n0].used
  BY <1>1, <1>3 DEF Child, Fresh
<1>7. ASSUME NEW y \in Dentries, y # x, s.d[y].inode # Null
      PROVE  /\ s.d[y].inode # n0 /\ s.d[y].inode \in Inodes
             /\ u.i[s.d[y].inode] = s.i[s.d[y].inode]
  <2>1. s.i[s.d[y].inode].used /\ s.d[y].inode \in Inodes
    BY <1>3, <1>7 DEF SInv, DentriesOK
  <2>2. s.d[y].inode # n0
    BY <1>6, <1>7, <2>1
  <2> QED BY <2>1, <2>2 DEF Child
<1>8. OwnInodes(u)
  <2> SUFFICES ASSUME NEW y \in Dentries, NEW z \in Dentries, y # z, u.d[y].inode # Null
      PROVE u.d[y].inode # u.d[z].inode
    BY DEF OwnInodes
  <2>1. CASE y = x
    BY <1>3, <1>6, <1>7, <2>1 DEF Child
  <2>2. CASE z = x
    BY <1>3, <1>6, <1>7, <2>2 DEF Child
  <2>3. CASE y # x /\ z # x
    BY <2>3 DEF SInv, OwnInodes, Child
  <2> QED BY <2>1, <2>2, <2>3
<1>9. DentriesOK(u)
  <2> SUFFICES ASSUME NEW y \in Dentries
      PROVE /\ IF u.d[y].used THEN u.d[y].count >= 1 ELSE u.d[y] = FreeDentry
            /\ u.d[y].used /\ y # Root => u.d[y].parent \in Dentries \ {y}
            /\ y # Root => (u.d[y].listed <=> u.d[y].inode # Null)
            /\ u.d[y].inode # Null => u.i[u.d[y].inode].used
    BY DEF DentriesOK
  <2>1. CASE y = x
    BY <1>1, <2>1 DEF Child, Fresh
  <2>2. CASE y # x
    <3>0. /\ u.d[y].used = s.d[y].used /\ u.d[y].count = s.d[y].count + One(p, y)
          /\ u.d[y].parent = s.d[y].parent /\ u.d[y].name = s.d[y].name
          /\ u.d[y].inode = s.d[y].inode /\ u.d[y].listed = s.d[y].listed
      BY <2>2 DEF Child
    <3>1. /\ u.d[y].used /\ y # Root => u.d[y].parent \in Dentries \ {y}
          /\ y # Root => (u.d[y].listed <=> u.d[y].inode # Null)
      BY <3>0 DEF SInv, DentriesOK
    <3>2. u.d[y].inode # Null => u.i[u.d[y].inode].used
      BY <1>7, <2>2, <3>0 DEF SInv, DentriesOK
    <3>3. CASE s.d[y].used
      <4>1. s.d[y].count >= 1
        BY <3>3 DEF SInv, DentriesOK
      <4>2. u.d[y].count >= 1
        BY <1>3, <3>0, <4>1 DEF One
      <4> QED BY <3>0, <3>1, <3>2, <3>3, <4>2
    <3>4. CASE ~s.d[y].used
      <4>1. y # p
        BY <3>4
      <4>2. s.d[y] = FreeDentry
        BY <3>4 DEF SInv, DentriesOK
      <4>3. u.d[y].count = s.d[y].count
        BY <1>3, <3>0, <4>1 DEF One
      <4>4. u.d[y] = FreeDentry
        <5>1. u.d[y] \in DentryType /\ s.d[y] \in DentryType
          BY DEF SInv, MemType
        <5>2. u.d[y] = s.d[y]
          BY <3>0, <4>3, <5>1 DEF DentryType
        <5> QED BY <4>2, <5>2
      <4> QED BY <3>0, <3>1, <3>2, <3>4, <4>4
    <3> QED BY <3>3, <3>4
  <2> QED BY <2>1, <2>2
<1>10. InodesOK(u)
  <2> SUFFICES ASSUME NEW n \in Inodes
      PROVE IF u.i[n].used
            THEN u.i[n].count = 2 /\ u.i[n].ino \in Inos /\ u.i[n].kind # "free"
            ELSE u.i[n] = FreeInode
    BY DEF InodesOK
  <2>1. CASE n = n0
    BY <2>1, Basics DEF Fresh, InoOf, KindOf
  <2>2. CASE n # n0
    BY <2>2 DEF Child, SInv, InodesOK
  <2> QED BY <2>1, <2>2
<1>11. RootOK(u)
  <2>1. Root \in Dentries /\ s.d[Root].inode # Null
    BY Basics DEF SInv, RootOK
  <2>2. u.i[s.d[Root].inode] = s.i[s.d[Root].inode] /\ u.d[Root].inode = s.d[Root].inode
    BY <1>1, <1>7, <2>1 DEF Child
  <2> QED BY <1>1, <2>1, <2>2 DEF SInv, RootOK, InoOf, KindOf, Child
<1>12. NoOrphan(u)
  <2> SUFFICES ASSUME ~FsFails, NEW n \in Inodes, u.i[n].used
      PROVE \E y \in Dentries : u.d[y].inode = n
    BY DEF NoOrphan
  <2>1. CASE n = n0
    BY <1>1, <2>1
  <2>2. CASE n # n0
    <3>1. s.i[n].used
      BY <2>2 DEF Child
    <3>2. PICK y \in Dentries : s.d[y].inode = n
      BY <3>1 DEF SInv, NoOrphan
    <3>3. y # x
      BY <1>5, <3>2, Basics
    <3> QED BY <3>2, <3>3 DEF Child
  <2> QED BY <2>1, <2>2
<1>13. Shrunk(u, s)
  <2>1. \A n \in Inodes : s.i[n].used => s.i[n] = u.i[n]
    BY DEF Child
  <2> QED BY <1>1, <2>1 DEF Child, Shrunk
<1> QED BY <1>4, <1>8, <1>9, <1>10, <1>11, <1>12, <1>13 DEF SInv

\* A new dentry that stands for an entry of its directory, whose inode has no
\* object in memory yet.
LEMMA ChildCoherent ==
  ASSUME NEW s, SInv(s), NEW p, NEW x, NEW u, SInv(u), Child(s, p, x, u), Shrunk(u, s),
         NEW dk, CInv(s, dk), s.d[p].used,
         u.d[x].inode # Null =>
            /\ s.d[p].inode # Null
            /\ Has(dk, InoOf(s, p), u.d[x].name, InoOf(u, x))
            /\ dk.kind[InoOf(u, x)] = KindOf(u, x)
            /\ \A y \in Dentries : s.d[y].inode # Null => InoOf(s, y) # InoOf(u, x)
  PROVE  CInv(u, dk)
<1>1. p \in Dentries /\ x \in Dentries /\ x # p /\ x # Root /\ ~s.d[x].used
  BY DEF Child
<1>2. ASSUME NEW y \in Dentries, y # x, s.d[y].inode # Null
      PROVE  /\ u.d[y].inode = s.d[y].inode
             /\ InoOf(u, y) = InoOf(s, y) /\ KindOf(u, y) = KindOf(s, y)
  <2>1. s.d[y].inode \in Inodes /\ s.i[s.d[y].inode].used
    BY <1>2 DEF SInv, DentriesOK, MemType, DentryType
  <2>2. u.i[s.d[y].inode] = s.i[s.d[y].inode] /\ u.d[y].inode = s.d[y].inode
    BY <1>2, <2>1 DEF Shrunk, Child
  <2> QED BY <2>2 DEF InoOf, KindOf
<1>3. ASSUME NEW y \in Dentries, u.d[y].listed
      PROVE  /\ u.d[u.d[y].parent].inode # Null
             /\ Has(dk, InoOf(u, u.d[y].parent), u.d[y].name, InoOf(u, y))
             /\ dk.kind[InoOf(u, y)] = KindOf(u, y)
  <2>1. y # Root /\ u.d[y].inode # Null
    BY <1>3 DEF SInv, DentriesOK, RootOK
  <2>2. CASE y = x
    <3>1. u.d[y].parent = p
      BY <2>2 DEF Child
    <3> QED BY <1>1, <1>2, <2>1, <2>2, <3>1
  <2>3. CASE y # x
    <3>1. /\ s.d[y].listed /\ s.d[y].inode # Null /\ u.d[y].parent = s.d[y].parent
          /\ u.d[y].name = s.d[y].name
      BY <1>3, <2>1, <2>3 DEF Child
    <3>2. /\ s.d[s.d[y].parent].inode # Null
          /\ Has(dk, InoOf(s, s.d[y].parent), s.d[y].name, InoOf(s, y))
          /\ dk.kind[InoOf(s, y)] = KindOf(s, y)
      BY <3>1 DEF CInv
    <3>3. s.d[y].used
      BY <3>1 DEF SInv, DentriesOK, FreeDentry
    <3>4. s.d[y].parent \in Dentries /\ s.d[s.d[y].parent].used
      BY <2>1, <3>3, ParentHeld
    <3>5. s.d[y].parent # x
      BY <1>1, <3>4
    <3> QED BY <1>2, <2>3, <3>1, <3>2, <3>4, <3>5
  <2> QED BY <2>2, <2>3
<1>4. ASSUME NEW y \in Dentries, NEW z \in Dentries,
             y # z, u.d[y].inode # Null, u.d[z].inode # Null
      PROVE  InoOf(u, y) # InoOf(u, z)
  <2>1. CASE y = x
    BY <1>2, <1>4, <2>1 DEF Child
  <2>2. CASE z = x
    BY <1>2, <1>4, <2>2 DEF Child
  <2>3. CASE y # x /\ z # x
    BY <1>2, <1>4, <2>3 DEF Child, CInv
  <2> QED BY <2>1, <2>2, <2>3
<1> QED BY <1>3, <1>4 DEF CInv

LEMMA DAllocChild ==
  ASSUME NEW s, SInv(s), NEW p \in Dentries, s.d[p].used, NEW name \in Components
  PROVE  LET x == DAlloc(s, p, name).d
             u == DAlloc(s, p, name).s
         IN  /\ x = LowestFree(s.d)
             /\ x = Null => u = s
             /\ x # Null =>
                  /\ u \in MemType /\ Child(s, p, x, u) /\ u.i = s.i
                  /\ u.d[x].inode = Null /\ ~u.d[x].listed /\ u.d[x].name = name
<1> DEFINE x == LowestFree(s.d)
           e == [FreeDentry EXCEPT !.used = TRUE, !.count = 1, !.parent = p, !.name = name]
           t == [s EXCEPT !.d[x] = e]
           u == DAlloc(s, p, name).s
<1>1. DAlloc(s, p, name).d = x /\ u = IF x = Null THEN s ELSE Dget(t, p)
  BY DEF DAlloc
<1>2. SUFFICES ASSUME x # Null
      PROVE  /\ u \in MemType /\ Child(s, p, x, u) /\ u.i = s.i
             /\ u.d[x].inode = Null /\ ~u.d[x].listed /\ u.d[x].name = name
  BY <1>1
<1>3. s.d \in [Dentries -> DentryType] /\ s.i \in [Inodes -> InodeType] /\ s = [d |-> s.d, i |-> s.i]
  BY DEF SInv, MemType
<1>4. x \in Dentries /\ ~s.d[x].used
  <2>1. DOMAIN s.d = Dentries
    BY <1>3
  <2> QED BY <1>2, <2>1, FreeSlot, Basics
<1>5. x # p /\ x # Root
  BY <1>4 DEF SInv, RootOK
<1>6. /\ e \in DentryType
      /\ e.used /\ e.count = 1 /\ e.parent = p /\ e.name = name /\ e.inode = Null
      /\ ~e.listed
  BY DEF FreeDentry, DentryType
<1> HIDE DEF e, x
<1>7. t = [d |-> [s.d EXCEPT ![x] = e], i |-> s.i]
  BY <1>3
<1>8. /\ t \in MemType /\ t.d[x] = e /\ t.i = s.i
      /\ \A y \in Dentries : y # x => t.d[y] = s.d[y]
  BY <1>3, <1>4, <1>6, <1>7 DEF MemType
<1> HIDE DEF t
<1>9. t.d[p].used
  BY <1>5, <1>8
<1>10. /\ Recount(t, Dget(t, p))
       /\ \A y \in Dentries : Dget(t, p).d[y].count = t.d[y].count + One(p, y)
  BY <1>8, <1>9, DgetCounts
<1>11. u = Dget(t, p)
  BY <1>1, <1>2
<1> HIDE DEF u
<1>12. /\ u \in MemType /\ u.i = s.i
       /\ \A y \in Dentries :
          /\ u.d[y].used = t.d[y].used /\ u.d[y].parent = t.d[y].parent
          /\ u.d[y].name = t.d[y].name /\ u.d[y].inode = t.d[y].inode
          /\ u.d[y].listed = t.d[y].listed /\ u.d[y].count = t.d[y].count + One(p, y)
  BY <1>8, <1>10, <1>11 DEF Recount
<1>13. /\ u.d[x].used /\ u.d[x].parent = p /\ u.d[x].name = name /\ u.d[x].inode = Null
       /\ ~u.d[x].listed /\ u.d[x].count = 1
  BY <1>4, <1>5, <1>6, <1>8, <1>12 DEF One
<1>14. \A n \in Inodes : IF n = u.d[x].inode THEN ~s.i[n].used ELSE u.i[n] = s.i[n]
  BY <1>12, <1>13, Basics
<1>15. Child(s, p, x, u)
  BY <1>4, <1>5, <1>8, <1>12, <1>13, <1>14 DEF Child
<1> QED BY <1>12, <1>13, <1>15

LEMMA InstantiateChild ==
  ASSUME NEW s, SInv(s), NEW p, NEW x, NEW t \in MemType, Child(s, p, x, t), t.i = s.i,
         NEW ino \in Inos, NEW kind \in {"dir", "file"}, LowestFree(t.i) # Null
  PROVE  LET u == Instantiate(t, x, ino, kind)
         IN  /\ u \in MemType /\ Child(s, p, x, u) /\ Fresh(u, x)
             /\ u.d[x].inode # Null /\ InoOf(u, x) = ino /\ KindOf(u, x) = kind
             /\ u.d[x].name = t.d[x].name
<1> DEFINE n == LowestFree(t.i)
           e == [t.d[x] EXCEPT !.inode = n, !.listed = TRUE]
           o == [used |-> TRUE, count |-> 2, ino |-> ino, kind |-> kind]
           u == Instantiate(t, x, ino, kind)
<1>1. t.d \in [Dentries -> DentryType] /\ t.i \in [Inodes -> InodeType]
  BY DEF MemType
<1>2. n \in Inodes /\ ~s.i[n].used
  <2>1. DOMAIN t.i = Inodes
    BY <1>1
  <2> QED BY <2>1, FreeSlot, Basics
<1>3. x \in Dentries /\ n # Null
  BY DEF Child
<1>4. u = [t EXCEPT !.i[n] = o, !.d[x].inode = n, !.d[x].listed = TRUE]
  BY <1>3 DEF Instantiate
<1>5. u = [d |-> [t.d EXCEPT ![x] = e], i |-> [t.i EXCEPT ![n] = o]]
  <2>1. u = [d |-> [t.d EXCEPT ![x].inode = n, ![x].listed = TRUE],
             i |-> [t.i EXCEPT ![n] = o]]
    <3> HIDE DEF o, n, u
    <3> QED BY <1>4 DEF MemType
  <2>2. [t.d EXCEPT ![x].inode = n, ![x].listed = TRUE] = [t.d EXCEPT ![x] = e]
    <3> HIDE DEF n
    <3> QED BY <1>1, <1>3
  <2> QED BY <2>1, <2>2
<1>6. t.d[x] \in DentryType
  BY <1>1, <1>3
<1>7. /\ e \in DentryType /\ e.inode = n /\ e.listed = TRUE
      /\ e.used = t.d[x].used /\ e.count = t.d[x].count /\ e.parent = t.d[x].parent
      /\ e.name = t.d[x].name
  BY <1>2, <1>6 DEF DentryType
<1>8. o \in InodeType /\ o.used /\ o.count = 2 /\ o.ino = ino /\ o.kind = kind
  BY DEF InodeType
<1> HIDE DEF u, e, o, n
<1>9. /\ u \in MemType /\ u.d[x] = e /\ u.i[n] = o
      /\ \A y \in Dentries : y # x => u.d[y] = t.d[y]
      /\ \A m \in Inodes : m # n => u.i[m] = t.i[m]
  BY <1>1, <1>2, <1>3, <1>5, <1>7, <1>8 DEF MemType
<1>10. Child(s, p, x, u)
  <2>1. \A m \in Inodes : IF m = u.d[x].inode THEN ~s.i[m].used ELSE u.i[m] = s.i[m]
    BY <1>2, <1>7, <1>9
  <2>2. /\ p \in Dentries /\ x \in Dentries \ {Root, p} /\ ~s.d[x].used
        /\ t.d[x].used /\ t.d[x].count = 1 /\ t.d[x].parent = p
    BY DEF Child
  <2>3. u.d[x].used /\ u.d[x].count = 1 /\ u.d[x].parent = p
    BY <1>7, <1>9, <2>2
  <2>4. \A y \in Dentries : y # x =>
          /\ u.d[y].used = s.d[y].used /\ u.d[y].count = s.d[y].count + One(p, y)
          /\ u.d[y].parent = s.d[y].parent /\ u.d[y].name = s.d[y].name
          /\ u.d[y].inode = s.d[y].inode /\ u.d[y].listed = s.d[y].listed
    BY <1>9 DEF Child
  <2> QED BY <2>1, <2>2, <2>3, <2>4 DEF Child
<1>11. Fresh(u, x) /\ InoOf(u, x) = ino /\ KindOf(u, x) = kind
  <2>1. kind # "free"
    OBVIOUS
  <2> QED BY <1>3, <1>7, <1>8, <1>9, <2>1 DEF Fresh, InoOf, KindOf
<1> QED BY <1>3, <1>7, <1>9, <1>10, <1>11 DEF u
-----------------------------------------------------------------------------
(* Directories and path walking.                                            *)

LEMMA Slots ==
  ASSUME NEW dk, EInv(dk), NEW o \in Inos
  PROVE  /\ DOMAIN dk.dir[o] \subseteq Nat /\ Null \notin DOMAIN dk.dir[o]
         /\ \A k \in DOMAIN dk.dir[o] :
               IF dk.dir[o][k] = Hole THEN dk.dir[o][k].name = Dot /\ dk.dir[o][k].ino = Null
               ELSE /\ dk.dir[o][k].name \in Names /\ dk.dir[o][k].ino \in Inos
                    /\ dk.dir[o][k] = [name |-> dk.dir[o][k].name, ino |-> dk.dir[o][k].ino]
<1>1. dk.dir[o] \in Seq({Hole} \cup [name : Components, ino : Inos])
  BY DEF EInv, DiskType
<1>2. DOMAIN dk.dir[o] = 1 .. Len(dk.dir[o]) /\ Len(dk.dir[o]) \in Nat
  BY <1>1
<1>3. DOMAIN dk.dir[o] \subseteq Nat /\ Null \notin DOMAIN dk.dir[o]
  BY <1>2 DEF Null
<1>4. ASSUME NEW k \in DOMAIN dk.dir[o]
      PROVE  IF dk.dir[o][k] = Hole THEN dk.dir[o][k].name = Dot /\ dk.dir[o][k].ino = Null
             ELSE /\ dk.dir[o][k].name \in Names /\ dk.dir[o][k].ino \in Inos
                  /\ dk.dir[o][k] = [name |-> dk.dir[o][k].name, ino |-> dk.dir[o][k].ino]
  <2>1. PICK e : e = dk.dir[o][k]
    OBVIOUS
  <2>2. e \in {Hole} \cup [name : Components, ino : Inos]
    BY <1>1, <1>2, <2>1
  <2>3. e = Hole => e.name = Dot /\ e.ino = Null
    BY DEF Hole
  <2>4. e # Hole => e.name \in Names
    BY <2>1 DEF EInv
  <2> QED BY <2>1, <2>2, <2>3, <2>4
<1> QED BY <1>3, <1>4

LEMMA FindSlotOK ==
  ASSUME EInv(disk), NEW dir \in Inos, NEW name \in Names
  PROVE  LET k == FindSlot(dir, name)
         IN  /\ k # Null =>
                  /\ k \in DOMAIN disk.dir[dir] /\ disk.dir[dir][k].name = name
                  /\ disk.dir[dir][k] # Hole /\ disk.dir[dir][k].ino \in Inos
                  /\ Has(disk, dir, name, disk.dir[dir][k].ino)
             /\ k = Null <=> \A j \in DOMAIN disk.dir[dir] : disk.dir[dir][j].name # name
<1> DEFINE hit == {k \in DOMAIN disk.dir[dir] : disk.dir[dir][k].name = name}
           k == FindSlot(dir, name)
<1>1. k = IF hit = {} THEN Null ELSE Min(hit)
  BY DEF FindSlot
<1>2. hit \in SUBSET Nat /\ Null \notin hit
  BY Slots
<1>3. hit # {} => Min(hit) \in hit
  <2> HIDE DEF hit
  <2> QED BY <1>2, MinIsIn
<1> HIDE DEF k
<1>4. k # Null => k \in hit
  BY <1>1, <1>3
<1>5. k = Null <=> hit = {}
  BY <1>1, <1>2, <1>3
<1>6. ASSUME k # Null
      PROVE  /\ k \in DOMAIN disk.dir[dir] /\ disk.dir[dir][k].name = name
             /\ disk.dir[dir][k] # Hole /\ disk.dir[dir][k].ino \in Inos
             /\ Has(disk, dir, name, disk.dir[dir][k].ino)
  <2>1. k \in DOMAIN disk.dir[dir] /\ disk.dir[dir][k].name = name
    BY <1>4, <1>6
  <2>2. /\ disk.dir[dir][k] # Hole /\ disk.dir[dir][k].ino \in Inos
        /\ disk.dir[dir][k] = [name |-> name, ino |-> disk.dir[dir][k].ino]
    BY <2>1, Slots, Basics
  <2> QED BY <2>1, <2>2 DEF Has
<1> QED BY <1>5, <1>6 DEF k

\* A dentry with an inode: its slot, and its parent has one as well.
LEMMA PositiveDentry ==
  ASSUME NEW s, SInv(s), NEW x \in Dentries, s.d[x].inode # Null
  PROVE  /\ s.d[x].used /\ s.d[x].inode \in Inodes /\ s.i[s.d[x].inode].used
         /\ InoOf(s, x) \in Inos /\ KindOf(s, x) \in {"dir", "file"}
         /\ s.d[x].parent \in Dentries /\ s.d[s.d[x].parent].used
         /\ \A dk : CInv(s, dk) => s.d[s.d[x].parent].inode # Null
         /\ x # Root => s.d[x].listed /\ s.d[x].parent # x
         /\ \A dk : CInv(s, dk) /\ EInv(dk) => dk.kind[InoOf(s, x)] = KindOf(s, x)
<1>1. s.d[x].used
  BY DEF SInv, DentriesOK, FreeDentry
<1>2. s.d[x].inode \in Inodes
  BY DEF SInv, MemType, DentryType
<1>3. s.i[s.d[x].inode].used
  BY DEF SInv, DentriesOK
<1>4. InoOf(s, x) \in Inos /\ KindOf(s, x) \in {"dir", "file"}
  <2>1. s.i[s.d[x].inode].kind \in {"free", "dir", "file"}
    BY <1>2 DEF SInv, MemType, InodeType
  <2> QED BY <1>2, <1>3, <2>1 DEF SInv, InodesOK, InoOf, KindOf
<1>5. CASE x = Root
  BY <1>1, <1>2, <1>3, <1>4, <1>5, Basics DEF SInv, RootOK, EInv
<1>6. CASE x # Root
  <2>1. s.d[x].listed
    BY <1>6 DEF SInv, DentriesOK
  <2>2. s.d[x].parent \in Dentries \ {x} /\ s.d[s.d[x].parent].used
    BY <1>1, <1>6, ParentHeld
  <2>3. \A dk : CInv(s, dk) => /\ s.d[s.d[x].parent].inode # Null
                               /\ dk.kind[InoOf(s, x)] = KindOf(s, x)
    BY <2>1 DEF CInv
  <2> QED BY <1>1, <1>2, <1>3, <1>4, <2>1, <2>2, <2>3
<1> QED BY <1>5, <1>6

\* An entry that d_lookup does not know has no object in memory.
LEMMA EntryFresh ==
  ASSUME NEW s, SInv(s), EInv(disk), CInv(s, disk), NEW p \in Dentries, s.d[p].inode # Null,
         NEW name \in Names, NEW ino, Has(disk, InoOf(s, p), name, ino),
         DLookup(s, p, name) = {}
  PROVE  \A y \in Dentries : s.d[y].inode # Null => InoOf(s, y) # ino
<1> SUFFICES ASSUME NEW y \in Dentries, s.d[y].inode # Null, InoOf(s, y) = ino PROVE FALSE
  OBVIOUS
<1>1. InoOf(s, p) \in Inos
  BY PositiveDentry
<1>2. PICK k \in DOMAIN disk.dir[InoOf(s, p)] :
         disk.dir[InoOf(s, p)][k] = [name |-> name, ino |-> ino]
  BY DEF Has
<1>3. disk.dir[InoOf(s, p)][k] # Hole /\ disk.dir[InoOf(s, p)][k].ino = ino
  BY <1>2, Basics DEF Hole
<1>4. ino # RootIno
  BY <1>1, <1>2, <1>3 DEF EInv
<1>5. y # Root
  BY <1>4 DEF SInv, RootOK
<1>6. s.d[y].listed /\ s.d[y].parent \in Dentries /\ s.d[s.d[y].parent].inode # Null
  BY <1>5, PositiveDentry
<1> DEFINE q == s.d[y].parent
<1>7. Has(disk, InoOf(s, q), s.d[y].name, ino)
  BY <1>6 DEF CInv
<1>8. PICK j \in DOMAIN disk.dir[InoOf(s, q)] :
         disk.dir[InoOf(s, q)][j] = [name |-> s.d[y].name, ino |-> ino]
  BY <1>7 DEF Has
<1>9. InoOf(s, q) \in Inos
  BY <1>6, PositiveDentry
<1>10. disk.dir[InoOf(s, q)][j].ino = ino
  BY <1>8
<1>11. InoOf(s, q) = InoOf(s, p) /\ j = k
  BY <1>1, <1>2, <1>3, <1>8, <1>9, <1>10 DEF EInv
<1>12. q = p
  BY <1>6, <1>11 DEF CInv
<1>13. s.d[y].name = name
  BY <1>2, <1>8, <1>11
<1> QED BY <1>6, <1>12, <1>13 DEF DLookup

\* A walk that started from memory s0 with a reference on the start: when it
\* fails nothing has changed, and until then a dput of the dentry it holds
\* would give s0 back.
WalkInv(s0, w) ==
    IF w.d = Null THEN w.s = s0
    ELSE /\ w.d \in Dentries /\ SInv(w.s) /\ CInv(w.s, disk)
         /\ w.s.d[w.d].inode # Null
         /\ Spare(w.s, w.d)
         /\ Dput(w.s, w.d) = s0

\* Moving the reference to a child that is cached.
LEMMA HitMoves ==
  ASSUME NEW s, SInv(s), NEW p \in Dentries, Spare(s, p), NEW x \in Dentries,
         x # Root, s.d[x].used, s.d[x].parent = p
  PROVE  LET v == Dput(Dget(s, x), p)
         IN  /\ SInv(v) /\ Shrunk(s, v)
             /\ \A dk : CInv(s, dk) => CInv(v, dk)
             /\ v.d[x].inode = s.d[x].inode /\ Spare(v, x)
             /\ Dput(v, x) = Dput(s, p)
<1>1. p # x /\ s.d[p].used /\ s.d[p].count >= 1 + Outer(s, p)
  BY ParentHeld
<1>2. PICK u : u = Dget(s, x)
  OBVIOUS
<1>3. /\ SInv(u) /\ Shrunk(s, u)
      /\ \A y \in Dentries : Outer(u, y) = Outer(s, y) + One(x, y)
      /\ \A dk : CInv(s, dk) => CInv(u, dk)
  BY <1>2, DgetOK
<1>4. /\ Recount(s, u) /\ s \in MemType /\ u \in MemType
      /\ \A y \in Dentries : u.d[y].count = s.d[y].count + One(x, y)
  BY <1>2, DgetCounts DEF SInv, Recount
<1>5. \A y \in Dentries :
         /\ Outer(s, y) >= One(Root, y) /\ Outer(s, y) \in Int /\ s.d[y].count \in Nat
  BY OuterIsInt DEF SInv, CountsOK
<1>6. s.d[p].count > 1 /\ u.d[p].count = s.d[p].count /\ u.d[p].used
  BY <1>1, <1>4, <1>5 DEF Spare, One, Recount
<1>7. Spare(u, p)
  BY <1>1, <1>3, <1>5 DEF Spare, One
<1>8. PICK v : v = Dput(u, p)
  OBVIOUS
<1>9. v = Drop(u, p)
  BY <1>3, <1>6, <1>7, <1>8, DputDrops
<1>10. /\ Recount(u, v) /\ v \in MemType
       /\ \A y \in Dentries : v.d[y].count = u.d[y].count - One(p, y)
  BY <1>4, <1>6, <1>9, DropCounts DEF Recount
<1>11. /\ SInv(v) /\ Shrunk(u, v)
       /\ \A y \in Dentries : Outer(v, y) = Outer(u, y) - One(p, y)
       /\ \A dk : CInv(u, dk) => CInv(v, dk)
  BY <1>3, <1>7, <1>8, DputOK
<1>12. Spare(v, x)
  BY <1>1, <1>3, <1>5, <1>11 DEF Spare, One
<1>13. v.d[x].inode = s.d[x].inode /\ v.d[x].used
  BY <1>4, <1>10 DEF Recount
<1>14. v.d[x].count > 1
  <2>1. s.d[x].count >= 1
    BY DEF SInv, DentriesOK
  <2> QED BY <1>1, <1>4, <1>5, <1>10, <2>1 DEF One
<1>15. Dput(v, x) = Drop(v, x)
  BY <1>11, <1>12, <1>14, DputDrops
<1>16. Dput(s, p) = Drop(s, p)
  BY <1>6, DputDrops
<1>17. PICK a, b : a = Drop(v, x) /\ b = Drop(s, p)
  OBVIOUS
<1>18. /\ Recount(v, a) /\ a \in MemType
       /\ \A y \in Dentries : a.d[y].count = v.d[y].count - One(x, y)
  BY <1>10, <1>13, <1>14, <1>17, DropCounts DEF Recount
<1>19. /\ Recount(s, b) /\ b \in MemType
       /\ \A y \in Dentries : b.d[y].count = s.d[y].count - One(p, y)
  BY <1>1, <1>4, <1>6, <1>17, DropCounts DEF Recount
<1>20. a = b
  <2>1. \A y \in Dentries : a.d[y].count = b.d[y].count
    <3> SUFFICES ASSUME NEW y \in Dentries PROVE a.d[y].count = b.d[y].count
      OBVIOUS
    <3>1. One(x, y) \in Int /\ One(p, y) \in Int
      BY DEF One
    <3> QED BY <1>4, <1>5, <1>10, <1>18, <1>19, <3>1
  <2>2. \A y \in Dentries :
            /\ a.d[y].used = b.d[y].used /\ a.d[y].parent = b.d[y].parent
            /\ a.d[y].name = b.d[y].name /\ a.d[y].inode = b.d[y].inode
            /\ a.d[y].listed = b.d[y].listed
    BY <1>4, <1>10, <1>18, <1>19 DEF Recount
  <2>3. a.i = b.i
    BY <1>4, <1>10, <1>18, <1>19 DEF Recount
  <2> QED BY <1>18, <1>19, <2>1, <2>2, <2>3, SameMemory
<1>21. Shrunk(s, v)
  BY <1>3, <1>11, ShrunkTrans
<1> QED BY <1>2, <1>3, <1>8, <1>11, <1>12, <1>13, <1>15, <1>16, <1>17, <1>20, <1>21

LEMMA WalkChildOK ==
  ASSUME NEW s0, NEW w, WalkInv(s0, w), w.d # Null, EInv(disk), NEW name \in Names,
         NEW unread
  PROVE  LET v == WalkChild(w, name, unread)
         IN  WalkInv(s0, v) /\ v.d # Root
<1>1. PICK s, p : s = w.s /\ p = w.d
  OBVIOUS
<1>2. /\ p \in Dentries /\ SInv(s) /\ CInv(s, disk) /\ s.d[p].inode # Null
      /\ Spare(s, p) /\ Dput(s, p) = s0
  BY <1>1 DEF WalkInv
<1>3. s.d[p].used /\ InoOf(s, p) \in Inos
  BY <1>2, PositiveDentry
<1> DEFINE hit == DLookup(s, p, name)
           new == DAlloc(s, p, name)
           x == IF hit # {} THEN CHOOSE y \in hit : TRUE ELSE new.d
           u == IF hit # {} THEN Dget(s, x)
                ELSE IF x = Null THEN new.s ELSE Ext4Lookup(new.s, InoOf(s, p), x, name, unread)
           v == WalkChild(w, name, unread)
<1>4. v = IF x = Null THEN [s |-> Dput(u, p), d |-> Null]
          ELSE IF ~Positive(u, x) THEN [s |-> Dput(Dput(u, x), p), d |-> Null]
          ELSE [s |-> Dput(u, p), d |-> x]
  BY <1>1 DEF WalkChild
<1> HIDE DEF hit, new, x, u, v
<1> SUFFICES WalkInv(s0, v) /\ v.d # Root
  BY <1>1 DEF v
<1>5. CASE hit # {}
  <2>1. x \in hit /\ u = Dget(s, x)
    BY <1>5 DEF x, u
  <2>2. x \in Dentries /\ s.d[x].listed /\ s.d[x].parent = p /\ x # Null
    BY <2>1, Basics DEF hit, DLookup
  <2>3. x # Root /\ s.d[x].inode # Null
    BY <1>2, <2>2 DEF SInv, RootOK, DentriesOK
  <2>4. s.d[x].used
    BY <1>2, <2>2, <2>3, PositiveDentry
  <2>5. PICK t : t = Dput(u, p)
    OBVIOUS
  <2>6. /\ SInv(t) /\ CInv(t, disk) /\ t.d[x].inode = s.d[x].inode /\ Spare(t, x)
        /\ Dput(t, x) = s0
    BY <1>2, <2>1, <2>2, <2>3, <2>4, <2>5, HitMoves
  <2>7. Positive(u, x)
    <3>1. Recount(s, u)
      BY <1>2, <2>1, <2>2, <2>4, DgetCounts DEF SInv
    <3> QED BY <2>2, <2>3, <3>1 DEF Recount, Positive
  <2>8. v = [s |-> t, d |-> x]
    BY <1>4, <2>2, <2>5, <2>7
  <2>9. v.s = t /\ v.d = x
    BY <2>8
  <2> QED BY <2>2, <2>3, <2>6, <2>9 DEF WalkInv
<1>6. CASE hit = {}
  <2>1. x = new.d
    BY <1>6 DEF x
  <2>2. /\ x = LowestFree(s.d)
        /\ x = Null => new.s = s
        /\ x # Null =>
             /\ new.s \in MemType /\ Child(s, p, x, new.s) /\ new.s.i = s.i
             /\ new.s.d[x].inode = Null /\ ~new.s.d[x].listed /\ new.s.d[x].name = name
    <3>1. name \in Components
      BY DEF Components
    <3> QED BY <1>2, <1>3, <2>1, <3>1, DAllocChild DEF new
  <2>3. CASE x = Null
    <3>1. u = s
      BY <1>6, <2>2, <2>3 DEF u
    <3>2. v = [s |-> s0, d |-> Null]
      BY <1>2, <1>4, <2>3, <3>1
    <3>3. v.s = s0 /\ v.d = Null
      BY <3>2
    <3> QED BY <3>3, Basics DEF WalkInv
  <2>4. CASE x # Null
    <3>1. PICK t : t = new.s
      OBVIOUS
    <3>2. /\ t \in MemType /\ Child(s, p, x, t) /\ t.i = s.i /\ t.d[x].inode = Null
          /\ ~t.d[x].listed /\ t.d[x].name = name
      BY <2>2, <2>4, <3>1
    <3>3. u = Ext4Lookup(t, InoOf(s, p), x, name, unread)
      BY <1>6, <2>4, <3>1 DEF u
    <3>4. x \in Dentries /\ x # Root
      BY <3>2 DEF Child
    <3> DEFINE k == FindSlot(InoOf(s, p), name)
               ino == disk.dir[InoOf(s, p)][k].ino
    <3>5. CASE unread \/ k = Null \/ LowestFree(t.i) = Null
      <4>1. u = t
        BY <3>3, <3>5 DEF Ext4Lookup, Instantiate
      <4>2. SInv(t)
        BY <1>2, <1>3, <3>2, ChildOK DEF Fresh
      <4>3. Dput(t, x) = s
        BY <1>2, <1>3, <3>2, <4>2, ChildDropped
      <4>4. v = [s |-> s0, d |-> Null]
        BY <1>2, <1>4, <2>4, <3>2, <4>1, <4>3 DEF Positive
      <4>5. v.s = s0 /\ v.d = Null
        BY <4>4
      <4> QED BY <4>5, Basics DEF WalkInv
    <3>6. CASE ~unread /\ k # Null /\ LowestFree(t.i) # Null
      <4>1. /\ k \in DOMAIN disk.dir[InoOf(s, p)] /\ disk.dir[InoOf(s, p)][k] # Hole
            /\ ino \in Inos /\ Has(disk, InoOf(s, p), name, ino)
        BY <1>3, <3>6, FindSlotOK
      <4>2. disk.kind[ino] # "free"
        BY <1>3, <4>1 DEF EInv
      <4>3. disk.kind[ino] \in {"dir", "file"}
        BY <4>1, <4>2 DEF EInv, DiskType
      <4>4. u = Instantiate(t, x, ino, disk.kind[ino])
        BY <3>3, <3>6 DEF Ext4Lookup
      <4> HIDE DEF ino, k
      <4>5. /\ u \in MemType /\ Child(s, p, x, u) /\ Fresh(u, x) /\ u.d[x].inode # Null
            /\ InoOf(u, x) = ino /\ KindOf(u, x) = disk.kind[ino] /\ u.d[x].name = name
        BY <1>2, <3>2, <3>6, <4>1, <4>3, <4>4, InstantiateChild
      <4>6. SInv(u) /\ Shrunk(u, s)
        BY <1>2, <1>3, <4>5, ChildOK
      <4>7. \A y \in Dentries : s.d[y].inode # Null => InoOf(s, y) # ino
        BY <1>2, <1>6, <4>1, EntryFresh DEF hit
      <4>8. CInv(u, disk)
        BY <1>2, <1>3, <4>1, <4>5, <4>6, <4>7, ChildCoherent
      <4>9. /\ Spare(u, p) /\ Spare(Dput(u, p), x) /\ Dput(u, p) = Drop(u, p)
            /\ Dput(Dput(u, p), x) = s0
        BY <1>2, <4>5, <4>6, ChildUndone
      <4>10. v = [s |-> Dput(u, p), d |-> x]
        BY <1>4, <2>4, <4>5 DEF Positive
      <4>11. PICK z : z = Dput(u, p)
        OBVIOUS
      <4>12. SInv(z) /\ CInv(z, disk) /\ Shrunk(u, z)
        BY <1>2, <4>6, <4>8, <4>9, <4>11, DputOK
      <4>13. z.d[x].used
        <5>1. Outer(z, x) >= 1
          <6>1. Outer(z, x) \in Int
            BY <3>4, <4>12, OuterIsInt DEF SInv
          <6> QED BY <4>9, <4>11, <6>1 DEF Spare, One
        <5> QED BY <3>4, <4>12, <5>1, HeldIsUsed
      <4>14. z.d[x].inode # Null
        BY <3>4, <4>5, <4>12, <4>13 DEF Shrunk
      <4>15. v.s = z /\ v.d = x
        BY <4>10, <4>11
      <4> QED BY <2>4, <3>4, <4>9, <4>11, <4>12, <4>14, <4>15 DEF WalkInv
    <3> QED BY <3>5, <3>6
  <2> QED BY <2>3, <2>4
<1> QED BY <1>5, <1>6

\* "..": the parent is held before the dentry is dropped.
LEMMA UpMoves ==
  ASSUME NEW s, SInv(s), NEW x \in Dentries, Spare(s, x), NEW p \in Dentries,
         p = s.d[x].parent, s.d[p].used
  PROVE  LET v == Dput(Dget(s, p), x)
         IN  /\ SInv(v) /\ Shrunk(s, v)
             /\ \A dk : CInv(s, dk) => CInv(v, dk)
             /\ v.d[p].inode = s.d[p].inode /\ Spare(v, p)
             /\ Dput(v, p) = Dput(s, x)
<1>1. PICK u : u = Dget(s, p)
  OBVIOUS
<1>2. /\ SInv(u) /\ Shrunk(s, u)
      /\ \A y \in Dentries : Outer(u, y) = Outer(s, y) + One(p, y)
      /\ \A dk : CInv(s, dk) => CInv(u, dk)
  BY <1>1, DgetOK
<1>3. /\ Recount(s, u) /\ s \in MemType /\ u \in MemType
      /\ \A y \in Dentries : u.d[y].count = s.d[y].count + One(p, y)
  BY <1>1, DgetCounts DEF SInv, Recount
<1>4. \A y \in Dentries :
         /\ Outer(s, y) >= One(Root, y) /\ Outer(s, y) \in Int /\ s.d[y].count \in Nat
         /\ Outer(s, y) <= s.d[y].count
  BY OuterIsInt DEF SInv, CountsOK
<1>5. Spare(u, x)
  BY <1>2, <1>4 DEF Spare, One
<1>6. PICK v : v = Dput(u, x)
  OBVIOUS
<1>7. /\ SInv(v) /\ Shrunk(u, v)
      /\ \A y \in Dentries : Outer(v, y) = Outer(u, y) - One(x, y)
      /\ \A dk : CInv(u, dk) => CInv(v, dk)
  BY <1>2, <1>5, <1>6, DputOK
<1>8. Spare(v, p)
  BY <1>2, <1>4, <1>7 DEF Spare, One
<1>9. v.d[p].used
  <2>1. Outer(v, p) >= 1
    BY <1>2, <1>4, <1>7, <1>8 DEF Spare, One
  <2> QED BY <1>7, <2>1, HeldIsUsed
<1>10. v.d[p].inode = s.d[p].inode
  BY <1>2, <1>7, <1>9 DEF Shrunk
<1>11. Shrunk(s, v)
  BY <1>2, <1>7, ShrunkTrans
<1>12. s.d[x].count >= 1 /\ s.d[x].used /\ s.d[x].count \in Nat
  BY <1>4, DputRound
<1>13. Dput(v, p) = Dput(s, x)
  <2>1. CASE x = p
    <3>1. u.d[x].count > 1 /\ u.d[x].used
      BY <1>3, <1>12, <2>1 DEF One, Recount
    <3>2. v = Drop(u, x)
      BY <1>2, <1>5, <1>6, <3>1, DputDrops
    <3>3. /\ Recount(u, v) /\ v \in MemType
          /\ \A y \in Dentries : v.d[y].count = u.d[y].count - One(x, y)
      BY <1>3, <3>1, <3>2, DropCounts DEF Recount
    <3>4. \A y \in Dentries : v.d[y].count = s.d[y].count
      BY <1>3, <1>4, <2>1, <3>3 DEF One
    <3>5. v.i = s.i /\ \A y \in Dentries :
            /\ v.d[y].used = s.d[y].used /\ v.d[y].parent = s.d[y].parent
            /\ v.d[y].name = s.d[y].name /\ v.d[y].inode = s.d[y].inode
            /\ v.d[y].listed = s.d[y].listed
      BY <1>3, <3>3 DEF Recount
    <3>6. v = s
      BY <1>3, <3>3, <3>4, <3>5, SameMemory
    <3> QED BY <2>1, <3>6
  <2>2. CASE x # p /\ s.d[x].count > 1
    <3>1. u.d[x].count > 1 /\ u.d[x].used
      BY <1>3, <1>12, <2>2 DEF One, Recount
    <3>2. v = Drop(u, x)
      BY <1>2, <1>5, <1>6, <3>1, DputDrops
    <3>3. /\ Recount(u, v) /\ v \in MemType
          /\ \A y \in Dentries : v.d[y].count = u.d[y].count - One(x, y)
      BY <1>3, <3>1, <3>2, DropCounts DEF Recount
    <3>4. v.d[p].count > 1
      <4>1. s.d[p].count >= 1
        BY DEF SInv, DentriesOK
      <4> QED BY <1>3, <1>4, <2>2, <3>3, <4>1 DEF One
    <3>5. Dput(v, p) = Drop(v, p)
      BY <1>7, <1>8, <3>4, DputDrops
    <3>6. Dput(s, x) = Drop(s, x)
      BY <2>2, DputDrops
    <3>7. PICK a, b : a = Drop(v, p) /\ b = Drop(s, x)
      OBVIOUS
    <3>8. /\ Recount(v, a) /\ a \in MemType
          /\ \A y \in Dentries : a.d[y].count = v.d[y].count - One(p, y)
      BY <1>9, <3>3, <3>4, <3>7, DropCounts DEF Recount
    <3>9. /\ Recount(s, b) /\ b \in MemType
          /\ \A y \in Dentries : b.d[y].count = s.d[y].count - One(x, y)
      BY <1>3, <1>12, <2>2, <3>7, DropCounts DEF Recount
    <3>10. \A y \in Dentries : a.d[y].count = b.d[y].count
      <4> SUFFICES ASSUME NEW y \in Dentries PROVE a.d[y].count = b.d[y].count
        OBVIOUS
      <4>1. One(x, y) \in Int /\ One(p, y) \in Int
        BY DEF One
      <4> QED BY <1>3, <1>4, <3>3, <3>8, <3>9, <4>1
    <3>11. a.i = b.i /\ \A y \in Dentries :
            /\ a.d[y].used = b.d[y].used /\ a.d[y].parent = b.d[y].parent
            /\ a.d[y].name = b.d[y].name /\ a.d[y].inode = b.d[y].inode
            /\ a.d[y].listed = b.d[y].listed
      BY <1>3, <3>3, <3>8, <3>9 DEF Recount
    <3>12. a = b
      BY <3>8, <3>9, <3>10, <3>11, SameMemory
    <3> QED BY <3>5, <3>6, <3>7, <3>12
  <2>3. CASE x # p /\ s.d[x].count = 1
    <3>1. x # Root /\ Outer(s, x) >= 1
      BY <2>3, DputRound
    <3>2. u.d[x].count = 1 /\ u.d[x].parent = p /\ Outer(u, x) >= 1
      BY <1>2, <1>3, <1>4, <2>3, <3>1 DEF One, Recount
    <3>3. PICK r, q : r = Released(u, x) /\ q = Released(s, x)
      OBVIOUS
    <3>4. /\ SInv(r)
          /\ \A y \in Dentries : Outer(r, y) = Outer(u, y) - One(x, y) + One(p, y)
          /\ \A y \in Dentries : y # x => r.d[y] = u.d[y]
          /\ r.d[x] = FreeDentry
          /\ \A n \in Inodes : r.i[n] = IF n = u.d[x].inode THEN FreeInode ELSE u.i[n]
      BY <1>2, <3>1, <3>2, <3>3, ReleasedOK
    <3>5. /\ SInv(q)
          /\ \A y \in Dentries : y # x => q.d[y] = s.d[y]
          /\ q.d[x] = FreeDentry
          /\ \A n \in Inodes : q.i[n] = IF n = s.d[x].inode THEN FreeInode ELSE s.i[n]
      BY <2>3, <3>1, <3>3, ReleasedOK
    <3>6. v = Dput(r, p) /\ Dput(s, x) = Dput(q, p)
      BY <1>2, <1>5, <1>6, <2>3, <3>2, <3>3, DputClimbs
    <3>7. Spare(r, p)
      BY <1>2, <1>4, <2>3, <3>4 DEF Spare, One
    <3>8. r.d[p].count > 1 /\ r.d[p].used
      <4>1. s.d[p].count >= 1
        BY DEF SInv, DentriesOK
      <4> QED BY <1>3, <1>4, <2>3, <3>4, <4>1 DEF One, Recount
    <3>9. v = Drop(r, p)
      BY <3>4, <3>6, <3>7, <3>8, DputDrops
    <3>10. /\ Recount(r, v) /\ v \in MemType
           /\ \A y \in Dentries : v.d[y].count = r.d[y].count - One(p, y)
      BY <3>4, <3>8, <3>9, DropCounts DEF Recount, SInv
    <3>11. v.d[x] = FreeDentry
      <4>1. ~r.d[x].used
        BY <3>4 DEF FreeDentry
      <4> QED BY <3>4, <3>10, <4>1 DEF Recount
    <3>12. ASSUME NEW y \in Dentries, y # x
           PROVE /\ v.d[y].used = q.d[y].used /\ v.d[y].count = q.d[y].count
                 /\ v.d[y].parent = q.d[y].parent /\ v.d[y].name = q.d[y].name
                 /\ v.d[y].inode = q.d[y].inode /\ v.d[y].listed = q.d[y].listed
      <4>1. r.d[y] = u.d[y] /\ q.d[y] = s.d[y]
        BY <3>4, <3>5, <3>12
      <4>2. v.d[y].count = u.d[y].count - One(p, y) /\ u.d[y].count = s.d[y].count + One(p, y)
        BY <1>3, <3>10, <4>1
      <4>3. s.d[y].count \in Nat /\ One(p, y) \in Int
        BY <1>4 DEF One
      <4>4. v.d[y].count = q.d[y].count
        BY <4>1, <4>2, <4>3
      <4> QED BY <1>3, <3>10, <4>1, <4>4 DEF Recount
    <3>13. \A n \in Inodes : v.i[n] = q.i[n]
      BY <1>3, <3>4, <3>5, <3>10 DEF Recount
    <3>14. v = q
      <4>1. q \in MemType
        BY <3>5 DEF SInv
      <4> QED BY <3>5, <3>10, <3>11, <3>12, <3>13, <4>1, SameMemory
    <3> QED BY <3>6, <3>14
  <2> QED BY <1>12, <2>1, <2>2, <2>3
<1> QED BY <1>1, <1>2, <1>6, <1>7, <1>8, <1>10, <1>11, <1>13

LEMMA WalkOK ==
  ASSUME NEW s0, NEW w, WalkInv(s0, w), EInv(disk), NEW name \in Components,
         NEW unread
  PROVE  LET v == Walk(w, name, unread)
         IN  WalkInv(s0, v) /\ (name \in Names => v.d # Root)
<1> DEFINE v == Walk(w, name, unread)
<1>0. Root # Null
  BY Basics
<1>1. CASE w.d = Null
  <2>1. v = w
    BY <1>1 DEF Walk
  <2> QED BY <1>0, <1>1, <2>1
<1>2. CASE w.d # Null /\ name = Dot
  <2>1. v = w
    BY <1>2 DEF Walk
  <2> QED BY <1>2, <2>1, Basics
<1>3. CASE w.d # Null /\ name = DotDot
  <2>1. PICK s, x : s = w.s /\ x = w.d
    OBVIOUS
  <2>2. /\ x \in Dentries /\ SInv(s) /\ CInv(s, disk) /\ s.d[x].inode # Null
        /\ Spare(s, x) /\ Dput(s, x) = s0
    BY <1>3, <2>1 DEF WalkInv
  <2>3. PICK p : p = s.d[x].parent
    OBVIOUS
  <2>4. p \in Dentries /\ p # Null /\ s.d[p].used /\ s.d[p].inode # Null
    BY <2>2, <2>3, PositiveDentry, Basics
  <2>5. PICK t : t = Dput(Dget(s, p), x)
    OBVIOUS
  <2>6. v = [s |-> t, d |-> p]
    BY <1>3, <2>1, <2>3, <2>4, <2>5, Basics DEF Walk
  <2>7. /\ SInv(t) /\ CInv(t, disk) /\ t.d[p].inode = s.d[p].inode /\ Spare(t, p)
        /\ Dput(t, p) = s0
    BY <2>2, <2>3, <2>4, <2>5, UpMoves
  <2>8. v.s = t /\ v.d = p
    BY <2>6
  <2> HIDE DEF v
  <2>9. WalkInv(s0, v)
    BY <2>4, <2>7, <2>8 DEF WalkInv
  <2> QED BY <1>3, <2>4, <2>8, <2>9, Basics DEF v
<1>4. CASE w.d # Null /\ name \in Names
  <2>1. name # Dot /\ name # DotDot
    BY <1>4, Basics
  <2>2. Positive(w.s, w.d)
    BY <1>4 DEF WalkInv, Positive
  <2>3. CASE KindOf(w.s, w.d) # "dir"
    <3>1. v = [s |-> Dput(w.s, w.d), d |-> Null]
      BY <1>4, <2>1, <2>3 DEF Walk, IsDir
    <3>2. v.s = s0 /\ v.d = Null
      BY <1>4, <3>1 DEF WalkInv
    <3> HIDE DEF v
    <3>3. WalkInv(s0, v)
      BY <3>2 DEF WalkInv
    <3> QED BY <1>0, <2>3, <3>2, <3>3 DEF v
  <2>4. CASE KindOf(w.s, w.d) = "dir"
    <3>1. v = WalkChild(w, name, unread)
      BY <1>4, <2>1, <2>2, <2>4 DEF Walk, IsDir
    <3>2. WalkInv(s0, v) /\ v.d # Root
      BY <1>4, <3>1, WalkChildOK
    <3> QED BY <1>4, <3>2
  <2> QED BY <2>3, <2>4
<1> QED BY <1>1, <1>2, <1>3, <1>4 DEF Components

\* The recursive function of vfs_path_lookup.
LookupStep(s, start, comps, miss, f, n) ==
    IF n = 0 THEN [s |-> Dget(s, start), d |-> start]
             ELSE Walk(f[n - 1], comps[n], n = miss)

LEMMA LookupUnfolds ==
  ASSUME NEW s, NEW start, NEW comps, NEW miss, Len(comps) \in Nat,
         Positive(s, start)
  PROVE  \E f : /\ f[0] = [s |-> Dget(s, start), d |-> start]
                /\ \A n \in 1 .. Len(comps) : f[n] = Walk(f[n - 1], comps[n], n = miss)
                /\ PathLookup(s, start, comps, miss) = f[Len(comps)]
<1> DEFINE L == Len(comps)
           Upto(f, n) == \A i \in 0 .. L : i <= n => f[i] = LookupStep(s, start, comps, miss, f, i)
           Q == {n \in Nat : \E f : Upto(f, n)}
<1> HIDE DEF L
<1>l. L \in Nat
  BY DEF L
<1>1. 0 \in Q
  <2> DEFINE f == [i \in 0 .. L |-> [s |-> Dget(s, start), d |-> start]]
  <2>1. Upto(f, 0)
    BY <1>l DEF LookupStep
  <2> QED BY <2>1
<1>2. ASSUME NEW n \in Q PROVE n + 1 \in Q
  <2>1. PICK f : Upto(f, n)
    OBVIOUS
  <2> DEFINE next == [i \in 0 .. L |-> LookupStep(s, start, comps, miss, f, i)]
  <2>2. ASSUME NEW i \in 0 .. L, i <= n + 1 PROVE next[i] = LookupStep(s, start, comps, miss, next, i)
    <3>1. next[i] = LookupStep(s, start, comps, miss, f, i)
      OBVIOUS
    <3>2. CASE i = 0
      <4> HIDE DEF next
      <4> QED BY <3>1, <3>2 DEF LookupStep
    <3>3. CASE i # 0
      <4>1. i - 1 \in 0 .. L /\ i - 1 <= n
        BY <1>l, <2>2, <3>3
      <4>2. f[i - 1] = LookupStep(s, start, comps, miss, f, i - 1)
        BY <2>1, <4>1
      <4>3. next[i - 1] = f[i - 1]
        BY <4>1, <4>2
      <4> HIDE DEF next
      <4> QED BY <3>1, <3>3, <4>3 DEF LookupStep
    <3> QED BY <3>2, <3>3
  <2> HIDE DEF next
  <2>3. Upto(next, n + 1)
    BY <2>2
  <2> QED BY <2>3
<1>3. L \in Q
  <2> HIDE DEF Q
  <2>1. Q \in SUBSET Nat
    BY DEF Q
  <2> QED BY <1>1, <1>2, <1>l, <2>1, SetInduction
<1>4. PICK g : Upto(g, L)
  BY <1>3
<1> DEFINE h == [i \in 0 .. L |-> LookupStep(s, start, comps, miss, g, i)]
<1>5. h = [i \in 0 .. L |-> LookupStep(s, start, comps, miss, h, i)]
  <2>1. ASSUME NEW i \in 0 .. L
        PROVE  LookupStep(s, start, comps, miss, g, i) = LookupStep(s, start, comps, miss, h, i)
    <3>1. CASE i = 0
      BY <3>1 DEF LookupStep
    <3>2. CASE i # 0
      <4>1. i - 1 \in 0 .. L
        BY <1>l, <3>2
      <4>2. h[i - 1] = g[i - 1]
        BY <1>4, <1>l, <4>1
      <4> HIDE DEF h
      <4> QED BY <3>2, <4>2 DEF LookupStep
    <3> QED BY <3>1, <3>2
  <2> QED BY <2>1
<1> DEFINE at == CHOOSE f : f = [i \in 0 .. L |-> LookupStep(s, start, comps, miss, f, i)]
<1>6. at = [i \in 0 .. L |-> LookupStep(s, start, comps, miss, at, i)]
  <2> HIDE DEF h
  <2> QED BY <1>5
<1>7. PathLookup(s, start, comps, miss) = at[L]
  BY DEF PathLookup, LookupStep, L
<1> HIDE DEF at
<1>8. \A i \in 0 .. L : at[i] = LookupStep(s, start, comps, miss, at, i)
  BY <1>6
<1>9. /\ at[0] = [s |-> Dget(s, start), d |-> start]
      /\ \A n \in 1 .. L : at[n] = Walk(at[n - 1], comps[n], n = miss)
  BY <1>8, <1>l DEF LookupStep
<1> QED BY <1>7, <1>9 DEF L

\* A dput undoes a dget.
LEMMA GetPut ==
  ASSUME NEW s, SInv(s), NEW x \in Dentries, s.d[x].used
  PROVE  Dput(Dget(s, x), x) = s
<1>1. PICK u : u = Dget(s, x)
  OBVIOUS
<1>2. SInv(u) /\ Spare(u, x)
  BY <1>1, DgetOK
<1>3. /\ Recount(s, u) /\ s \in MemType /\ u \in MemType
      /\ \A y \in Dentries : u.d[y].count = s.d[y].count + One(x, y)
  BY <1>1, DgetCounts DEF SInv, Recount
<1>4. s.d[x].count >= 1 /\ \A y \in Dentries : s.d[y].count \in Nat
  BY OuterIsInt DEF SInv, DentriesOK
<1>5. u.d[x].count > 1 /\ u.d[x].used
  BY <1>3, <1>4 DEF One, Recount
<1>6. Dput(u, x) = Drop(u, x)
  BY <1>2, <1>5, DputDrops
<1>7. PICK v : v = Drop(u, x)
  OBVIOUS
<1>8. /\ Recount(u, v) /\ v \in MemType
      /\ \A y \in Dentries : v.d[y].count = u.d[y].count - One(x, y)
  BY <1>3, <1>5, <1>7, DropCounts DEF Recount
<1>9. \A y \in Dentries : v.d[y].count = s.d[y].count
  BY <1>3, <1>4, <1>8 DEF One
<1>10. v.i = s.i /\ \A y \in Dentries :
         /\ v.d[y].used = s.d[y].used /\ v.d[y].parent = s.d[y].parent
         /\ v.d[y].name = s.d[y].name /\ v.d[y].inode = s.d[y].inode
         /\ v.d[y].listed = s.d[y].listed
  BY <1>3, <1>8 DEF Recount
<1>11. v = s
  BY <1>3, <1>8, <1>9, <1>10, SameMemory
<1> QED BY <1>1, <1>6, <1>7, <1>11

LEMMA StartOK ==
  ASSUME NEW s, SInv(s), CInv(s, disk), NEW x \in Dentries, s.d[x].inode # Null
  PROVE  WalkInv(s, [s |-> Dget(s, x), d |-> x])
<1>1. s.d[x].used /\ x # Null
  BY PositiveDentry, Basics
<1>2. PICK u : u = Dget(s, x)
  OBVIOUS
<1>3. SInv(u) /\ Spare(u, x) /\ CInv(u, disk) /\ Dput(u, x) = s
  BY <1>1, <1>2, DgetOK, GetPut
<1>4. u.d[x].inode = s.d[x].inode
  BY <1>1, <1>2, DgetCounts DEF SInv, Recount
<1> QED BY <1>1, <1>2, <1>3, <1>4 DEF WalkInv

\* Path lookup, whatever the path: it fails and leaves no trace, or holds the
\* dentry it found and nothing else.
LEMMA LookupOK ==
  ASSUME NEW s, SInv(s), CInv(s, disk), EInv(disk), NEW start \in Dentries,
         s.d[start].inode # Null, NEW comps \in Seq(Components), NEW miss
  PROVE  WalkInv(s, PathLookup(s, start, comps, miss))
<1>1. Len(comps) \in Nat /\ \A n \in 1 .. Len(comps) : comps[n] \in Components
  OBVIOUS
<1>2. Positive(s, start)
  BY Basics DEF Positive
<1>3. PICK f : /\ f[0] = [s |-> Dget(s, start), d |-> start]
               /\ \A n \in 1 .. Len(comps) : f[n] = Walk(f[n - 1], comps[n], n = miss)
               /\ PathLookup(s, start, comps, miss) = f[Len(comps)]
  BY <1>1, <1>2, LookupUnfolds
<1> DEFINE Q == {n \in Nat : n <= Len(comps) => WalkInv(s, f[n])}
<1>4. 0 \in Q
  <2>1. WalkInv(s, f[0])
    BY <1>3, StartOK
  <2> QED BY <2>1
<1>5. ASSUME NEW n \in Q PROVE n + 1 \in Q
  <2> SUFFICES ASSUME n + 1 <= Len(comps) PROVE WalkInv(s, f[n + 1])
    OBVIOUS
  <2>1. n + 1 \in 1 .. Len(comps) /\ (n + 1) - 1 = n /\ n <= Len(comps)
    BY <1>1
  <2>2. f[n + 1] = Walk(f[(n + 1) - 1], comps[n + 1], (n + 1) = miss)
    BY <1>3, <2>1
  <2>3. WalkInv(s, f[n]) /\ comps[n + 1] \in Components
    BY <1>1, <2>1
  <2> QED BY <2>1, <2>2, <2>3, WalkOK
<1>6. Len(comps) \in Q
  <2>1. Q \in SUBSET Nat
    OBVIOUS
  <2> HIDE DEF Q
  <2> QED BY <1>1, <1>4, <1>5, <2>1, SetInduction
<1> QED BY <1>1, <1>3, <1>6

Unfolded(f, s, start, comps, miss) ==
    /\ f[0] = [s |-> Dget(s, start), d |-> start]
    /\ \A n \in 1 .. Len(comps) : f[n] = Walk(f[n - 1], comps[n], n = miss)
    /\ PathLookup(s, start, comps, miss) = f[Len(comps)]

LEMMA LookupUnfolded ==
  ASSUME NEW s, NEW start, NEW comps, NEW miss, Len(comps) \in Nat, Positive(s, start)
  PROVE  \E f : Unfolded(f, s, start, comps, miss)
<1>1. PICK f : /\ f[0] = [s |-> Dget(s, start), d |-> start]
               /\ \A n \in 1 .. Len(comps) : f[n] = Walk(f[n - 1], comps[n], n = miss)
               /\ PathLookup(s, start, comps, miss) = f[Len(comps)]
  BY LookupUnfolds
<1>2. Unfolded(f, s, start, comps, miss)
  BY <1>1 DEF Unfolded
<1> QED BY <1>2

\* The last component is walked from where the path without it leads.
LEMMA LookupLast ==
  ASSUME NEW s, NEW start, Positive(s, start), NEW comps \in Seq(Components),
         NEW miss, comps # << >>
  PROVE  /\ Front(comps) \in Seq(Components) /\ Last(comps) \in Components
         /\ Len(Front(comps)) = Len(comps) - 1
         /\ PathLookup(s, start, comps, miss) =
              Walk(PathLookup(s, start, Front(comps), miss), Last(comps), Len(comps) = miss)
<1>1. Len(comps) \in Nat \ {0} /\ \A n \in 1 .. Len(comps) : comps[n] \in Components
  OBVIOUS
<1>2. PICK front : front = Front(comps)
  OBVIOUS
<1>3. /\ front \in Seq(Components) /\ Len(front) = Len(comps) - 1
      /\ \A n \in 1 .. Len(comps) - 1 : front[n] = comps[n]
  <2>1. PICK L \in Nat : L = Len(comps) - 1
    BY <1>1
  <2>2. front = SubSeq(comps, 1, L)
    BY <1>2, <2>1 DEF Front
  <2>3. front = [i \in 1 .. L |-> comps[i]]
    BY <1>1, <2>1, <2>2
  <2>4. \A i \in 1 .. L : comps[i] \in Components
    BY <1>1, <2>1
  <2>5. front \in [1 .. L -> Components]
    BY <2>3, <2>4
  <2>6. front \in Seq(Components)
    BY <2>5
  <2>7. Len(front) = L
    BY <2>3
  <2> QED BY <2>1, <2>3, <2>6, <2>7
<1>4. Last(comps) = comps[Len(comps)] /\ Last(comps) \in Components
  BY <1>1 DEF Last
<1>5. PICK f : /\ f[0] = [s |-> Dget(s, start), d |-> start]
               /\ \A n \in 1 .. Len(comps) : f[n] = Walk(f[n - 1], comps[n], n = miss)
               /\ PathLookup(s, start, comps, miss) = f[Len(comps)]
  BY <1>1, LookupUnfolds
<1>6. PICK g : Unfolded(g, s, start, front, miss)
  <2>1. Len(front) \in Nat
    BY <1>3
  <2> QED BY <2>1, LookupUnfolded
<1>6a. /\ g[0] = [s |-> Dget(s, start), d |-> start]
       /\ \A n \in 1 .. Len(front) : g[n] = Walk(g[n - 1], front[n], n = miss)
       /\ PathLookup(s, start, front, miss) = g[Len(front)]
  BY <1>6 DEF Unfolded
<1> DEFINE Q == {n \in Nat : n <= Len(front) => g[n] = f[n]}
<1>7. 0 \in Q
  BY <1>5, <1>6a
<1>8. ASSUME NEW n \in Q PROVE n + 1 \in Q
  <2> SUFFICES ASSUME n + 1 <= Len(front) PROVE g[n + 1] = f[n + 1]
    OBVIOUS
  <2>1. /\ n + 1 \in 1 .. Len(front) /\ n + 1 \in 1 .. Len(comps) /\ n <= Len(front)
        /\ (n + 1) - 1 = n /\ n + 1 \in 1 .. Len(comps) - 1
    BY <1>1, <1>3
  <2>2. f[n + 1] = Walk(f[(n + 1) - 1], comps[n + 1], (n + 1) = miss)
    BY <1>5, <2>1
  <2>3. g[n + 1] = Walk(g[(n + 1) - 1], front[n + 1], (n + 1) = miss)
    BY <1>6a, <2>1
  <2>4. g[n] = f[n] /\ front[n + 1] = comps[n + 1]
    BY <1>3, <2>1
  <2> QED BY <2>1, <2>2, <2>3, <2>4
<1>9. g[Len(front)] = f[Len(front)]
  <2>1. Q \in SUBSET Nat
    OBVIOUS
  <2>2. Q = Nat
    <3> HIDE DEF Q
    <3> QED BY <1>7, <1>8, <2>1, SetInduction
  <2>3. Len(front) \in Nat
    BY <1>3
  <2>4. Len(front) \in Q
    <3> HIDE DEF Q
    <3> QED BY <2>2, <2>3
  <2> QED BY <2>3, <2>4
<1>10. f[Len(comps)] = Walk(f[Len(front)], comps[Len(comps)], Len(comps) = miss)
  <2>1. Len(comps) \in 1 .. Len(comps) /\ Len(comps) - 1 = Len(front)
    BY <1>1, <1>3
  <2> QED BY <1>5, <2>1
<1> QED BY <1>2, <1>3, <1>4, <1>5, <1>6a, <1>9, <1>10

LEMMA LookupNothing ==
  ASSUME NEW s, NEW start, Positive(s, start), NEW comps, NEW miss,
         Len(comps) = 0
  PROVE  PathLookup(s, start, comps, miss) = [s |-> Dget(s, start), d |-> start]
<1>1. PICK f : /\ f[0] = [s |-> Dget(s, start), d |-> start]
               /\ PathLookup(s, start, comps, miss) = f[Len(comps)]
  <2>1. Len(comps) \in Nat
    OBVIOUS
  <2> QED BY <2>1, LookupUnfolds
<1> QED BY <1>1
-----------------------------------------------------------------------------
(* Holders: the working directory and the descriptors.                      *)

LEMMA ExtCounts ==
  ASSUME NEW c, NEW f, NEW x
  PROVE  /\ IsFiniteSet(FdsOn(f, x)) /\ Cardinality(FdsOn(f, x)) \in Nat
         /\ Ext(c, f, x) \in Nat /\ Ext(c, f, x) >= One(Root, x) + One(c, x)
         /\ \A y \in Fds : f[y].used /\ f[y].dentry = x =>
               Ext(c, f, x) >= 1 + One(Root, x) + One(c, x)
<1>1. IsFiniteSet(Fds)
  <2>1. 1 \in Int /\ NFds \in Int
    BY Basics
  <2> QED BY <2>1, FS_Interval DEF Fds
<1>2. FdsOn(f, x) \in SUBSET Fds
  BY DEF FdsOn
<1>3. IsFiniteSet(FdsOn(f, x)) /\ Cardinality(FdsOn(f, x)) \in Nat
  <2>1. IsFiniteSet(FdsOn(f, x))
    BY <1>1, <1>2, FS_Subset
  <2> QED BY <2>1, FS_CardinalityType
<1>4. ASSUME NEW y \in Fds, f[y].used, f[y].dentry = x PROVE Cardinality(FdsOn(f, x)) >= 1
  <2>1. y \in FdsOn(f, x)
    BY <1>4 DEF FdsOn
  <2>2. Cardinality(FdsOn(f, x)) # 0
    BY <1>3, <2>1, FS_EmptySet
  <2> QED BY <1>3, <2>2
<1> QED BY <1>3, <1>4 DEF Ext, One

\* What two memories say of a dentry that is in both.
LEMMA Agree ==
  ASSUME NEW s, SInv(s), NEW t, SInv(t), Shrunk(s, t) \/ Shrunk(t, s),
         NEW x \in Dentries, s.d[x].used, t.d[x].used
  PROVE  /\ t.d[x].inode = s.d[x].inode
         /\ s.d[x].inode # Null => InoOf(t, x) = InoOf(s, x) /\ KindOf(t, x) = KindOf(s, x)
<1>1. t.d[x].inode = s.d[x].inode
  BY DEF Shrunk
<1>2. ASSUME s.d[x].inode # Null
      PROVE  InoOf(t, x) = InoOf(s, x) /\ KindOf(t, x) = KindOf(s, x)
  <2>1. s.d[x].inode \in Inodes /\ s.i[s.d[x].inode].used /\ t.i[s.d[x].inode].used
    BY <1>1, <1>2, PositiveDentry
  <2>2. t.i[s.d[x].inode] = s.i[s.d[x].inode]
    BY <2>1 DEF Shrunk
  <2> QED BY <1>1, <2>2 DEF InoOf, KindOf
<1> QED BY <1>1, <1>2

\* Taking and dropping references moves from one state to another as long as
\* the holders keep theirs.
LEMMA Carry ==
  ASSUME NEW s, NEW c, NEW c2, NEW f, NEW dk, Core(s, c, f, dk), CwdInv(s, c2),
         NEW t, SInv(t), Shrunk(s, t) \/ Shrunk(t, s),
         \A x \in Dentries : Outer(t, x) >= Ext(c2, f, x)
  PROVE  /\ Core(t, c2, f, dk)
         /\ Good(s, c, f, dk) /\ CInv(t, dk) => Good(t, c2, f, dk)
<1>1. /\ SInv(s) /\ FdsInv(s, f) /\ dk \in DiskType
      /\ \A x \in Dentries : Outer(s, x) >= Ext(c, f, x)
  BY DEF Core
<1>t. \A x \in Dentries : Outer(t, x) \in Int /\ Outer(s, x) \in Int
  BY <1>1, OuterIsInt DEF SInv
<1>2. CwdInv(t, c2)
  <2> SUFFICES ASSUME c2 # Null
      PROVE c2 \in Dentries /\ t.d[c2].inode # Null /\ KindOf(t, c2) = "dir"
    BY DEF CwdInv
  <2>1. c2 \in Dentries /\ s.d[c2].inode # Null /\ KindOf(s, c2) = "dir"
    BY DEF CwdInv
  <2>2. s.d[c2].used
    BY <1>1, <2>1, PositiveDentry
  <2>3. Ext(c2, f, c2) >= 1 /\ Ext(c2, f, c2) \in Nat
    BY ExtCounts DEF One
  <2>4. Outer(t, c2) >= 1
    BY <1>t, <2>1, <2>3
  <2>5. t.d[c2].used
    BY <2>1, <2>4, HeldIsUsed
  <2> QED BY <1>1, <2>1, <2>2, <2>5, Agree
<1>3. FdsInv(t, f)
  <2> SUFFICES ASSUME NEW y \in Fds, f[y].used
      PROVE /\ f[y].dentry \in Dentries
            /\ t.d[f[y].dentry].inode # Null => f[y].inode = t.d[f[y].dentry].inode
    BY <1>1 DEF FdsInv
  <2>1. PICK x : x = f[y].dentry
    OBVIOUS
  <2>2. x \in Dentries /\ (s.d[x].inode # Null => f[y].inode = s.d[x].inode)
    BY <1>1, <2>1 DEF FdsInv
  <2>3. /\ Ext(c, f, x) >= 1 /\ Ext(c2, f, x) >= 1
        /\ Ext(c, f, x) \in Nat /\ Ext(c2, f, x) \in Nat
    BY <2>1, ExtCounts DEF One
  <2>4. Outer(s, x) >= 1 /\ Outer(t, x) >= 1
    BY <1>1, <1>t, <2>2, <2>3
  <2>5. s.d[x].used /\ t.d[x].used
    BY <1>1, <2>2, <2>4, HeldIsUsed
  <2>6. t.d[x].inode = s.d[x].inode
    BY <1>1, <2>2, <2>5, Agree
  <2> QED BY <2>1, <2>2, <2>6
<1> QED BY <1>1, <1>2, <1>3 DEF Good, Core

\* A descriptor takes over a reference on x.
LEMMA OpenFdOK ==
  ASSUME NEW s, NEW c, NEW f, NEW dk, Core(s, c, f, dk), NEW x \in Dentries,
         NEW n \in Fds, ~f[n].used,
         \A y \in Dentries : Outer(s, y) >= Ext(c, f, y) + One(x, y),
         NEW g \in [Fds -> FdType],
         g[n].used, g[n].dentry = x, g[n].inode = s.d[x].inode,
         \A y \in Fds : y # n => g[y] = f[y]
  PROVE  /\ Core(s, c, g, dk) /\ (Good(s, c, f, dk) => Good(s, c, g, dk))
         /\ \A y \in Dentries : Ext(c, g, y) = Ext(c, f, y) + One(x, y)
<1>1. SInv(s) /\ FdsInv(s, f)
  BY DEF Core
<1>5. ASSUME NEW y \in Dentries PROVE Ext(c, g, y) = Ext(c, f, y) + One(x, y)
  <2>1. FdsOn(g, y) = IF y = x THEN FdsOn(f, y) \cup {n} ELSE FdsOn(f, y)
    BY DEF FdsOn
  <2>2. n \notin FdsOn(f, y)
    BY DEF FdsOn
  <2>3. Cardinality(FdsOn(f, y) \cup {n}) =
          IF n \in FdsOn(f, y) THEN Cardinality(FdsOn(f, y)) ELSE Cardinality(FdsOn(f, y)) + 1
    BY ExtCounts, FS_AddElement, Zenon
  <2>4. Cardinality(FdsOn(f, y)) \in Nat
    BY ExtCounts
  <2> QED BY <2>1, <2>2, <2>3, <2>4 DEF Ext, One
<1>6. FdsInv(s, g)
  BY <1>1 DEF FdsInv
<1>7. \A y \in Dentries : Outer(s, y) >= Ext(c, g, y)
  BY <1>5
<1>8. Core(s, c, g, dk) /\ (Good(s, c, f, dk) => Good(s, c, g, dk))
  BY <1>6, <1>7 DEF Good, Core
<1> QED BY <1>5, <1>8

\* A descriptor gives up its reference, and the reference is dropped.
LEMMA CloseOK ==
  ASSUME NEW s, NEW c, NEW f, NEW dk, Good(s, c, f, dk), NEW n \in Fds, f[n].used,
         NEW g \in [Fds -> FdType], ~g[n].used, \A y \in Fds : y # n => g[y] = f[y]
  PROVE  LET t == Dput(s, f[n].dentry)
         IN  Good(t, c, g, dk) /\ (Exact(s, c, f) => Exact(t, c, g))
<1>1. SInv(s) /\ FdsInv(s, f) /\ CInv(s, dk) /\ CwdInv(s, c)
  BY DEF Good, Core
<1>2. PICK x : x = f[n].dentry
  OBVIOUS
<1>3. x \in Dentries
  BY <1>1, <1>2 DEF FdsInv
<1>7. ASSUME NEW y \in Dentries PROVE Ext(c, g, y) = Ext(c, f, y) - One(x, y)
  <2>1. FdsOn(g, y) = FdsOn(f, y) \ {n}
    BY DEF FdsOn
  <2>2. n \in FdsOn(f, y) <=> y = x
    BY <1>2 DEF FdsOn
  <2>3. Cardinality(FdsOn(f, y) \ {n}) =
          IF n \in FdsOn(f, y) THEN Cardinality(FdsOn(f, y)) - 1 ELSE Cardinality(FdsOn(f, y))
    BY ExtCounts, FS_RemoveElement, Zenon
  <2>4. Cardinality(FdsOn(f, y)) \in Nat
    BY ExtCounts
  <2> QED BY <2>1, <2>2, <2>3, <2>4 DEF Ext, One
<1>8. FdsInv(s, g)
  BY <1>1 DEF FdsInv
<1>9. \A y \in Dentries : /\ Outer(s, y) \in Int /\ Outer(s, y) >= Ext(c, f, y)
                          /\ Ext(c, f, y) \in Nat /\ Ext(c, g, y) \in Nat
  BY <1>1, OuterIsInt, ExtCounts DEF Good, Core, SInv
<1>10. Good(s, c, g, dk)
  <2>1. \A y \in Dentries : Outer(s, y) >= Ext(c, g, y)
    BY <1>7, <1>9 DEF One
  <2> QED BY <1>8, <2>1 DEF Good, Core
<1>11. Spare(s, x)
  <2>1. Ext(c, f, x) >= 1 + One(Root, x) + One(c, x)
    BY <1>2, <1>3, ExtCounts
  <2> QED BY <1>3, <1>9, <2>1 DEF Spare, One
<1>12. PICK t : t = Dput(s, x)
  OBVIOUS
<1>13. /\ SInv(t) /\ Shrunk(s, t) /\ CInv(t, dk)
       /\ \A y \in Dentries : Outer(t, y) = Outer(s, y) - One(x, y)
  BY <1>1, <1>3, <1>11, <1>12, DputOK
<1>14. \A y \in Dentries : Outer(t, y) >= Ext(c, g, y)
  BY <1>7, <1>9, <1>13 DEF One
<1>15. Good(t, c, g, dk)
  BY <1>1, <1>10, <1>13, <1>14, Carry DEF Good
<1>16. Exact(s, c, f) => Exact(t, c, g)
  BY <1>7, <1>9, <1>13 DEF Exact, One
<1> QED BY <1>2, <1>12, <1>15, <1>16

\* A walk over a good state.
LEMMA WalkGood ==
  ASSUME NEW s, NEW c, NEW f, Good(s, c, f, disk), NEW w, WalkInv(s, w), w.d # Null
  PROVE  /\ w.d \in Dentries /\ w.s.d[w.d].inode # Null /\ Spare(w.s, w.d)
         /\ Good(w.s, c, f, disk) /\ Dput(w.s, w.d) = s
         /\ \A y \in Dentries : Outer(w.s, y) = Outer(s, y) + One(w.d, y)
<1>1. PICK t, x : t = w.s /\ x = w.d
  OBVIOUS
<1>2. /\ x \in Dentries /\ SInv(t) /\ CInv(t, disk) /\ t.d[x].inode # Null
      /\ Spare(t, x) /\ Dput(t, x) = s
  BY <1>1 DEF WalkInv
<1>3. /\ Shrunk(t, s)
      /\ \A y \in Dentries : Outer(s, y) = Outer(t, y) - One(x, y)
  BY <1>2, DputOK
<1>4. \A y \in Dentries : Outer(t, y) \in Int /\ Outer(s, y) >= Ext(c, f, y) /\ Ext(c, f, y) \in Nat
  BY <1>2, OuterIsInt, ExtCounts DEF Good, Core, SInv
<1>5. \A y \in Dentries : Outer(t, y) = Outer(s, y) + One(x, y)
  BY <1>3, <1>4 DEF One
<1>6. \A y \in Dentries : Outer(t, y) >= Ext(c, f, y)
  BY <1>3, <1>4 DEF One
<1>7. Good(t, c, f, disk)
  <2>1. CwdInv(s, c)
    BY DEF Good, Core
  <2> QED BY <1>2, <1>3, <1>6, <2>1, Carry DEF Good
<1> QED BY <1>1, <1>2, <1>5, <1>7
-----------------------------------------------------------------------------
(* Adding an entry to a directory and removing one.                         *)

LEMMA AddEntryOK ==
  ASSUME EInv(disk), NEW dir \in Inos, NEW name \in Components, NEW ino \in Inos
  PROVE  LET r == AddEntry(dir, name, ino)
             q == disk.dir[dir]
         IN  /\ r \in Seq({Hole} \cup [name : Components, ino : Inos])
             /\ \E k \in DOMAIN r :
                   /\ r[k] = [name |-> name, ino |-> ino]
                   /\ \A j \in DOMAIN r : j # k => j \in DOMAIN q /\ r[j] = q[j]
                   /\ \A j \in DOMAIN q : j # k => j \in DOMAIN r
                   /\ k \in DOMAIN q => q[k] = Hole
<1> DEFINE T == {Hole} \cup [name : Components, ino : Inos]
           e == [name |-> name, ino |-> ino]
<1>1. PICK q : q = disk.dir[dir]
  OBVIOUS
<1>2. q \in Seq(T)
  BY <1>1 DEF EInv, DiskType
<1>3. e \in T
  OBVIOUS
<1> HIDE DEF T, e
<1>4. PICK r : r = AddEntry(dir, name, ino)
  OBVIOUS
<1> DEFINE holes == {k \in DOMAIN q : q[k] = Hole}
<1>5. r = IF holes = {} THEN Append(q, e) ELSE [q EXCEPT ![Min(holes)] = e]
  BY <1>1, <1>4 DEF AddEntry, e
<1>6. holes \in SUBSET Nat
  <2>1. DOMAIN q = 1 .. Len(q) /\ Len(q) \in Nat
    BY <1>2
  <2> QED BY <2>1
<1>7. CASE holes = {}
  <2>1. r = Append(q, e)
    BY <1>5, <1>7
  <2>2. /\ r \in Seq(T) /\ DOMAIN r = 1 .. Len(q) + 1 /\ DOMAIN q = 1 .. Len(q)
        /\ Len(q) \in Nat /\ r[Len(q) + 1] = e
        /\ \A j \in 1 .. Len(q) : r[j] = q[j]
    BY <1>2, <1>3, <2>1
  <2>3. PICK k : k = Len(q) + 1
    OBVIOUS
  <2>4. /\ k \in DOMAIN r /\ r[k] = e
        /\ \A j \in DOMAIN r : j # k => j \in DOMAIN q /\ r[j] = q[j]
        /\ \A j \in DOMAIN q : j # k => j \in DOMAIN r
        /\ k \notin DOMAIN q
    BY <2>2, <2>3
  <2> QED BY <1>1, <1>4, <2>2, <2>4 DEF T, e
<1>8. CASE holes # {}
  <2>1. PICK k : k = Min(holes)
    OBVIOUS
  <2>2. k \in holes
    <3> HIDE DEF holes
    <3> QED BY <1>6, <1>8, <2>1, MinIsIn
  <2>3. r = [q EXCEPT ![k] = e] /\ k \in DOMAIN q /\ q[k] = Hole
    BY <1>5, <1>8, <2>1, <2>2
  <2>4. r \in Seq(T)
    <3>1. q \in [1 .. Len(q) -> T] /\ Len(q) \in Nat
      BY <1>2
    <3>2. r \in [1 .. Len(q) -> T]
      BY <1>3, <2>3, <3>1
    <3> QED BY <3>1, <3>2
  <2>5. /\ k \in DOMAIN r /\ r[k] = e
        /\ \A j \in DOMAIN r : j # k => j \in DOMAIN q /\ r[j] = q[j]
        /\ \A j \in DOMAIN q : j # k => j \in DOMAIN r
    BY <2>3
  <2> QED BY <1>1, <1>4, <2>3, <2>4, <2>5 DEF T, e
<1> QED BY <1>7, <1>8

\* The disk after a creation, whatever became of it.
LEMMA MakeDiskType ==
  ASSUME EInv(disk), NEW dir \in Inos, NEW name \in Components, NEW s,
         NEW ino \in Allocatable, NEW kind \in {"free", "dir", "file"}
  PROVE  MakeDisk(s, dir, name, ino, kind) \in DiskType
<1>0. disk \in DiskType
  BY DEF EInv
<1>1. CASE ~Made(s, ino)
  BY <1>0, <1>1 DEF MakeDisk
<1>2. CASE Made(s, ino)
  <2>1. ino \in Inos
    BY <1>2 DEF Made, Allocatable, FreeInos, Inos
  <2>2. PICK r : r = AddEntry(dir, name, ino)
    OBVIOUS
  <2>3. r \in Seq({Hole} \cup [name : Components, ino : Inos])
    BY <2>1, <2>2, AddEntryOK
  <2>4. MakeDisk(s, dir, name, ino, kind) =
          [dir |-> [disk.dir EXCEPT ![dir] = r, ![ino] = << >>],
           kind |-> [disk.kind EXCEPT ![ino] = kind]]
    BY <1>2, <2>2 DEF MakeDisk
  <2> DEFINE T == {Hole} \cup [name : Components, ino : Inos]
  <2>5. << >> \in Seq(T)
    OBVIOUS
  <2>6. disk.dir \in [Inos -> Seq(T)] /\ disk.kind \in [Inos -> {"free", "dir", "file"}]
    BY <1>0 DEF DiskType
  <2>7. [disk.dir EXCEPT ![dir] = r, ![ino] = << >>] \in [Inos -> Seq(T)]
    <3> HIDE DEF T
    <3> QED BY <2>3, <2>5, <2>6 DEF T
  <2>8. [disk.kind EXCEPT ![ino] = kind] \in [Inos -> {"free", "dir", "file"}]
    BY <2>6
  <2> QED BY <2>4, <2>7, <2>8 DEF DiskType
<1> QED BY <1>1, <1>2

\* The disk with a new inode under a name that the directory did not have.
LEMMA MakeDiskOK ==
  ASSUME EInv(disk), NEW dir \in Inos, disk.kind[dir] = "dir", NEW name \in Names,
         NEW ino \in NewInos, disk.kind[ino] = "free", FindSlot(dir, name) = Null,
         NEW kind \in {"dir", "file"}, NEW s, Made(s, ino)
  PROVE  LET dk == MakeDisk(s, dir, name, ino, kind)
         IN  /\ EInv(dk) /\ Has(dk, dir, name, ino) /\ dk.kind[ino] = kind
             /\ \A o \in Inos : o # ino => dk.kind[o] = disk.kind[o]
             /\ \A o \in Inos : o # ino => \A nm : \A q \in Inos :
                   Has(disk, o, nm, q) => Has(dk, o, nm, q)
<1> DEFINE T == {Hole} \cup [name : Components, ino : Inos]
           e == [name |-> name, ino |-> ino]
<1>1. ino \in Inos /\ ino # dir /\ ino # RootIno
  BY VfsAssumption DEF Inos
<1>2. PICK r : r = AddEntry(dir, name, ino)
  OBVIOUS
<1>n. name \in Components
  BY DEF Components
<1>3. PICK k \in DOMAIN r :
                   /\ r \in Seq(T) /\ r[k] = e
                   /\ \A j \in DOMAIN r : j # k => j \in DOMAIN disk.dir[dir] /\ r[j] = disk.dir[dir][j]
                   /\ \A j \in DOMAIN disk.dir[dir] : j # k => j \in DOMAIN r
                   /\ k \in DOMAIN disk.dir[dir] => disk.dir[dir][k] = Hole
  BY <1>1, <1>2, <1>n, AddEntryOK
<1>4. PICK dk : dk = MakeDisk(s, dir, name, ino, kind)
  OBVIOUS
<1>5. dk = [dir |-> [disk.dir EXCEPT ![dir] = r, ![ino] = << >>],
            kind |-> [disk.kind EXCEPT ![ino] = kind]]
  BY <1>2, <1>4 DEF MakeDisk
<1>6. disk.dir \in [Inos -> Seq(T)] /\ disk.kind \in [Inos -> {"free", "dir", "file"}]
  BY DEF EInv, DiskType
<1>e. e.name = name /\ e.ino = ino /\ e # Hole
  BY Basics DEF Hole
<1>7. << >> \in Seq(T) /\ DOMAIN << >> = {}
  OBVIOUS
<1> HIDE DEF T, e
<1>8. /\ dk.dir \in [Inos -> Seq(T)] /\ dk.kind \in [Inos -> {"free", "dir", "file"}]
      /\ dk.dir[dir] = r /\ dk.dir[ino] = << >> /\ dk.kind[ino] = kind
      /\ \A o \in Inos : o # dir /\ o # ino => dk.dir[o] = disk.dir[o]
      /\ \A o \in Inos : o # ino => dk.kind[o] = disk.kind[o]
  BY <1>1, <1>3, <1>5, <1>6, <1>7
<1>9. dk \in DiskType
  <2>1. dk = [dir |-> dk.dir, kind |-> dk.kind]
    BY <1>5
  <2> QED BY <1>8, <2>1 DEF DiskType, T
<1>10. \A j \in DOMAIN disk.dir[dir] : disk.dir[dir][j].name # name
  BY FindSlotOK
\* A slot is the new one or an old one.
<1>11. ASSUME NEW o \in Inos, NEW j \in DOMAIN dk.dir[o]
       PROVE  /\ o # ino
              /\ \/ o = dir /\ j = k /\ dk.dir[o][j] = e
                 \/ /\ ~(o = dir /\ j = k) /\ j \in DOMAIN disk.dir[o]
                    /\ dk.dir[o][j] = disk.dir[o][j]
  <2>1. o # ino
    BY <1>7, <1>8
  <2>2. CASE o = dir
    BY <1>3, <1>8, <2>1, <2>2
  <2>3. CASE o # dir
    BY <1>8, <2>1, <2>3
  <2> QED BY <2>1, <2>2, <2>3
<1>12. ASSUME NEW o \in Inos, NEW j \in DOMAIN disk.dir[o] PROVE disk.dir[o][j].ino # ino
  <2>1. CASE disk.dir[o][j] = Hole
    BY <1>1, <2>1, Slots, Basics
  <2>2. CASE disk.dir[o][j] # Hole
    BY <2>2 DEF EInv
  <2> QED BY <2>1, <2>2
<1>13. ASSUME NEW o \in Inos, NEW j \in DOMAIN dk.dir[o], NEW i \in DOMAIN dk.dir[o],
              dk.dir[o][j] # Hole, dk.dir[o][j].name = dk.dir[o][i].name
       PROVE  j = i
  <2>1. CASE o = dir /\ j = k
    BY <1>10, <1>11, <1>13, <1>e, <2>1
  <2>2. CASE o = dir /\ i = k
    BY <1>10, <1>11, <1>13, <1>e, <2>2
  <2>3. CASE ~(o = dir /\ j = k) /\ ~(o = dir /\ i = k)
    <3>1. /\ j \in DOMAIN disk.dir[o] /\ i \in DOMAIN disk.dir[o]
          /\ dk.dir[o][j] = disk.dir[o][j] /\ dk.dir[o][i] = disk.dir[o][i]
      BY <1>11, <2>3
    <3> QED BY <1>13, <3>1 DEF EInv
  <2> QED BY <2>1, <2>2, <2>3
<1>14. ASSUME NEW o \in Inos, NEW q \in Inos, NEW j \in DOMAIN dk.dir[o],
              NEW i \in DOMAIN dk.dir[q],
              dk.dir[o][j] # Hole, dk.dir[o][j].ino = dk.dir[q][i].ino
       PROVE  o = q /\ j = i
  <2>1. CASE o = dir /\ j = k
    BY <1>11, <1>12, <1>14, <1>e, <2>1
  <2>2. CASE q = dir /\ i = k
    BY <1>11, <1>12, <1>14, <1>e, <2>2
  <2>3. CASE ~(o = dir /\ j = k) /\ ~(q = dir /\ i = k)
    <3>1. /\ j \in DOMAIN disk.dir[o] /\ i \in DOMAIN disk.dir[q]
          /\ dk.dir[o][j] = disk.dir[o][j] /\ dk.dir[q][i] = disk.dir[q][i]
      BY <1>11, <2>3
    <3> QED BY <1>14, <3>1 DEF EInv
  <2> QED BY <2>1, <2>2, <2>3
<1>15. ASSUME NEW o \in Inos, NEW j \in DOMAIN dk.dir[o], dk.dir[o][j] # Hole
       PROVE  /\ dk.dir[o][j].name \in Names /\ dk.kind[dk.dir[o][j].ino] # "free"
              /\ dk.dir[o][j].ino # RootIno /\ dk.kind[o] = "dir"
  <2>1. o # ino
    BY <1>11
  <2>2. CASE o = dir /\ j = k
    BY <1>1, <1>8, <1>11, <1>e, <2>1, <2>2
  <2>3. CASE ~(o = dir /\ j = k)
    <3>1. j \in DOMAIN disk.dir[o] /\ dk.dir[o][j] = disk.dir[o][j]
      BY <1>11, <2>3
    <3>2. /\ disk.dir[o][j].name \in Names /\ disk.kind[disk.dir[o][j].ino] # "free"
          /\ disk.dir[o][j].ino # RootIno /\ disk.kind[o] = "dir"
      BY <1>15, <3>1 DEF EInv
    <3>3. disk.dir[o][j].ino \in Inos
      BY <1>15, <3>1, Slots
    <3> QED BY <1>8, <2>1, <3>1, <3>2, <3>3
  <2> QED BY <2>2, <2>3
<1>16. EInv(dk)
  <2>1. dk.kind[RootIno] = "dir"
    BY <1>1, <1>8, Basics DEF EInv
  <2> QED BY <1>9, <1>13, <1>14, <1>15, <2>1 DEF EInv
<1>17. Has(dk, dir, name, ino)
  BY <1>3, <1>8 DEF Has, e
<1>18. ASSUME NEW o \in Inos, o # ino, NEW nm, NEW q \in Inos, Has(disk, o, nm, q)
       PROVE  Has(dk, o, nm, q)
  <2>1. PICK j \in DOMAIN disk.dir[o] : disk.dir[o][j] = [name |-> nm, ino |-> q]
    BY <1>18 DEF Has
  <2>2. disk.dir[o][j] # Hole
    BY <2>1, Basics DEF Hole
  <2>3. CASE o = dir
    <3>1. j # k
      BY <1>3, <2>2, <2>3
    <3>2. j \in DOMAIN dk.dir[o] /\ dk.dir[o][j] = disk.dir[o][j]
      BY <1>3, <1>8, <2>3, <3>1
    <3> QED BY <2>1, <3>2 DEF Has
  <2>4. CASE o # dir
    BY <1>8, <1>18, <2>1, <2>4 DEF Has
  <2> QED BY <2>3, <2>4
<1> QED BY <1>4, <1>8, <1>16, <1>17, <1>18

\* ext4_create and ext4_mkdir over a good state: the dentry has the new inode, or
\* nothing but an empty dentry was added; a new name is on the disk as well.
LEMMA MakeOK ==
  ASSUME NEW s, NEW c, NEW f, Good(s, c, f, disk), NEW p \in Dentries, s.d[p].inode # Null,
         KindOf(s, p) = "dir", NEW name \in Components, NEW kind \in {"dir", "file"},
         DAlloc(s, p, name).d # Null, NEW ino \in Allocatable
  PROVE  LET t == DAlloc(s, p, name).s
             x == DAlloc(s, p, name).d
             u == MakeMem(t, x, ino, kind)
             dk == MakeDisk(t, InoOf(s, p), name, ino, kind)
         IN  /\ x \in Dentries /\ Core(u, c, f, disk) /\ Spare(u, x)
             /\ \A y \in Dentries : Outer(u, y) = Outer(s, y) + One(x, y)
             /\ Made(t, ino) => u.d[x].inode # Null
             /\ ~Made(t, ino) => dk = disk /\ u = t /\ Good(u, c, f, disk)
             /\ Made(t, ino) /\ ~HasName(InoOf(s, p), name) => Good(u, c, f, dk)
<1>1. PICK t, x : t = DAlloc(s, p, name).s /\ x = DAlloc(s, p, name).d
  OBVIOUS
<1>2. SInv(s) /\ CInv(s, disk) /\ EInv(disk) /\ CwdInv(s, c) /\ Core(s, c, f, disk)
  BY DEF Good, Core
<1>3. /\ s.d[p].used /\ InoOf(s, p) \in Inos /\ disk.kind[InoOf(s, p)] = "dir"
  BY <1>2, PositiveDentry
<1>4. /\ t \in MemType /\ Child(s, p, x, t) /\ t.i = s.i
      /\ t.d[x].inode = Null /\ ~t.d[x].listed /\ t.d[x].name = name
  BY <1>1, <1>2, <1>3, DAllocChild
<1>5. x \in Dentries
  BY <1>4 DEF Child
<1>6. PICK u, dk : /\ u = MakeMem(t, x, ino, kind)
                   /\ dk = MakeDisk(t, InoOf(s, p), name, ino, kind)
  OBVIOUS
<1>7. /\ u \in MemType /\ Child(s, p, x, u) /\ SInv(u) /\ Shrunk(u, s)
      /\ Made(t, ino) => u.d[x].inode # Null
      /\ ~Made(t, ino) => dk = disk /\ u = t /\ CInv(u, disk)
      /\ Made(t, ino) /\ ~HasName(InoOf(s, p), name) =>
            EInv(dk) /\ CInv(s, dk) /\ CInv(u, dk)
  <2>1. CASE ~Made(t, ino)
    <3>1. u = t /\ dk = disk
      BY <1>6, <2>1 DEF MakeMem, MakeDisk
    <3>2. SInv(t) /\ Shrunk(t, s)
      BY <1>2, <1>3, <1>4, ChildOK DEF Fresh
    <3>3. CInv(t, disk)
      BY <1>2, <1>3, <1>4, <3>2, ChildCoherent
    <3> QED BY <1>2, <1>4, <2>1, <3>1, <3>2, <3>3
  <2>2. CASE Made(t, ino)
    <3>1. ino # Null /\ LowestFree(t.i) # Null
      BY <2>2 DEF Made
    <3>2. ino \in NewInos /\ disk.kind[ino] = "free" /\ ino \in Inos
      BY <3>1 DEF Allocatable, FreeInos, Inos
    <3>5. u = Instantiate(t, x, ino, kind)
      BY <1>6, <2>2 DEF MakeMem
    <3>6. /\ u \in MemType /\ Child(s, p, x, u) /\ Fresh(u, x) /\ u.d[x].inode # Null
          /\ InoOf(u, x) = ino /\ KindOf(u, x) = kind /\ u.d[x].name = name
      BY <1>2, <1>4, <3>1, <3>2, <3>5, InstantiateChild
    <3>7. SInv(u) /\ Shrunk(u, s)
      BY <1>2, <1>3, <3>6, ChildOK
    <3>8. ASSUME NEW y \in Dentries, s.d[y].inode # Null
          PROVE  InoOf(s, y) # ino /\ InoOf(s, y) \in Inos
      <4>1. disk.kind[InoOf(s, y)] = KindOf(s, y) /\ KindOf(s, y) \in {"dir", "file"}
        BY <1>2, <3>8, PositiveDentry
      <4> QED BY <1>2, <3>2, <3>8, <4>1, PositiveDentry
    <3>9. ASSUME ~HasName(InoOf(s, p), name)
          PROVE  EInv(dk) /\ CInv(s, dk) /\ CInv(u, dk)
      <4>1. FindSlot(InoOf(s, p), name) = Null /\ name \in Names
        BY <3>9 DEF HasName, Components
      <4>2. /\ EInv(dk) /\ Has(dk, InoOf(s, p), name, ino) /\ dk.kind[ino] = kind
            /\ \A o \in Inos : o # ino => dk.kind[o] = disk.kind[o]
            /\ \A o \in Inos : o # ino => \A nm : \A q \in Inos :
                  Has(disk, o, nm, q) => Has(dk, o, nm, q)
        BY <1>2, <1>3, <1>6, <2>2, <3>2, <4>1, MakeDiskOK
      <4>3. CInv(s, dk)
        <5>1. ASSUME NEW y \in Dentries, s.d[y].listed
              PROVE  /\ s.d[s.d[y].parent].inode # Null
                     /\ Has(dk, InoOf(s, s.d[y].parent), s.d[y].name, InoOf(s, y))
                     /\ dk.kind[InoOf(s, y)] = KindOf(s, y)
          <6>1. y # Root /\ s.d[y].inode # Null
            BY <1>2, <5>1 DEF SInv, DentriesOK, RootOK
          <6>2. s.d[y].parent \in Dentries
            BY <1>2, <6>1, PositiveDentry
          <6>3. /\ s.d[s.d[y].parent].inode # Null
                /\ Has(disk, InoOf(s, s.d[y].parent), s.d[y].name, InoOf(s, y))
                /\ disk.kind[InoOf(s, y)] = KindOf(s, y)
            BY <1>2, <5>1 DEF CInv
          <6> QED BY <4>2, <3>8, <6>1, <6>2, <6>3
        <5> QED BY <1>2, <5>1 DEF CInv
      <4>4. CInv(u, dk)
        BY <1>2, <1>3, <4>2, <3>6, <3>7, <3>8, <4>3, ChildCoherent
      <4> QED BY <4>2, <4>3, <4>4
    <3> QED BY <2>2, <3>6, <3>7, <3>9
  <2> QED BY <2>1, <2>2
<1>8. \A y \in Dentries : Outer(u, y) = Outer(s, y) + One(x, y)
  BY <1>2, <1>7, ChildCounts
<1>9. \A y \in Dentries : /\ Outer(s, y) \in Int /\ Outer(s, y) >= Ext(c, f, y)
                          /\ Ext(c, f, y) \in Nat /\ Outer(s, y) >= One(Root, y)
  BY <1>2, OuterIsInt, ExtCounts DEF Core, SInv, CountsOK
<1>10. \A y \in Dentries : Outer(u, y) >= Ext(c, f, y)
  BY <1>8, <1>9 DEF One
<1>11. Core(u, c, f, disk) /\ (~Made(t, ino) => Good(u, c, f, disk))
  BY <1>2, <1>7, <1>10, Carry
<1>12. ASSUME Made(t, ino) /\ ~HasName(InoOf(s, p), name) PROVE Good(u, c, f, dk)
  <2>1. EInv(dk) /\ CInv(s, dk) /\ CInv(u, dk)
    BY <1>7, <1>12
  <2>2. Core(s, c, f, dk)
    BY <1>2, <2>1 DEF Core, EInv
  <2> QED BY <1>2, <1>7, <1>10, <2>1, <2>2, Carry DEF Good
<1>13. Spare(u, x)
  BY <1>5, <1>8, <1>9 DEF Spare, One
<1> QED BY <1>1, <1>5, <1>6, <1>7, <1>8, <1>11, <1>12, <1>13

\* The disk without an entry, whose inode is freed or lost.
RemoveDisk(dir, name, ino, kind) ==
    [dir |-> [disk.dir EXCEPT ![dir] = RemoveEntry(dir, name)],
     kind |-> [disk.kind EXCEPT ![ino] = kind]]

LEMMA RemoveDiskType ==
  ASSUME EInv(disk), NEW dir \in Inos, NEW ino \in Inos, NEW name,
         NEW kind \in {"free", disk.kind[ino]}
  PROVE  RemoveDisk(dir, name, ino, kind) \in DiskType
<1> DEFINE T == {Hole} \cup [name : Components, ino : Inos]
<1>1. disk.dir \in [Inos -> Seq(T)] /\ disk.kind \in [Inos -> {"free", "dir", "file"}]
  BY DEF EInv, DiskType
<1>h. Hole \in T
  OBVIOUS
<1> HIDE DEF T
<1>2. PICK r, k : r = RemoveEntry(dir, name) /\ k = FindSlot(dir, name)
  OBVIOUS
<1>3. r \in Seq(T)
  <2>1. PICK q : q = disk.dir[dir]
    OBVIOUS
  <2>2. q \in [1 .. Len(q) -> T] /\ Len(q) \in Nat
    BY <1>1, <2>1
  <2>3. r = [q EXCEPT ![k] = Hole]
    BY <1>2, <2>1 DEF RemoveEntry
  <2>4. r \in [1 .. Len(q) -> T]
    BY <1>h, <2>2, <2>3
  <2> QED BY <2>2, <2>4
<1>4. [disk.dir EXCEPT ![dir] = r] \in [Inos -> Seq(T)]
  BY <1>1, <1>3
<1>5. [disk.kind EXCEPT ![ino] = kind] \in [Inos -> {"free", "dir", "file"}]
  BY <1>1
<1> QED BY <1>2, <1>4, <1>5 DEF RemoveDisk, DiskType, T

LEMMA RemoveDiskOK ==
  ASSUME EInv(disk), NEW dir \in Inos, NEW ino \in Inos, NEW name \in Names,
         Has(disk, dir, name, ino), EmptyDir(ino),
         NEW kind \in {"free", disk.kind[ino]}
  PROVE  LET dk == RemoveDisk(dir, name, ino, kind)
         IN  /\ EInv(dk)
             /\ \A o \in Inos : o # ino => dk.kind[o] = disk.kind[o]
             /\ \A o \in Inos : \A nm : \A q \in Inos :
                   q # ino /\ Has(disk, o, nm, q) => Has(dk, o, nm, q)
<1> DEFINE T == {Hole} \cup [name : Components, ino : Inos]
<1>1. PICK k \in DOMAIN disk.dir[dir] : disk.dir[dir][k] = [name |-> name, ino |-> ino]
  BY DEF Has
<1>2. disk.dir[dir][k] # Hole /\ disk.dir[dir][k].ino = ino /\ disk.dir[dir][k].name = name
  BY <1>1, Basics DEF Hole
<1>3. FindSlot(dir, name) = k
  <2>1. PICK j : j = FindSlot(dir, name)
    OBVIOUS
  <2>2. j # Null
    BY <1>2, <2>1, FindSlotOK
  <2>3. j \in DOMAIN disk.dir[dir] /\ disk.dir[dir][j].name = name
    BY <2>1, <2>2, FindSlotOK
  <2>4. j = k
    BY <1>2, <2>3 DEF EInv
  <2> QED BY <2>1, <2>4
<1>4. PICK r : r = RemoveEntry(dir, name)
  OBVIOUS
<1>5. r = [disk.dir[dir] EXCEPT ![k] = Hole]
  BY <1>3, <1>4 DEF RemoveEntry
<1>6. disk.dir \in [Inos -> Seq(T)] /\ disk.kind \in [Inos -> {"free", "dir", "file"}]
  BY DEF EInv, DiskType
<1>h. Hole \in T
  OBVIOUS
<1> HIDE DEF T
<1>7. /\ r \in Seq(T) /\ DOMAIN r = DOMAIN disk.dir[dir] /\ r[k] = Hole
      /\ \A j \in DOMAIN r : j # k => r[j] = disk.dir[dir][j]
  <2>1. PICK q : q = disk.dir[dir]
    OBVIOUS
  <2>2. q \in [1 .. Len(q) -> T] /\ Len(q) \in Nat /\ k \in DOMAIN q
    BY <1>1, <1>6, <2>1
  <2>3. r = [q EXCEPT ![k] = Hole]
    BY <1>5, <2>1
  <2>4. r \in [1 .. Len(q) -> T]
    BY <1>h, <2>2, <2>3
  <2>5. r \in Seq(T)
    BY <2>2, <2>4
  <2> QED BY <2>1, <2>2, <2>3, <2>5
<1>8. PICK dk : dk = RemoveDisk(dir, name, ino, kind)
  OBVIOUS
<1>8a. dk = [dir |-> [disk.dir EXCEPT ![dir] = RemoveEntry(dir, name)],
             kind |-> [disk.kind EXCEPT ![ino] = kind]]
  BY <1>8 DEF RemoveDisk
<1>9. kind \in {"free", "dir", "file"}
  BY <1>6
<1>10. /\ dk.dir \in [Inos -> Seq(T)] /\ dk.kind \in [Inos -> {"free", "dir", "file"}]
       /\ dk.dir[dir] = r /\ dk.kind[ino] = kind
       /\ \A o \in Inos : o # dir => dk.dir[o] = disk.dir[o]
       /\ \A o \in Inos : o # ino => dk.kind[o] = disk.kind[o]
  BY <1>4, <1>6, <1>7, <1>8a, <1>9
<1>11. dk \in DiskType
  <2>1. dk = [dir |-> dk.dir, kind |-> dk.kind]
    BY <1>8a
  <2> QED BY <1>10, <2>1 DEF DiskType, T
\* Every slot is as it was, but for the one removed.
<1>12. ASSUME NEW o \in Inos
       PROVE  /\ DOMAIN dk.dir[o] = DOMAIN disk.dir[o]
              /\ \A j \in DOMAIN dk.dir[o] :
                    dk.dir[o][j] = IF o = dir /\ j = k THEN Hole ELSE disk.dir[o][j]
  <2>1. CASE o = dir
    BY <1>7, <1>10, <2>1
  <2>2. CASE o # dir
    BY <1>10, <2>2
  <2> QED BY <2>1, <2>2
<1>13. ASSUME NEW o \in Inos, NEW j \in DOMAIN dk.dir[o], NEW i \in DOMAIN dk.dir[o],
              dk.dir[o][j] # Hole, dk.dir[o][j].name = dk.dir[o][i].name
       PROVE  j = i
  <2>1. disk.dir[o][j] = dk.dir[o][j] /\ disk.dir[o][j] # Hole
    BY <1>12, <1>13
  <2>2. dk.dir[o][j].name # Dot
    <3>1. j \in DOMAIN disk.dir[o]
      BY <1>12
    <3>2. disk.dir[o][j].name \in Names
      BY <2>1, <3>1, Slots
    <3> QED BY <2>1, <3>2, Basics
  <2>3. dk.dir[o][i] # Hole
    BY <1>13, <2>2 DEF Hole
  <2>4. disk.dir[o][i] = dk.dir[o][i]
    BY <1>12, <2>3
  <2> QED BY <1>12, <1>13, <2>1, <2>4 DEF EInv
<1>14. ASSUME NEW o \in Inos, NEW q \in Inos, NEW j \in DOMAIN dk.dir[o],
              NEW i \in DOMAIN dk.dir[q],
              dk.dir[o][j] # Hole, dk.dir[o][j].ino = dk.dir[q][i].ino
       PROVE  o = q /\ j = i
  <2>1. disk.dir[o][j] = dk.dir[o][j] /\ disk.dir[o][j] # Hole
    BY <1>12, <1>14
  <2>2. dk.dir[o][j].ino # Null
    <3>1. j \in DOMAIN disk.dir[o]
      BY <1>12
    <3>2. disk.dir[o][j].ino \in Inos
      BY <2>1, <3>1, Slots
    <3> QED BY <2>1, <3>2, Basics
  <2>3. dk.dir[q][i] # Hole
    BY <1>14, <2>2 DEF Hole
  <2>4. disk.dir[q][i] = dk.dir[q][i]
    BY <1>12, <2>3
  <2> QED BY <1>12, <1>14, <2>1, <2>4 DEF EInv
<1>15. ASSUME NEW o \in Inos, NEW j \in DOMAIN dk.dir[o], dk.dir[o][j] # Hole
       PROVE  /\ dk.dir[o][j].name \in Names /\ dk.kind[dk.dir[o][j].ino] # "free"
              /\ dk.dir[o][j].ino # RootIno /\ dk.kind[o] = "dir"
  <2>1. disk.dir[o][j] = dk.dir[o][j] /\ disk.dir[o][j] # Hole /\ j \in DOMAIN disk.dir[o]
    BY <1>12, <1>15
  <2>2. /\ disk.dir[o][j].name \in Names /\ disk.kind[disk.dir[o][j].ino] # "free"
        /\ disk.dir[o][j].ino # RootIno /\ disk.kind[o] = "dir"
    BY <2>1 DEF EInv
  <2>3. o # ino
    BY <2>1 DEF EmptyDir
  <2>4. disk.dir[o][j].ino # ino
    <3>1. SUFFICES ASSUME disk.dir[o][j].ino = ino PROVE FALSE
      OBVIOUS
    <3>2. o = dir /\ j = k
      BY <1>2, <2>1, <3>1 DEF EInv
    <3> QED BY <1>12, <1>15, <3>2
  <2>5. disk.dir[o][j].ino \in Inos
    BY <2>1, Slots
  <2> QED BY <1>10, <2>1, <2>2, <2>3, <2>4, <2>5
<1>16. EInv(dk)
  <2>1. ino # RootIno
    BY <1>1, <1>2 DEF EInv
  <2>2. dk.kind[RootIno] = "dir"
    BY <1>10, <2>1, Basics DEF EInv
  <2> QED BY <1>11, <1>13, <1>14, <1>15, <2>2 DEF EInv
<1>17. ASSUME NEW o \in Inos, NEW nm, NEW q \in Inos, q # ino, Has(disk, o, nm, q)
       PROVE  Has(dk, o, nm, q)
  <2>1. PICK j \in DOMAIN disk.dir[o] : disk.dir[o][j] = [name |-> nm, ino |-> q]
    BY <1>17 DEF Has
  <2>2. disk.dir[o][j].ino # ino
    BY <1>17, <2>1
  <2>3. ~(o = dir /\ j = k)
    BY <1>2, <2>2
  <2> QED BY <1>12, <2>1, <2>3 DEF Has
<1> QED BY <1>8, <1>10, <1>16, <1>17

\* t is s after the dentry x left the cache and its inode was freed, or lost.
Removed(s, x, t) ==
    /\ t \in MemType
    /\ t.d[x].used = s.d[x].used /\ t.d[x].count = s.d[x].count
    /\ t.d[x].parent = s.d[x].parent /\ t.d[x].name = s.d[x].name
    /\ t.d[x].inode = Null /\ ~t.d[x].listed
    /\ \A y \in Dentries : y # x => t.d[y] = s.d[y]
    /\ \A n \in Inodes : n # s.d[x].inode => t.i[n] = s.i[n]
    /\ \/ t.i[s.d[x].inode] = FreeInode
       \/ FsFails /\ t.i[s.d[x].inode] = s.i[s.d[x].inode]

LEMMA DetachRemoves ==
  ASSUME NEW s, SInv(s), NEW x \in Dentries, s.d[x].inode # Null
  PROVE  /\ Removed(s, x, DestroyInode(Detach(s, x), s.d[x].inode))
         /\ FsFails => Removed(s, x, Detach(s, x))
<1>1. s.d \in [Dentries -> DentryType] /\ s.i \in [Inodes -> InodeType] /\ s \in MemType
  BY DEF SInv, MemType
<1>2. s.d[x].inode \in Inodes
  BY PositiveDentry
<1> DEFINE e == [s.d[x] EXCEPT !.inode = Null, !.listed = FALSE]
<1>3. PICK t : t = Detach(s, x)
  OBVIOUS
<1>4. t = [d |-> [s.d EXCEPT ![x] = e], i |-> s.i]
  <2>1. t = [d |-> [s.d EXCEPT ![x].inode = Null, ![x].listed = FALSE], i |-> s.i]
    BY <1>1, <1>3 DEF MemType, Detach
  <2>2. [s.d EXCEPT ![x].inode = Null, ![x].listed = FALSE] = [s.d EXCEPT ![x] = e]
    BY <1>1
  <2> QED BY <2>1, <2>2
<1>5. s.d[x] \in DentryType
  BY <1>1
<1>6. /\ e \in DentryType /\ e.inode = Null /\ ~e.listed
      /\ e.used = s.d[x].used /\ e.count = s.d[x].count /\ e.parent = s.d[x].parent
      /\ e.name = s.d[x].name
  BY <1>5 DEF DentryType
<1> HIDE DEF e
<1>7. /\ t \in MemType /\ t.d[x] = e /\ t.i = s.i
      /\ \A y \in Dentries : y # x => t.d[y] = s.d[y]
  BY <1>1, <1>4, <1>6 DEF MemType
<1>8. FsFails => Removed(s, x, t)
  BY <1>6, <1>7 DEF Removed
<1>9. PICK u, n : n = s.d[x].inode /\ u = DestroyInode(t, n)
  OBVIOUS
<1>10. u = [d |-> t.d, i |-> [s.i EXCEPT ![n] = FreeInode]]
  BY <1>7, <1>9 DEF DestroyInode, MemType
<1>11. FreeInode \in InodeType
  BY DEF FreeInode, InodeType
<1>12. t.d \in [Dentries -> DentryType]
  BY <1>7 DEF MemType
<1>13. /\ u \in MemType /\ u.d = t.d /\ u.i[n] = FreeInode
       /\ \A m \in Inodes : m # n => u.i[m] = s.i[m]
  BY <1>1, <1>2, <1>9, <1>10, <1>11, <1>12 DEF MemType
<1>14. Removed(s, x, u)
  BY <1>6, <1>7, <1>9, <1>13 DEF Removed
<1> QED BY <1>3, <1>8, <1>9, <1>14

LEMMA RemovedOK ==
  ASSUME NEW s, NEW c, NEW f, Good(s, c, f, disk), NEW x \in Dentries, x # Root, x # c,
         s.d[x].inode # Null, NEW t, Removed(s, x, t), NEW dk \in DiskType
  PROVE  /\ Core(t, c, f, dk)
         /\ \A y \in Dentries : Outer(t, y) = Outer(s, y)
         /\ /\ EInv(dk) /\ EmptyDir(InoOf(s, x))
            /\ \A o \in Inos : o # InoOf(s, x) => dk.kind[o] = disk.kind[o]
            /\ \A o \in Inos : \A nm : \A q \in Inos :
                  q # InoOf(s, x) /\ Has(disk, o, nm, q) => Has(dk, o, nm, q)
            => Good(t, c, f, dk)
<1>1. SInv(s) /\ CInv(s, disk) /\ EInv(disk) /\ CwdInv(s, c) /\ FdsInv(s, f)
  BY DEF Good, Core
<1>2. PICK n : n = s.d[x].inode
  OBVIOUS
<1>3. n \in Inodes /\ s.d[x].used /\ InoOf(s, x) \in Inos
  BY <1>1, <1>2, PositiveDentry
<1>4. ASSUME NEW y \in Dentries, y # x, s.d[y].inode # Null
      PROVE  /\ s.d[y].inode # n /\ s.d[y].inode \in Inodes
             /\ t.i[s.d[y].inode] = s.i[s.d[y].inode] /\ t.d[y] = s.d[y]
             /\ InoOf(t, y) = InoOf(s, y) /\ KindOf(t, y) = KindOf(s, y)
  <2>1. s.d[y].inode # n /\ s.d[y].inode \in Inodes
    BY <1>1, <1>2, <1>4, PositiveDentry DEF SInv, OwnInodes
  <2>2. t.i[s.d[y].inode] = s.i[s.d[y].inode] /\ t.d[y] = s.d[y]
    BY <1>2, <1>4, <2>1 DEF Removed
  <2> QED BY <2>1, <2>2 DEF InoOf, KindOf
<1>5. ASSUME NEW y \in Dentries PROVE Outer(t, y) = Outer(s, y)
  <2>1. \A z \in Dentries : /\ t.d[z].used = s.d[z].used /\ t.d[z].parent = s.d[z].parent
                            /\ t.d[z].count = s.d[z].count
    BY DEF Removed
  <2>2. Kids(t, y) = Kids(s, y)
    BY <2>1, KidsSame
  <2> QED BY <2>1, <2>2 DEF Outer
<1>6. CountsOK(t)
  BY <1>1, <1>5 DEF SInv, CountsOK
<1>7. DentriesOK(t)
  <2> SUFFICES ASSUME NEW y \in Dentries
      PROVE /\ IF t.d[y].used THEN t.d[y].count >= 1 ELSE t.d[y] = FreeDentry
            /\ t.d[y].used /\ y # Root => t.d[y].parent \in Dentries \ {y}
            /\ y # Root => (t.d[y].listed <=> t.d[y].inode # Null)
            /\ t.d[y].inode # Null => t.i[t.d[y].inode].used
    BY DEF DentriesOK
  <2>1. CASE y = x
    BY <1>1, <1>3, <2>1 DEF Removed, SInv, DentriesOK
  <2>2. CASE y # x
    <3>1. t.d[y] = s.d[y]
      BY <2>2 DEF Removed
    <3> QED BY <1>1, <1>4, <2>2, <3>1 DEF SInv, DentriesOK
  <2> QED BY <2>1, <2>2
<1>8. InodesOK(t)
  <2>1. ~FreeInode.used
    BY DEF FreeInode
  <2> SUFFICES ASSUME NEW m \in Inodes
      PROVE IF t.i[m].used
            THEN t.i[m].count = 2 /\ t.i[m].ino \in Inos /\ t.i[m].kind # "free"
            ELSE t.i[m] = FreeInode
    BY DEF InodesOK
  <2>2. t.i[m] = FreeInode \/ t.i[m] = s.i[m]
    BY DEF Removed
  <2> QED BY <1>1, <2>1, <2>2 DEF SInv, InodesOK
<1>9. RootOK(t)
  <2>1. Root \in Dentries /\ s.d[Root].inode # Null
    BY <1>1, Basics DEF SInv, RootOK
  <2> QED BY <1>1, <1>4, <2>1 DEF SInv, RootOK
<1>10. OwnInodes(t)
  BY <1>1 DEF SInv, OwnInodes, Removed
<1>11. NoOrphan(t)
  <2> SUFFICES ASSUME ~FsFails, NEW m \in Inodes, t.i[m].used
      PROVE \E y \in Dentries : t.d[y].inode = m
    BY DEF NoOrphan
  <2>1. m # n
    BY <1>2 DEF Removed, FreeInode
  <2>2. s.i[m].used
    BY <1>2, <2>1 DEF Removed
  <2>3. PICK y \in Dentries : s.d[y].inode = m
    BY <1>1, <2>2 DEF SInv, NoOrphan
  <2>4. y # x
    BY <1>2, <2>1, <2>3
  <2> QED BY <2>3, <2>4 DEF Removed
<1>12. SInv(t)
  BY <1>6, <1>7, <1>8, <1>9, <1>10, <1>11 DEF SInv, Removed
<1>13. ASSUME EmptyDir(InoOf(s, x)),
              \A o \in Inos : o # InoOf(s, x) => dk.kind[o] = disk.kind[o],
              \A o \in Inos : \A nm : \A q \in Inos :
                 q # InoOf(s, x) /\ Has(disk, o, nm, q) => Has(dk, o, nm, q)
       PROVE  CInv(t, dk)
  <2>1. ASSUME NEW y \in Dentries, t.d[y].listed
        PROVE  /\ t.d[t.d[y].parent].inode # Null
               /\ Has(dk, InoOf(t, t.d[y].parent), t.d[y].name, InoOf(t, y))
               /\ dk.kind[InoOf(t, y)] = KindOf(t, y)
    <3>1. y # x
      BY <2>1 DEF Removed
    <3>2. t.d[y] = s.d[y] /\ s.d[y].listed
      BY <2>1, <3>1 DEF Removed
    <3>3. y # Root /\ s.d[y].inode # Null
      BY <1>1, <3>2 DEF SInv, DentriesOK, RootOK
    <3>4. s.d[y].parent \in Dentries /\ InoOf(s, y) \in Inos
      BY <1>1, <3>3, PositiveDentry
    <3>5. PICK p : p = s.d[y].parent
      OBVIOUS
    <3>6. /\ s.d[p].inode # Null /\ Has(disk, InoOf(s, p), s.d[y].name, InoOf(s, y))
          /\ disk.kind[InoOf(s, y)] = KindOf(s, y)
      BY <1>1, <3>2, <3>5 DEF CInv
    <3>7. p # x
      <4>1. SUFFICES ASSUME p = x PROVE FALSE
        OBVIOUS
      <4>2. PICK k \in DOMAIN disk.dir[InoOf(s, x)] :
               disk.dir[InoOf(s, x)][k] = [name |-> s.d[y].name, ino |-> InoOf(s, y)]
        BY <3>6, <4>1 DEF Has
      <4>3. disk.dir[InoOf(s, x)][k] = Hole
        BY <1>13, <4>2 DEF EmptyDir
      <4> QED BY <3>4, <4>2, <4>3, Basics DEF Hole
    <3>8. InoOf(s, y) # InoOf(s, x)
      BY <1>1, <3>1, <3>3 DEF CInv
    <3>9. InoOf(s, p) \in Inos
      BY <1>1, <3>4, <3>5, <3>6, PositiveDentry
    <3>10. Has(dk, InoOf(s, p), s.d[y].name, InoOf(s, y)) /\ dk.kind[InoOf(s, y)] = KindOf(s, y)
      BY <1>13, <3>4, <3>6, <3>8, <3>9
    <3>11. /\ t.d[p] = s.d[p] /\ InoOf(t, p) = InoOf(s, p)
           /\ InoOf(t, y) = InoOf(s, y) /\ KindOf(t, y) = KindOf(s, y)
      BY <1>4, <3>1, <3>3, <3>4, <3>5, <3>6, <3>7
    <3> QED BY <3>2, <3>5, <3>6, <3>10, <3>11
  <2>2. ASSUME NEW y \in Dentries, NEW z \in Dentries,
               y # z, t.d[y].inode # Null, t.d[z].inode # Null
        PROVE  InoOf(t, y) # InoOf(t, z)
    <3>1. y # x /\ z # x
      BY <2>2 DEF Removed
    <3>2. s.d[y].inode # Null /\ s.d[z].inode # Null
      BY <2>2, <3>1 DEF Removed
    <3> QED BY <1>1, <1>4, <2>2, <3>1, <3>2 DEF CInv
  <2> QED BY <2>1, <2>2 DEF CInv
<1>14. CwdInv(t, c)
  BY <1>1, <1>4 DEF CwdInv
<1>15. FdsInv(t, f)
  <2> SUFFICES ASSUME NEW y \in Fds, f[y].used
      PROVE /\ f[y].dentry \in Dentries
            /\ t.d[f[y].dentry].inode # Null => f[y].inode = t.d[f[y].dentry].inode
    BY <1>1 DEF FdsInv
  <2>1. f[y].dentry \in Dentries
    BY <1>1 DEF FdsInv
  <2> QED BY <1>1, <2>1 DEF FdsInv, Removed
<1>16. \A y \in Dentries : Outer(t, y) >= Ext(c, f, y)
  BY <1>5 DEF Good, Core
<1>17. Core(t, c, f, dk)
  BY <1>12, <1>14, <1>15, <1>16 DEF Core
<1> QED BY <1>5, <1>13, <1>17 DEF Good
-----------------------------------------------------------------------------
(* The calls.                                                               *)

\* vfs_get_cwd_dentry.
LEMMA MemOK ==
  ASSUME Good(mem, cwd, fds, disk)
  PROVE  /\ Good(Mem, Cwd, fds, disk)
         /\ Cwd \in Dentries /\ Mem.d[Cwd].inode # Null /\ KindOf(Mem, Cwd) = "dir"
         /\ Mem.d[Root].inode # Null /\ KindOf(Mem, Root) = "dir"
         /\ Exact(mem, cwd, fds) => Exact(Mem, Cwd, fds)
<1>1. SInv(mem) /\ CInv(mem, disk) /\ CwdInv(mem, cwd)
  BY DEF Good, Core
<1>2. /\ Good(Mem, Cwd, fds, disk) /\ Cwd \in Dentries
      /\ Exact(mem, cwd, fds) => Exact(Mem, Cwd, fds)
  <2>1. CASE cwd # Null
    <3>1. Mem = mem /\ Cwd = cwd
      BY <2>1 DEF Mem, Cwd
    <3> QED BY <1>1, <2>1, <3>1 DEF CwdInv
  <2>2. CASE cwd = Null
    <3>1. Mem = Dget(mem, Root) /\ Cwd = Root
      BY <2>2 DEF Mem, Cwd
    <3>2. Root \in Dentries /\ mem.d[Root].used /\ CwdInv(mem, Root)
      BY <1>1, Basics DEF SInv, RootOK, CwdInv
    <3>3. PICK t : t = Dget(mem, Root)
      OBVIOUS
    <3>4. /\ SInv(t) /\ Shrunk(mem, t) /\ CInv(t, disk)
          /\ \A y \in Dentries : Outer(t, y) = Outer(mem, y) + One(Root, y)
      BY <1>1, <3>2, <3>3, DgetOK
    <3>5. ASSUME NEW y \in Dentries PROVE Ext(Root, fds, y) = Ext(Null, fds, y) + One(Root, y)
      <4>1. Cardinality(FdsOn(fds, y)) \in Nat
        BY ExtCounts
      <4>2. y # Null
        BY Basics
      <4> QED BY <4>1, <4>2 DEF Ext, One
    <3>6. \A y \in Dentries : /\ Outer(mem, y) \in Int /\ Outer(mem, y) >= Ext(Null, fds, y)
                              /\ Ext(Null, fds, y) \in Nat
      BY <1>1, <2>2, OuterIsInt, ExtCounts DEF Good, Core, SInv
    <3>7. \A y \in Dentries : Outer(t, y) >= Ext(Root, fds, y)
      BY <3>4, <3>5, <3>6 DEF One
    <3>8. Good(t, Root, fds, disk)
      BY <3>2, <3>4, <3>7, Carry DEF Good
    <3>9. Exact(mem, Null, fds) => Exact(t, Root, fds)
      BY <3>4, <3>5 DEF Exact
    <3> QED BY <2>2, <3>1, <3>2, <3>3, <3>8, <3>9
  <2> QED BY <2>1, <2>2
<1>3. Cwd # Null /\ CwdInv(Mem, Cwd) /\ SInv(Mem)
  BY <1>2, Basics DEF Good, Core
<1> QED BY <1>2, <1>3 DEF CwdInv, SInv, RootOK

LEMMA StartIsDir ==
  ASSUME Good(mem, cwd, fds, disk), NEW p
  PROVE  /\ StartOf(p) \in Dentries /\ Mem.d[StartOf(p)].inode # Null
         /\ KindOf(Mem, StartOf(p)) = "dir" /\ Positive(Mem, StartOf(p))
<1>1. StartOf(p) = Root \/ StartOf(p) = Cwd
  BY DEF StartOf
<1> QED BY <1>1, MemOK, Basics DEF Positive

LEMMA ResolveOK ==
  ASSUME Good(mem, cwd, fds, disk), NEW p \in Path, NEW miss
  PROVE  WalkInv(Mem, Resolve(p, miss))
<1>1. p.comps \in Seq(Components)
  BY DEF Path
<1>2. SInv(Mem) /\ CInv(Mem, disk) /\ EInv(disk)
  BY MemOK DEF Good, Core
<1> QED BY <1>1, <1>2, StartIsDir, LookupOK DEF Resolve

\* The directory that a new name goes to, with the reference on it that the
\* lookup took.
LEMMA CreateParentOK ==
  ASSUME Good(mem, cwd, fds, disk), NEW p \in Path, p.comps # << >>, NEW miss
  PROVE  LET w == CreateParent(Mem, p, miss)
         IN  /\ Last(p.comps) \in Components /\ Len(p.comps) \in Nat \ {0}
             /\ w.d = Null => w.s = Mem
             /\ w.d # Null =>
                  /\ w.d \in Dentries /\ w.s.d[w.d].inode # Null
                  /\ Good(w.s, Cwd, fds, disk)
                  /\ \A y \in Dentries :
                        Outer(w.s, y) = Outer(Mem, y) + IF Len(p.comps) > 1 THEN One(w.d, y) ELSE 0
                  /\ Len(p.comps) > 1 => Spare(w.s, w.d) /\ Dput(w.s, w.d) = Mem
                  /\ Len(p.comps) = 1 => w.s = Mem
<1>1. PICK w : w = CreateParent(Mem, p, miss)
  OBVIOUS
<1>2. PICK comps, start : comps = p.comps /\ start = StartOf(p)
  OBVIOUS
<1>3. comps \in Seq(Components) /\ comps # << >> /\ Len(comps) \in Nat \ {0}
  BY <1>2 DEF Path
<1>4. /\ start \in Dentries /\ Mem.d[start].inode # Null
      /\ KindOf(Mem, start) = "dir" /\ Positive(Mem, start)
  BY <1>2, StartIsDir
<1>5. Good(Mem, Cwd, fds, disk) /\ SInv(Mem) /\ CInv(Mem, disk) /\ EInv(disk)
  BY MemOK DEF Good, Core
<1>6. PICK v : v = PathLookup(Mem, start, Front(comps), miss)
  OBVIOUS
<1>7. Front(comps) \in Seq(Components) /\ Last(comps) \in Components
  BY <1>3, <1>4, LookupLast
<1>8. WalkInv(Mem, v)
  BY <1>4, <1>5, <1>6, <1>7, LookupOK
<1>10. CASE Len(comps) = 1
  <2>0. w = [s |-> Mem, d |-> start]
    <3>1. Len(p.comps) = 1
      BY <1>2, <1>10
    <3> QED BY <1>1, <1>2, <3>1 DEF CreateParent
  <2>1. w.s = Mem /\ w.d = start
    BY <2>0
  <2>2. \A y \in Dentries : Outer(w.s, y) = Outer(Mem, y) + 0
    <3> SUFFICES ASSUME NEW y \in Dentries PROVE Outer(w.s, y) = Outer(Mem, y) + 0
      OBVIOUS
    <3>1. Outer(Mem, y) \in Int
      BY <1>5, OuterIsInt DEF SInv
    <3> QED BY <2>1, <3>1
  <2>3. w.d \in Dentries /\ w.d # Null /\ w.s.d[w.d].inode # Null /\ Good(w.s, Cwd, fds, disk)
    BY <1>4, <1>5, <2>1, Basics
  <2>4. ~(Len(p.comps) > 1) /\ Len(p.comps) \in Nat \ {0} /\ Last(p.comps) \in Components
    BY <1>2, <1>3, <1>7, <1>10
  <2> QED BY <1>1, <2>1, <2>2, <2>3, <2>4
<1>11. CASE Len(comps) # 1
  <2>1. w = v /\ Len(comps) > 1
    <3>1. Len(p.comps) # 1
      BY <1>2, <1>11
    <3>2. w = v
      BY <1>1, <1>2, <1>6, <3>1 DEF CreateParent
    <3>3. Len(comps) > 1
      <4>1. PICK k : k = Len(comps)
        OBVIOUS
      <4>2. k \in Nat /\ k # 0
        BY <1>3, <4>1
      <4>3. k # 1
        BY <1>11, <4>1
      <4>4. k > 1
        BY <4>2, <4>3
      <4> QED BY <4>1, <4>4
    <3> QED BY <3>2, <3>3
  <2>2. v.d = Null => v.s = Mem
    BY <1>8 DEF WalkInv
  <2>3. v.d # Null =>
          /\ v.d \in Dentries /\ v.s.d[v.d].inode # Null /\ Spare(v.s, v.d)
          /\ Good(v.s, Cwd, fds, disk) /\ Dput(v.s, v.d) = Mem
          /\ \A y \in Dentries : Outer(v.s, y) = Outer(Mem, y) + One(v.d, y)
    BY <1>5, <1>8, WalkGood
  <2>4. /\ Len(p.comps) > 1 /\ Len(p.comps) # 1 /\ Len(p.comps) \in Nat \ {0}
        /\ Last(p.comps) \in Components
    BY <1>2, <1>3, <1>7, <1>11, <2>1
  <2> QED BY <1>1, <2>1, <2>2, <2>3, <2>4
<1> QED BY <1>10, <1>11

-----------------------------------------------------------------------------
\* What every call preserves.
Kept == /\ Core(mem', cwd', fds', disk')
        /\ ~astray' => Good(mem', cwd', fds', disk')
        /\ Balanced /\ Exact(mem, cwd, fds) => Exact(mem', cwd', fds')

LEMMA Undone ==
  ASSUME Good(mem, cwd, fds, disk), mem' = Mem, cwd' = Cwd, fds' = fds,
         disk' \in DiskType, ~astray' => disk' = disk
  PROVE  Kept
<1>1. Good(Mem, Cwd, fds, disk) /\ (Exact(mem, cwd, fds) => Exact(Mem, Cwd, fds))
  BY MemOK
<1> QED BY <1>1 DEF Kept, Good, Core

\* A call that only looked gives its reference back.
LEMMA LookUndone ==
  ASSUME NEW w, WalkInv(Mem, w)
  PROVE  /\ w.d = Null => w.s = Mem
         /\ w.d # Null => Dput(w.s, w.d) = Mem
         /\ (IF w.d = Null THEN w.s ELSE Dput(w.s, w.d)) = Mem
         /\ ~Positive(w.s, w.d) => w.d = Null
BY DEF WalkInv, Positive

LEMMA LetGoOK ==
  ASSUME Good(mem, cwd, fds, disk), NEW t, WalkInv(Mem, t), NEW starved,
         LetGo(t, starved) \/ (~Positive(t.s, t.d) /\ Missed(t.s, starved)),
         cwd' = Cwd, fds' = fds
  PROVE  Kept
<1>1. disk' = disk /\ disk' \in DiskType
  BY DEF LetGo, Missed, Good, Core
<1>2. mem' = Mem
  BY LookUndone DEF LetGo, Missed
<1> QED BY <1>1, <1>2, Undone

LEMMA StatOK ==
  ASSUME Good(mem, cwd, fds, disk), NEW p \in Path, Stat(p)
  PROVE  Kept
<1>1. PICK miss : LetGo(Resolve(p, miss), ResolveStarves(p, miss))
  BY DEF Stat
<1>2. cwd' = Cwd /\ fds' = fds
  BY DEF Stat
<1> QED BY <1>1, <1>2, ResolveOK, LetGoOK

\* A new descriptor takes over a reference that was taken for it.
LEMMA OpenFdKept ==
  ASSUME Good(mem, cwd, fds, disk), NextFd # Null, NEW s, NEW dk, Core(s, Cwd, fds, dk),
         ~astray' => Good(s, Cwd, fds, dk),
         NEW x \in Dentries,
         \A y \in Dentries : Outer(s, y) >= Ext(Cwd, fds, y) + One(x, y),
         Exact(Mem, Cwd, fds) /\ Balanced =>
            \A y \in Dentries : Outer(s, y) = Ext(Cwd, fds, y) + One(x, y),
         OpenFd(s, x), cwd' = Cwd, disk' = dk
  PROVE  Kept
<1>1. NextFd \in Fds /\ ~fds[NextFd].used
  <2>1. DOMAIN fds = Fds
    BY DEF Good, Core, FdsInv
  <2>2. Null \notin Fds /\ Fds \subseteq Nat
    BY Basics DEF Fds, Null
  <2> QED BY <2>1, <2>2, FreeSlot DEF NextFd
<1>0. PICK n : n = NextFd
  OBVIOUS
<1>0a. n \in Fds /\ ~fds[n].used
  BY <1>0, <1>1
<1>0b. PICK e : e = [used |-> TRUE, dentry |-> x, inode |-> s.d[x].inode]
  OBVIOUS
<1>0c. PICK g : g = [fds EXCEPT ![n] = e]
  OBVIOUS
<1>2. mem' = s /\ fds' = g
  BY <1>0, <1>0b, <1>0c DEF OpenFd
<1>2a. e \in FdType /\ e.used /\ e.dentry = x /\ e.inode = s.d[x].inode
  <2>1. s.d[x].inode \in Inodes \cup {Null}
    BY DEF Core, SInv, MemType, DentryType
  <2> QED BY <1>0b, <2>1 DEF FdType
<1>2b. fds \in [Fds -> FdType]
  BY DEF Good, Core, FdsInv
<1>2c. g \in [Fds -> FdType] /\ g[n] = e /\ \A y \in Fds : y # n => g[y] = fds[y]
  BY <1>0a, <1>0c, <1>2a, <1>2b
<1>3. /\ Core(s, Cwd, g, dk) /\ (Good(s, Cwd, fds, dk) => Good(s, Cwd, g, dk))
      /\ \A y \in Dentries : Ext(Cwd, g, y) = Ext(Cwd, fds, y) + One(x, y)
  BY <1>0a, <1>2a, <1>2c, OpenFdOK
<1>4. ASSUME Balanced, Exact(mem, cwd, fds) PROVE Exact(s, Cwd, g)
  <2>1. Exact(Mem, Cwd, fds)
    BY <1>4, MemOK
  <2>2. \A y \in Dentries : Outer(s, y) = Ext(Cwd, fds, y) + One(x, y)
    BY <1>4, <2>1
  <2> QED BY <1>3, <2>2 DEF Exact
<1> QED BY <1>2, <1>3, <1>4 DEF Kept

LEMMA OpenFound ==
  ASSUME Good(mem, cwd, fds, disk), NextFd # Null, NEW w, WalkInv(Mem, w), w.d # Null,
         OpenFd(w.s, w.d), cwd' = Cwd, disk' = disk
  PROVE  Kept
<1>1. Good(Mem, Cwd, fds, disk)
  BY MemOK
<1>2. /\ w.d \in Dentries /\ Good(w.s, Cwd, fds, disk)
      /\ \A y \in Dentries : Outer(w.s, y) = Outer(Mem, y) + One(w.d, y)
  BY <1>1, WalkGood
<1>3. \A y \in Dentries : /\ Outer(Mem, y) \in Int /\ Ext(Cwd, fds, y) \in Nat
                          /\ Outer(Mem, y) >= Ext(Cwd, fds, y)
                          /\ One(w.d, y) \in Nat
  BY <1>1, OuterIsInt, ExtCounts DEF Good, Core, SInv, One
<1>4. \A y \in Dentries : Outer(w.s, y) >= Ext(Cwd, fds, y) + One(w.d, y)
  BY <1>2, <1>3
<1>5. Exact(Mem, Cwd, fds) =>
         \A y \in Dentries : Outer(w.s, y) = Ext(Cwd, fds, y) + One(w.d, y)
  BY <1>2 DEF Exact
<1> QED BY <1>2, <1>4, <1>5, OpenFdKept DEF Good

LEMMA OpenOK ==
  ASSUME Good(mem, cwd, fds, disk), NEW p \in Path, p.comps # << >>, Open(p)
  PROVE  Kept
<1>1. PICK miss : \E t \in {OpenTarget(p, miss)} :
                     IF Positive(t.s, t.d) THEN OpenFd(t.s, t.d) ELSE NoFd(t.s)
  BY DEF Open
<1>2. PICK t : t = Resolve(p, miss)
  OBVIOUS
<1>3. /\ NextFd # Null /\ cwd' = Cwd /\ disk' = disk
      /\ IF Positive(t.s, t.d) THEN OpenFd(t.s, t.d) ELSE NoFd(t.s)
  BY <1>1, <1>2 DEF Open, OpenTarget
<1>4. WalkInv(Mem, t) /\ disk \in DiskType
  BY <1>2, ResolveOK DEF Good, Core
<1>5. CASE Positive(t.s, t.d)
  <2>1. t.d # Null
    BY <1>5 DEF Positive
  <2> QED BY <1>3, <1>4, <1>5, <2>1, OpenFound
<1>6. CASE ~Positive(t.s, t.d)
  <2>1. t.s = Mem
    BY <1>4, <1>6, LookUndone
  <2>2. mem' = Mem /\ fds' = fds
    BY <1>3, <1>6, <2>1 DEF NoFd
  <2> QED BY <1>3, <1>4, <2>2, Undone
<1> QED BY <1>5, <1>6
-----------------------------------------------------------------------------
\* A reference that is there to be dropped.
LEMMA PutBack ==
  ASSUME NEW s, NEW c, NEW f, NEW dk, Core(s, c, f, dk), NEW x \in Dentries,
         \A y \in Dentries : Outer(s, y) >= Ext(c, f, y) + One(x, y)
  PROVE  /\ Core(Dput(s, x), c, f, dk) /\ (Good(s, c, f, dk) => Good(Dput(s, x), c, f, dk))
         /\ \A y \in Dentries : Outer(Dput(s, x), y) = Outer(s, y) - One(x, y)
<1>1. SInv(s) /\ CwdInv(s, c)
  BY DEF Core
<1>2. \A y \in Dentries : Outer(s, y) \in Int /\ Ext(c, f, y) \in Nat /\ One(x, y) \in Nat
  BY <1>1, OuterIsInt, ExtCounts DEF SInv, One
<1>3. Spare(s, x)
  <2>1. Ext(c, f, x) >= One(Root, x) + One(c, x) /\ One(c, x) \in Nat /\ One(Root, x) \in Nat
    BY ExtCounts DEF One
  <2>2. Outer(s, x) >= Ext(c, f, x) + 1
    BY DEF One
  <2> QED BY <1>2, <2>1, <2>2 DEF Spare
<1>4. PICK t : t = Dput(s, x)
  OBVIOUS
<1>5. /\ SInv(t) /\ Shrunk(s, t)
      /\ \A y \in Dentries : Outer(t, y) = Outer(s, y) - One(x, y)
      /\ CInv(s, dk) => CInv(t, dk)
  BY <1>1, <1>3, <1>4, DputOK
<1>6. \A y \in Dentries : Outer(t, y) >= Ext(c, f, y)
  BY <1>2, <1>5
<1>7. Core(t, c, f, dk) /\ (Good(s, c, f, dk) => Good(t, c, f, dk))
  BY <1>1, <1>5, <1>6, Carry DEF Good
<1> QED BY <1>4, <1>5, <1>7

\* open with O_CREAT and mkdir leave the memory of the lookup as it is.
LEMMA ParentLeft ==
  ASSUME Good(mem, cwd, fds, disk), NEW p \in Path, p.comps # << >>,
         Balanced => Len(p.comps) = 1,
         NEW miss, NEW w, w = CreateParent(Mem, p, miss),
         mem' = w.s, cwd' = Cwd, fds' = fds, disk' \in DiskType, ~astray' => disk' = disk
  PROVE  Kept
<1>1. CASE w.d = Null
  <2>1. mem' = Mem
    BY <1>1, CreateParentOK
  <2> QED BY <2>1, Undone
<1>2. CASE w.d # Null
  <2>1. /\ Good(w.s, Cwd, fds, disk) /\ Len(p.comps) \in Nat \ {0}
        /\ \A y \in Dentries :
              Outer(w.s, y) = Outer(Mem, y) + IF Len(p.comps) > 1 THEN One(w.d, y) ELSE 0
    BY <1>2, CreateParentOK
  <2>2. ASSUME Balanced, Exact(mem, cwd, fds) PROVE Exact(w.s, Cwd, fds)
    <3>1. Exact(Mem, Cwd, fds)
      BY <2>2, MemOK
    <3>2. ~(Len(p.comps) > 1)
      <4>1. PICK k : k = Len(p.comps)
        OBVIOUS
      <4>2. k = 1
        BY <2>2, <4>1, Zenon
      <4>3. ~(k > 1)
        BY <4>2
      <4> QED BY <4>1, <4>3, Zenon
    <3>3. \A y \in Dentries : Ext(Cwd, fds, y) \in Nat
      BY ExtCounts
    <3>4. \A y \in Dentries : Outer(w.s, y) = Outer(Mem, y) + 0
      BY <2>1, <3>2
    <3>5. \A y \in Dentries : Outer(w.s, y) = Ext(Cwd, fds, y) + 0
      BY <3>1, <3>4 DEF Exact
    <3> QED BY <3>3, <3>5 DEF Exact
  <2> QED BY <2>1, <2>2 DEF Kept, Good, Core
<1> QED BY <1>1, <1>2

\* A dentry that got no inode is given back.
LEMMA AllocUndone ==
  ASSUME NEW s, SInv(s), NEW d \in Dentries, s.d[d].inode # Null, NEW name \in Components,
         NEW x, x = DAlloc(s, d, name).d, x # Null, NEW t, t = DAlloc(s, d, name).s
  PROVE  Dput(t, x) = s
<1>1. s.d[d].used
  BY PositiveDentry
<1>2. /\ t \in MemType /\ Child(s, d, x, t) /\ t.i = s.i /\ t.d[x].inode = Null
      /\ ~t.d[x].listed
  BY <1>1, DAllocChild
<1>3. SInv(t)
  BY <1>1, <1>2, ChildOK DEF Fresh
<1> QED BY <1>1, <1>2, <1>3, ChildDropped

\* What a creation leaves on the disk, and of a new inode in memory.
LEMMA MakeKept ==
  ASSUME NEW w, Good(w.s, Cwd, fds, disk), w.d \in Dentries,
         w.s.d[w.d].inode # Null, KindOf(w.s, w.d) = "dir", NEW name \in Components,
         DAlloc(w.s, w.d, name).d # Null, NEW ino \in Allocatable,
         NEW kind \in {"dir", "file"}, NEW end, NEW starved,
         Make(DAlloc(w.s, w.d, name).s, w, name, ino, kind, end, starved)
  PROVE  LET t == DAlloc(w.s, w.d, name).s
             x == DAlloc(w.s, w.d, name).d
             u == MakeMem(t, x, ino, kind)
         IN  /\ disk' \in DiskType /\ (~Made(t, ino) => disk' = disk /\ u = t)
             /\ Made(t, ino) /\ end # "done" => astray'
             /\ Made(t, ino) =>
                  /\ x \in Dentries /\ Core(u, Cwd, fds, disk')
                  /\ ~astray' => Good(u, Cwd, fds, disk')
                  /\ \A y \in Dentries : Outer(u, y) = Outer(w.s, y) + One(x, y)
<1>0. PICK t, x, u, c, f : /\ t = DAlloc(w.s, w.d, name).s /\ x = DAlloc(w.s, w.d, name).d
                           /\ u = MakeMem(t, x, ino, kind) /\ c = Cwd /\ f = fds
  OBVIOUS
<1>1. PICK d, dir, k2 : d = w.d /\ dir = InoOf(w.s, w.d) /\ k2 = IF end = "done" THEN kind ELSE "free"
  OBVIOUS
<1>2. /\ disk' = MakeDisk(t, dir, name, ino, k2)
      /\ Made(t, ino) /\ (end # "done" \/ HasName(dir, name)) => astray'
  BY <1>0, <1>1 DEF Make
<1>3. SInv(w.s) /\ EInv(disk)
  BY DEF Good, Core
<1>4. dir \in Inos /\ k2 \in {"free", "dir", "file"}
  BY <1>1, <1>3, PositiveDentry
<1>5. disk' \in DiskType
  BY <1>2, <1>3, <1>4, MakeDiskType
<1>6. PICK dk : dk = MakeDisk(t, dir, name, ino, kind)
  OBVIOUS
<1>7. /\ x \in Dentries /\ Core(u, c, f, disk)
      /\ \A y \in Dentries : Outer(u, y) = Outer(w.s, y) + One(x, y)
      /\ ~Made(t, ino) => u = t
      /\ Made(t, ino) /\ ~HasName(dir, name) => Good(u, c, f, dk)
  BY <1>0, <1>1, <1>6, MakeOK
<1>8. Core(u, c, f, disk')
  BY <1>5, <1>7 DEF Core
<1>9. ASSUME Made(t, ino), ~astray' PROVE Good(u, c, f, disk')
  <2>1. end = "done" /\ ~HasName(dir, name)
    BY <1>2, <1>9
  <2>2. disk' = dk
    BY <1>1, <1>2, <1>6, <2>1
  <2> QED BY <1>7, <1>9, <2>1, <2>2
<1>10. ~Made(t, ino) => disk' = disk
  BY <1>2 DEF MakeDisk
<1> QED BY <1>0, <1>2, <1>5, <1>6, <1>7, <1>8, <1>9, <1>10

\* open with O_CREAT of a name that was not found.
LEMMA CreateInOK ==
  ASSUME Good(mem, cwd, fds, disk), NextFd # Null, NEW p \in Path, p.comps # << >>,
         Balanced => Len(p.comps) = 1,
         NEW miss, NEW w, w = CreateParent(Mem, p, miss), NEW starved,
         CreateIn(w, Last(p.comps), starved), cwd' = Cwd
  PROVE  Kept
<1>1. PICK name : name = Last(p.comps)
  OBVIOUS
<1>2. PICK x, t : x = DAlloc(w.s, w.d, name).d /\ t = DAlloc(w.s, w.d, name).s
  OBVIOUS
<1>0. disk \in DiskType
  BY DEF Good, Core
<1>3. CASE ~IsDir(w.s, w.d) \/ x = Null
  <2>1. NoFd(w.s) /\ disk' = disk
    BY <1>1, <1>2, <1>3 DEF CreateIn
  <2> QED BY <1>0, <2>1, ParentLeft DEF NoFd
<1>4. CASE IsDir(w.s, w.d) /\ x # Null
  <2>1. PICK ino \in Allocatable, end \in WriteEnds :
           /\ Make(t, w, name, ino, "file", end, starved)
           /\ IF Made(t, ino) /\ end # "denied"
              THEN OpenFd(MakeMem(t, x, ino, "file"), x) ELSE NoFd(Dput(t, x))
    BY <1>1, <1>2, <1>4 DEF CreateIn
  <2>2. PICK u, kind : u = MakeMem(t, x, ino, kind) /\ kind = "file"
    OBVIOUS
  <2>2a. Make(t, w, name, ino, kind, end, starved) /\ kind \in {"dir", "file"}
    BY <2>1, <2>2
  <2>0. w.d # Null /\ KindOf(w.s, w.d) = "dir"
    BY <1>4 DEF IsDir, Positive
  <2>3. /\ w.d \in Dentries /\ w.s.d[w.d].inode # Null
        /\ Good(w.s, Cwd, fds, disk) /\ name \in Components
        /\ \A y \in Dentries :
              Outer(w.s, y) = Outer(Mem, y) + IF Len(p.comps) > 1 THEN One(w.d, y) ELSE 0
    BY <1>1, <2>0, CreateParentOK
  <2>4. /\ disk' \in DiskType /\ (~Made(t, ino) => disk' = disk /\ u = t)
        /\ Made(t, ino) /\ end # "done" => astray'
        /\ Made(t, ino) =>
             /\ x \in Dentries /\ Core(u, Cwd, fds, disk')
             /\ ~astray' => Good(u, Cwd, fds, disk')
             /\ \A y \in Dentries : Outer(u, y) = Outer(w.s, y) + One(x, y)
    BY <1>2, <1>4, <2>0, <2>2, <2>2a, <2>3, MakeKept
  <2>5. \A y \in Dentries : /\ Outer(w.s, y) \in Int /\ Ext(Cwd, fds, y) \in Nat
                            /\ Outer(w.s, y) >= Ext(Cwd, fds, y) /\ One(x, y) \in Nat
    BY <2>3, OuterIsInt, ExtCounts DEF Good, Core, SInv, One
  <2>6. CASE Made(t, ino) /\ end # "denied"
    <3>1. OpenFd(u, x)
      BY <2>1, <2>2, <2>6
    <3>2. \A y \in Dentries : Outer(u, y) >= Ext(Cwd, fds, y) + One(x, y)
      BY <2>4, <2>5, <2>6
    <3>3. ASSUME Balanced, Exact(Mem, Cwd, fds), NEW y \in Dentries
          PROVE  Outer(u, y) = Ext(Cwd, fds, y) + One(x, y)
      <4>1. PICK k : k = Len(p.comps)
        OBVIOUS
      <4>2. k = 1
        BY <3>3, <4>1, Zenon
      <4>3. Outer(w.s, y) = Outer(Mem, y) + IF k > 1 THEN One(w.d, y) ELSE 0
        BY <2>3, <4>1
      <4>4. Outer(Mem, y) = Ext(Cwd, fds, y) /\ Ext(Cwd, fds, y) \in Nat
        BY <2>5, <3>3 DEF Exact
      <4>5. Outer(w.s, y) = Ext(Cwd, fds, y)
        BY <4>2, <4>3, <4>4
      <4> QED BY <2>4, <2>6, <4>5
    <3> QED BY <2>4, <2>6, <3>1, <3>2, <3>3, OpenFdKept
  <2>7. CASE ~(Made(t, ino) /\ end # "denied")
    <3>1. mem' = Dput(t, x) /\ fds' = fds
      BY <2>1, <2>7 DEF NoFd
    <3>2. Dput(t, x) = w.s
      BY <1>2, <1>4, <2>3, AllocUndone DEF Good, Core
    <3>3. ~astray' => disk' = disk
      BY <2>4, <2>7
    <3> QED BY <2>4, <3>1, <3>2, <3>3, ParentLeft
  <2> QED BY <2>6, <2>7
<1> QED BY <1>3, <1>4

LEMMA OpenCreateOK ==
  ASSUME Good(mem, cwd, fds, disk), NEW p \in Path, p.comps # << >>,
         Balanced => Len(p.comps) = 1, OpenCreate(p)
  PROVE  Kept
<1>1. PICK miss, again :
         \E t \in {OpenTarget(p, miss)} :
            IF Positive(t.s, t.d) THEN OpenFd(t.s, t.d) /\ UNCHANGED <<disk, astray>>
            ELSE \E w \in {CreateParent(t.s, p, again)} :
                    CreateIn(w, Last(p.comps),
                             ResolveStarves(p, miss) \/ ParentStarves(t.s, p, again))
  BY DEF OpenCreate
<1>2. PICK t : t = Resolve(p, miss)
  OBVIOUS
<1>3. /\ NextFd # Null /\ cwd' = Cwd
      /\ IF Positive(t.s, t.d) THEN OpenFd(t.s, t.d) /\ UNCHANGED <<disk, astray>>
         ELSE \E starved : CreateIn(CreateParent(t.s, p, again), Last(p.comps), starved)
  BY <1>1, <1>2 DEF OpenCreate, OpenTarget
<1>4. WalkInv(Mem, t)
  BY <1>2, ResolveOK
<1>5. CASE Positive(t.s, t.d)
  <2>1. t.d # Null
    BY <1>5 DEF Positive
  <2> QED BY <1>3, <1>4, <1>5, <2>1, OpenFound
<1>6. CASE ~Positive(t.s, t.d)
  <2>1. t.s = Mem /\ t.d = Null
    BY <1>4, <1>6, LookUndone
  <2>2. PICK w : w = CreateParent(Mem, p, again)
    OBVIOUS
  <2>3. PICK starved : CreateIn(w, Last(p.comps), starved)
    BY <1>3, <1>6, <2>1, <2>2
  <2> QED BY <1>3, <2>2, <2>3, CreateInOK
<1> QED BY <1>5, <1>6

LEMMA MkdirOK ==
  ASSUME Good(mem, cwd, fds, disk), NEW p \in Path, Balanced => Len(p.comps) = 1, Mkdir(p)
  PROVE  Kept
<1>1. PICK miss : \E w \in {CreateParent(Mem, p, miss)} :
          LET name == Last(p.comps)
              x == DAlloc(w.s, w.d, name)
              Parent(s) == IF Len(p.comps) > 1 THEN Dput(s, w.d) ELSE s
              starved == ParentStarves(Mem, p, miss)
          IN  IF IsDir(w.s, w.d) /\ x.d # Null
              THEN \E ino \in Allocatable, end \in WriteEnds :
                      /\ Make(x.s, w, name, ino, "dir", end, starved)
                      /\ mem' = Parent(Dput(IF end = "denied" THEN x.s
                                            ELSE MakeMem(x.s, x.d, ino, "dir"), x.d))
              ELSE /\ mem' = IF Positive(w.s, w.d) /\ ~IsDir(w.s, w.d) THEN Parent(w.s) ELSE w.s
                   /\ astray' = starved
                   /\ UNCHANGED disk
  BY DEF Mkdir
<1>2. PICK name, w : name = Last(p.comps) /\ w = CreateParent(Mem, p, miss)
  OBVIOUS
<1>2a. PICK x, t : x = DAlloc(w.s, w.d, name).d /\ t = DAlloc(w.s, w.d, name).s
  OBVIOUS
<1>3. p.comps # << >> /\ cwd' = Cwd /\ fds' = fds
  <2>1. Len(p.comps) > 0 /\ cwd' = Cwd /\ fds' = fds
    BY DEF Mkdir
  <2>2. p.comps = << >> => Len(p.comps) = 0
    OBVIOUS
  <2> QED BY <2>1, <2>2
<1> DEFINE Parent(s) == IF Len(p.comps) > 1 THEN Dput(s, w.d) ELSE s
           starved == ParentStarves(Mem, p, miss)
<1>4. IF IsDir(w.s, w.d) /\ x # Null
      THEN \E ino \in Allocatable, end \in WriteEnds :
              /\ Make(t, w, name, ino, "dir", end, starved)
              /\ mem' = Parent(Dput(IF end = "denied" THEN t ELSE MakeMem(t, x, ino, "dir"), x))
      ELSE /\ mem' = IF Positive(w.s, w.d) /\ ~IsDir(w.s, w.d) THEN Parent(w.s) ELSE w.s
           /\ disk' = disk
  BY <1>1, <1>2, <1>2a
<1> HIDE DEF Parent, starved
<1>5. /\ name \in Components
      /\ w.d # Null =>
           /\ w.d \in Dentries /\ w.s.d[w.d].inode # Null
           /\ Good(w.s, Cwd, fds, disk)
           /\ \A y \in Dentries :
                 Outer(w.s, y) = Outer(Mem, y) + IF Len(p.comps) > 1 THEN One(w.d, y) ELSE 0
           /\ Len(p.comps) > 1 => Dput(w.s, w.d) = Mem
           /\ Len(p.comps) = 1 => w.s = Mem
      /\ Len(p.comps) \in Nat \ {0}
  BY <1>2, <1>3, CreateParentOK
<1>0. disk \in DiskType
  BY DEF Good, Core
<1>6. CASE /\ ~(IsDir(w.s, w.d) /\ x # Null)
           /\ ~(Positive(w.s, w.d) /\ ~IsDir(w.s, w.d) /\ Len(p.comps) > 1)
  <2>1. mem' = w.s /\ disk' = disk
    BY <1>4, <1>6 DEF Parent
  <2> QED BY <1>0, <1>2, <1>3, <2>1, ParentLeft
<1>7. CASE Positive(w.s, w.d) /\ ~IsDir(w.s, w.d) /\ Len(p.comps) > 1
  <2>1. mem' = Dput(w.s, w.d) /\ disk' = disk
    BY <1>4, <1>7 DEF Parent
  <2>2. mem' = Mem
    BY <1>5, <1>7, <2>1 DEF Positive
  <2> QED BY <1>0, <1>3, <2>1, <2>2, Undone
<1>8. CASE IsDir(w.s, w.d) /\ x # Null
  <2>1. PICK ino \in Allocatable, end \in WriteEnds :
           /\ Make(t, w, name, ino, "dir", end, starved)
           /\ mem' = Parent(Dput(IF end = "denied" THEN t ELSE MakeMem(t, x, ino, "dir"), x))
    BY <1>4, <1>8
  <2>2. PICK u, v, kind : u = MakeMem(t, x, ino, kind) /\ v = Dput(u, x) /\ kind = "dir"
    OBVIOUS
  <2>2a. Make(t, w, name, ino, kind, end, starved) /\ kind \in {"dir", "file"}
    BY <2>1, <2>2
  <2>0. w.d # Null /\ KindOf(w.s, w.d) = "dir"
    BY <1>8 DEF IsDir, Positive
  <2>4. /\ disk' \in DiskType /\ (~Made(t, ino) => disk' = disk /\ u = t)
        /\ Made(t, ino) /\ end # "done" => astray'
        /\ Made(t, ino) =>
             /\ x \in Dentries /\ Core(u, Cwd, fds, disk')
             /\ ~astray' => Good(u, Cwd, fds, disk')
             /\ \A y \in Dentries : Outer(u, y) = Outer(w.s, y) + One(x, y)
    BY <1>2a, <1>5, <1>8, <2>0, <2>2, <2>2a, MakeKept
  <2>5. CASE ~Made(t, ino) \/ end = "denied"
    <3>1. mem' = Parent(Dput(t, x))
      BY <2>1, <2>2, <2>4, <2>5
    <3>2. Dput(t, x) = w.s
      BY <1>2a, <1>5, <1>8, <2>0, AllocUndone DEF Good, Core
    <3>3. mem' = Parent(w.s)
      BY <3>1, <3>2
    <3>4. ~astray' => disk' = disk
      BY <2>4, <2>5
    <3>5. CASE Len(p.comps) > 1
      <4>1. mem' = Mem
        BY <1>5, <2>0, <3>3, <3>5 DEF Parent
      <4> QED BY <1>3, <2>4, <3>4, <4>1, Undone
    <3>6. CASE ~(Len(p.comps) > 1)
      <4>1. mem' = w.s
        BY <3>3, <3>6 DEF Parent
      <4> QED BY <1>2, <1>3, <2>4, <3>4, <4>1, ParentLeft
    <3> QED BY <3>5, <3>6
  <2>6. CASE Made(t, ino) /\ end # "denied"
    <3>0. mem' = Parent(v)
      BY <2>1, <2>2, <2>6
    <3>1. /\ x \in Dentries /\ Core(u, Cwd, fds, disk')
          /\ ~astray' => Good(u, Cwd, fds, disk')
          /\ \A y \in Dentries : Outer(u, y) = Outer(w.s, y) + One(x, y)
      BY <2>4, <2>6
    <3>2. \A y \in Dentries : /\ Outer(w.s, y) \in Int /\ Ext(Cwd, fds, y) \in Nat
                              /\ Outer(w.s, y) >= Ext(Cwd, fds, y) /\ One(x, y) \in Nat
      BY <1>5, <2>0, OuterIsInt, ExtCounts DEF Good, Core, SInv, One
    <3>3. \A y \in Dentries : Outer(u, y) >= Ext(Cwd, fds, y) + One(x, y)
      BY <3>1, <3>2
    <3>4. /\ Core(v, Cwd, fds, disk') /\ (~astray' => Good(v, Cwd, fds, disk'))
          /\ \A y \in Dentries : Outer(v, y) = Outer(u, y) - One(x, y)
      BY <2>2, <3>1, <3>3, PutBack
    <3>5. \A y \in Dentries : Outer(v, y) = Outer(w.s, y)
      BY <3>1, <3>2, <3>4
    <3>6. Good(Mem, Cwd, fds, disk) /\ (Exact(mem, cwd, fds) => Exact(Mem, Cwd, fds))
      BY MemOK
    <3>7. \A y \in Dentries : /\ Outer(Mem, y) \in Int /\ Outer(Mem, y) >= Ext(Cwd, fds, y)
                              /\ One(w.d, y) \in Nat
      BY <3>6, OuterIsInt DEF Good, Core, SInv, One
    <3>8. CASE Len(p.comps) > 1
      <4>1. \A y \in Dentries : Outer(w.s, y) = Outer(Mem, y) + One(w.d, y)
        BY <1>5, <2>0, <3>8
      <4>2. \A y \in Dentries : Outer(v, y) >= Ext(Cwd, fds, y) + One(w.d, y)
        BY <3>2, <3>5, <3>7, <4>1
      <4>3. /\ Core(Dput(v, w.d), Cwd, fds, disk')
            /\ ~astray' => Good(Dput(v, w.d), Cwd, fds, disk')
            /\ \A y \in Dentries : Outer(Dput(v, w.d), y) = Outer(v, y) - One(w.d, y)
        BY <1>5, <2>0, <3>4, <4>2, PutBack
      <4>4. mem' = Dput(v, w.d)
        BY <3>0, <3>8 DEF Parent
      <4>5. \A y \in Dentries : Outer(Dput(v, w.d), y) = Outer(Mem, y)
        BY <3>5, <3>7, <4>1, <4>3
      <4>6. Exact(mem, cwd, fds) => Exact(Dput(v, w.d), Cwd, fds)
        BY <3>6, <4>5 DEF Exact
      <4> QED BY <1>3, <4>3, <4>4, <4>6 DEF Kept
    <3>9. CASE ~(Len(p.comps) > 1)
      <4>1. \A y \in Dentries : Outer(w.s, y) = Outer(Mem, y) + 0
        BY <1>5, <2>0, <3>9
      <4>2. \A y \in Dentries : Outer(v, y) = Outer(Mem, y)
        BY <3>5, <3>7, <4>1
      <4>3. mem' = v
        BY <3>0, <3>9 DEF Parent
      <4>4. Exact(mem, cwd, fds) => Exact(v, Cwd, fds)
        BY <3>6, <4>2 DEF Exact
      <4> QED BY <1>3, <3>4, <4>3, <4>4 DEF Kept
    <3> QED BY <3>8, <3>9
  <2> QED BY <2>5, <2>6
<1> QED BY <1>6, <1>7, <1>8
-----------------------------------------------------------------------------
(* chdir.                                                                   *)

LEMMA ExtSwap ==
  ASSUME NEW c, NEW x, NEW f, NEW y
  PROVE  Ext(x, f, y) + One(c, y) = Ext(c, f, y) + One(x, y)
<1>1. Cardinality(FdsOn(f, y)) \in Nat
  BY ExtCounts
<1> QED BY <1>1 DEF Ext, One

\* The new working directory is held before the old one is let go.
LEMMA SwapCwd ==
  ASSUME NEW s, NEW c \in Dentries, NEW f, NEW dk, Good(s, c, f, dk), NEW x \in Dentries,
         s.d[x].inode # Null, KindOf(s, x) = "dir"
  PROVE  LET v == Dput(Dget(s, x), c)
         IN  /\ Good(v, x, f, dk)
             /\ \A y \in Dentries : Outer(v, y) = Outer(s, y) + One(x, y) - One(c, y)
<1>1. SInv(s) /\ CInv(s, dk) /\ CwdInv(s, x) /\ s.d[x].used
  BY PositiveDentry DEF Good, Core, CwdInv
<1>2. PICK g : g = Dget(s, x)
  OBVIOUS
<1>3. /\ SInv(g) /\ Shrunk(s, g) /\ CInv(g, dk)
      /\ \A y \in Dentries : Outer(g, y) = Outer(s, y) + One(x, y)
  BY <1>1, <1>2, DgetOK
<1>4. \A y \in Dentries :
         /\ Outer(s, y) \in Int /\ Ext(c, f, y) \in Nat /\ Ext(x, f, y) \in Nat
         /\ Outer(s, y) >= Ext(c, f, y) /\ One(x, y) \in Nat /\ One(c, y) \in Nat
         /\ Ext(x, f, y) + One(c, y) = Ext(c, f, y) + One(x, y)
  BY <1>1, OuterIsInt, ExtCounts, ExtSwap DEF Good, Core, SInv, One
<1>5. \A y \in Dentries : Outer(g, y) >= Ext(x, f, y) + One(c, y)
  BY <1>3, <1>4
<1>6. \A y \in Dentries : Outer(g, y) >= Ext(x, f, y)
  BY <1>3, <1>4
<1>7. Good(g, x, f, dk)
  BY <1>1, <1>3, <1>6, Carry DEF Good
<1>8. PICK v : v = Dput(g, c)
  OBVIOUS
<1>9. /\ Good(v, x, f, dk)
      /\ \A y \in Dentries : Outer(v, y) = Outer(g, y) - One(c, y)
  BY <1>5, <1>7, <1>8, PutBack DEF Good
<1>10. \A y \in Dentries : Outer(v, y) = Outer(s, y) + One(x, y) - One(c, y)
  BY <1>3, <1>4, <1>9
<1>11. v = Dput(Dget(s, x), c)
  BY <1>2, <1>8
<1> QED BY <1>9, <1>10, <1>11

LEMMA ChdirToOK ==
  ASSUME Good(mem, cwd, fds, disk), NEW s, Good(s, Cwd, fds, disk), NEW x \in Dentries,
         s.d[x].inode # Null, KindOf(s, x) = "dir",
         \/ s = Mem /\ x = Root
         \/ /\ Dput(s, x) = Mem
            /\ \A y \in Dentries : Outer(s, y) = Outer(Mem, y) + One(x, y)
  PROVE  /\ Good(ChdirTo(s, x), x, fds, disk)
         /\ Exact(Mem, Cwd, fds) /\ (s = Mem \/ x # Root) => Exact(ChdirTo(s, x), x, fds)
<1>1. PICK r : r = ChdirTo(s, x)
  OBVIOUS
<1>2. Good(Mem, Cwd, fds, disk) /\ Cwd \in Dentries
  BY MemOK
<1>3. CASE x = Cwd
  <2>1. r = IF x # Root THEN Dput(s, x) ELSE s
    BY <1>1, <1>3 DEF ChdirTo
  <2>2. r = s \/ r = Mem
    BY <2>1
  <2>3. (s = Mem \/ x # Root) => r = Mem
    BY <2>1
  <2> QED BY <1>1, <1>2, <1>3, <2>2, <2>3
<1>4. CASE x # Cwd
  <2>1. PICK v : v = Dput(Dget(s, x), Cwd)
    OBVIOUS
  <2>2. r = IF x # Root THEN Dput(v, x) ELSE v
    BY <1>1, <1>4, <2>1 DEF ChdirTo
  <2>3. /\ Good(v, x, fds, disk)
        /\ \A y \in Dentries : Outer(v, y) = Outer(s, y) + One(x, y) - One(Cwd, y)
    BY <1>2, <2>1, SwapCwd
  <2>4. \A y \in Dentries :
           /\ Outer(Mem, y) \in Int /\ Ext(Cwd, fds, y) \in Nat /\ Ext(x, fds, y) \in Nat
           /\ Outer(Mem, y) >= Ext(Cwd, fds, y) /\ One(x, y) \in Nat /\ One(Cwd, y) \in Nat
           /\ Ext(x, fds, y) + One(Cwd, y) = Ext(Cwd, fds, y) + One(x, y)
    BY <1>2, OuterIsInt, ExtCounts, ExtSwap DEF Good, Core, SInv, One
  <2>5. CASE s = Mem /\ x = Root
    <3>1. r = v
      BY <2>2, <2>5
    <3>2. Exact(Mem, Cwd, fds) => Exact(v, x, fds)
      <4>1. \A y \in Dentries : Outer(v, y) = Outer(Mem, y) + One(x, y) - One(Cwd, y)
        BY <2>3, <2>5
      <4> QED BY <2>4, <4>1 DEF Exact
    <3> QED BY <1>1, <2>3, <3>1, <3>2
  <2>6. CASE ~(s = Mem /\ x = Root)
    <3>1. \A y \in Dentries : Outer(s, y) = Outer(Mem, y) + One(x, y)
      BY <2>6
    <3>2. CASE x = Root
      <4>1. r = v /\ s # Mem
        BY <2>2, <2>6, <3>2
      <4> QED BY <1>1, <2>3, <3>2, <4>1
    <3>3. CASE x # Root
      <4>1. r = Dput(v, x)
        BY <2>2, <3>3
      <4>2. \A y \in Dentries : Outer(v, y) >= Ext(x, fds, y) + One(x, y)
        BY <2>3, <2>4, <3>1
      <4>3. /\ Good(r, x, fds, disk)
            /\ \A y \in Dentries : Outer(r, y) = Outer(v, y) - One(x, y)
        BY <2>3, <4>1, <4>2, PutBack DEF Good
      <4>4. Exact(Mem, Cwd, fds) => Exact(r, x, fds)
        BY <2>3, <2>4, <3>1, <4>3 DEF Exact
      <4> QED BY <1>1, <4>3, <4>4
    <3> QED BY <3>2, <3>3
  <2> QED BY <2>5, <2>6
<1> QED BY <1>3, <1>4

LEMMA ChdirOK ==
  ASSUME Good(mem, cwd, fds, disk), NEW p \in Path,
         Balanced /\ p.comps # << >> => Last(p.comps) \in Names, Chdir(p)
  PROVE  Kept
<1>0. PICK miss : \E t \in {IF p.abs /\ p.comps = << >> THEN [s |-> Mem, d |-> Root]
                                                        ELSE Resolve(p, miss)} :
                     IF IsDir(t.s, t.d)
                     THEN mem' = ChdirTo(t.s, t.d) /\ cwd' = t.d
                     ELSE /\ mem' = IF t.d = Null THEN t.s ELSE Dput(t.s, t.d)
                          /\ cwd' = Cwd
  BY DEF Chdir
<1>1. PICK t : t = IF p.abs /\ p.comps = << >> THEN [s |-> Mem, d |-> Root]
                                               ELSE Resolve(p, miss)
  OBVIOUS
<1>d. disk \in DiskType
  BY DEF Good, Core
<1>2. /\ p.abs \/ p.comps # << >>
      /\ IF Positive(t.s, t.d) /\ KindOf(t.s, t.d) = "dir"
         THEN mem' = ChdirTo(t.s, t.d) /\ cwd' = t.d
         ELSE /\ mem' = IF t.d = Null THEN t.s ELSE Dput(t.s, t.d)
              /\ cwd' = Cwd
      /\ fds' = fds /\ disk' = disk
  BY <1>0, <1>1 DEF Chdir, IsDir
<1>3. PICK s, x : s = t.s /\ x = t.d
  OBVIOUS
<1>4. /\ Good(Mem, Cwd, fds, disk) /\ (Exact(mem, cwd, fds) => Exact(Mem, Cwd, fds))
      /\ Mem.d[Root].inode # Null /\ KindOf(Mem, Root) = "dir" /\ Root \in Dentries
  BY MemOK, Basics
<1>5. CASE p.abs /\ p.comps = << >>
  <2>1. t = [s |-> Mem, d |-> Root]
    BY <1>1, <1>5
  <2>2. s = Mem /\ x = Root
    BY <1>3, <2>1
  <2>3. Positive(s, x) /\ KindOf(s, x) = "dir"
    BY <1>4, <2>2, Basics DEF Positive
  <2>4. mem' = ChdirTo(s, x) /\ cwd' = x
    BY <1>2, <1>3, <2>3
  <2>4a. /\ Good(s, Cwd, fds, disk) /\ x \in Dentries
         /\ s.d[x].inode # Null /\ KindOf(s, x) = "dir"
    BY <1>4, <2>2
  <2>5. /\ Good(ChdirTo(s, x), x, fds, disk)
        /\ Exact(Mem, Cwd, fds) => Exact(ChdirTo(s, x), x, fds)
    BY <2>2, <2>4a, ChdirToOK
  <2> QED BY <1>2, <1>4, <2>4, <2>5 DEF Kept, Good
<1>6. CASE ~(p.abs /\ p.comps = << >>)
  <2>1. t = Resolve(p, miss) /\ p.comps # << >>
    BY <1>1, <1>2, <1>6
  <2>2. WalkInv(Mem, t)
    BY <2>1, ResolveOK
  <2>3. CASE ~(Positive(t.s, t.d) /\ KindOf(t.s, t.d) = "dir")
    <3>1. mem' = Mem /\ cwd' = Cwd
      BY <1>2, <2>2, <2>3, LookUndone
    <3> QED BY <1>d, <1>2, <3>1, Undone
  <2>4. CASE Positive(t.s, t.d) /\ KindOf(t.s, t.d) = "dir"
    <3>1. mem' = ChdirTo(s, x) /\ cwd' = x /\ KindOf(s, x) = "dir" /\ x # Null
      BY <1>2, <1>3, <2>4 DEF Positive
    <3>2. /\ x \in Dentries /\ s.d[x].inode # Null
          /\ Good(s, Cwd, fds, disk) /\ Dput(s, x) = Mem
          /\ \A y \in Dentries : Outer(s, y) = Outer(Mem, y) + One(x, y)
      BY <1>3, <1>4, <2>2, <3>1, WalkGood
    <3>3. /\ Good(ChdirTo(s, x), x, fds, disk)
          /\ Exact(Mem, Cwd, fds) /\ x # Root => Exact(ChdirTo(s, x), x, fds)
      BY <3>1, <3>2, ChdirToOK
    <3>4. Balanced => x # Root
      <4> SUFFICES ASSUME Last(p.comps) \in Names PROVE x # Root
        BY <2>1
      <4>1. SInv(Mem) /\ CInv(Mem, disk) /\ EInv(disk)
        BY <1>4 DEF Good, Core
      <4>2. /\ StartOf(p) \in Dentries /\ Mem.d[StartOf(p)].inode # Null
            /\ Positive(Mem, StartOf(p))
        BY StartIsDir
      <4>3. p.comps \in Seq(Components)
        BY DEF Path
      <4>4. PICK v : v = PathLookup(Mem, StartOf(p), Front(p.comps), miss)
        OBVIOUS
      <4>5. Front(p.comps) \in Seq(Components) /\ Last(p.comps) \in Components
            /\ t = Walk(v, Last(p.comps), Len(p.comps) = miss)
        BY <2>1, <4>2, <4>3, <4>4, LookupLast DEF Resolve
      <4>6. WalkInv(Mem, v)
        BY <4>1, <4>2, <4>4, <4>5, LookupOK
      <4> QED BY <1>3, <4>1, <4>5, <4>6, WalkOK
    <3> QED BY <1>2, <1>4, <3>1, <3>3, <3>4 DEF Kept, Good
  <2> QED BY <2>3, <2>4
<1> QED BY <1>5, <1>6

LEMMA CloseKept ==
  ASSUME Good(mem, cwd, fds, disk), NEW n \in Fds, Close(n)
  PROVE  Kept
<1>1. fds[n].used /\ mem' = Dput(mem, fds[n].dentry) /\ cwd' = cwd /\ disk' = disk
  BY DEF Close
<1>2. PICK g : g = [fds EXCEPT ![n] = FreeFd]
  OBVIOUS
<1>3. fds' = g
  BY <1>2 DEF Close
<1>4. fds \in [Fds -> FdType]
  BY DEF Good, Core, FdsInv
<1>5. FreeFd \in FdType /\ ~FreeFd.used
  BY DEF FreeFd, FdType
<1>6. g \in [Fds -> FdType] /\ g[n] = FreeFd /\ \A y \in Fds : y # n => g[y] = fds[y]
  BY <1>2, <1>4, <1>5
<1>7. /\ Good(Dput(mem, fds[n].dentry), cwd, g, disk)
      /\ Exact(mem, cwd, fds) => Exact(Dput(mem, fds[n].dentry), cwd, g)
  BY <1>1, <1>5, <1>6, CloseOK
<1> QED BY <1>1, <1>3, <1>7 DEF Kept, Good
-----------------------------------------------------------------------------
(* unlink and rmdir.                                                        *)

\* What stands for an entry of the disk, and where the entry is.
LEMMA EntryOf ==
  ASSUME NEW s, NEW dk, SInv(s), CInv(s, dk), EInv(dk), NEW x \in Dentries, x # Root,
         s.d[x].inode # Null
  PROVE  /\ InoOf(s, x) \in Inos /\ InoOf(s, s.d[x].parent) \in Inos
         /\ s.d[x].name \in Names
         /\ Has(dk, InoOf(s, s.d[x].parent), s.d[x].name, InoOf(s, x))
<1>1. /\ InoOf(s, x) \in Inos /\ s.d[x].parent \in Dentries /\ s.d[x].listed
      /\ s.d[s.d[x].parent].inode # Null
  BY PositiveDentry
<1>2. InoOf(s, s.d[x].parent) \in Inos
  BY <1>1, PositiveDentry
<1>3. Has(dk, InoOf(s, s.d[x].parent), s.d[x].name, InoOf(s, x))
  BY <1>1 DEF CInv
<1>4. PICK o, nm, q : o = InoOf(s, s.d[x].parent) /\ nm = s.d[x].name /\ q = InoOf(s, x)
  OBVIOUS
<1>5. PICK k \in DOMAIN dk.dir[o] : dk.dir[o][k] = [name |-> nm, ino |-> q]
  BY <1>3, <1>4 DEF Has
<1>6. dk.dir[o][k].name = nm /\ dk.dir[o][k].ino = q
  BY <1>5
<1>7. q # Null
  BY <1>1, <1>4, Basics
<1>8. dk.dir[o][k].name \in Names
  BY <1>2, <1>4, <1>6, <1>7, Slots
<1> QED BY <1>1, <1>2, <1>3, <1>4, <1>6, <1>8

\* A file has no entries.
LEMMA FileIsEmpty ==
  ASSUME EInv(disk), NEW ino \in Inos, disk.kind[ino] # "dir"
  PROVE  EmptyDir(ino)
BY DEF EInv, EmptyDir

LEMMA ReclaimOK ==
  ASSUME Good(mem, cwd, fds, disk), NEW w, WalkInv(Mem, w), w.d # Null, w.d # Root,
         w.d # Cwd, NEW lost, ~lost => EmptyDir(InoOf(w.s, w.d)), Reclaim(w, lost),
         cwd' = Cwd, fds' = fds
  PROVE  Kept
<1>1. PICK s, x : s = w.s /\ x = w.d
  OBVIOUS
<1>2. PICK dir, name, ino : /\ dir = InoOf(s, s.d[x].parent) /\ name = s.d[x].name
                            /\ ino = InoOf(s, x)
  OBVIOUS
<1>3. /\ Good(Mem, Cwd, fds, disk) /\ (Exact(mem, cwd, fds) => Exact(Mem, Cwd, fds))
  BY MemOK
<1>4. /\ x \in Dentries /\ s.d[x].inode # Null /\ Good(s, Cwd, fds, disk)
      /\ Dput(s, x) = Mem
      /\ \A y \in Dentries : Outer(s, y) = Outer(Mem, y) + One(x, y)
  BY <1>1, <1>3, WalkGood
<1>5. /\ SInv(s) /\ CInv(s, disk) /\ EInv(disk) /\ disk \in DiskType
      /\ x # Root /\ x # Cwd /\ (~lost => EmptyDir(ino))
  BY <1>1, <1>2, <1>4 DEF Good, Core
<1>6. dir \in Inos /\ ino \in Inos /\ name \in Names /\ Has(disk, dir, name, ino)
  BY <1>2, <1>4, <1>5, EntryOf
<1>7. PICK gone : gone = Detach(s, x)
  OBVIOUS
<1>8. \/ /\ \/ mem' = Dput(DestroyInode(gone, s.d[x].inode), x)
            \/ FsFails /\ mem' = Dput(gone, x)
         /\ \/ disk' = RemoveDisk(dir, name, ino, "free")
            \/ disk' = RemoveDisk(dir, name, ino, disk.kind[ino])
         /\ astray' = lost
      \/ mem' = Dput(s, x) /\ disk' = disk
      \/ mem' = Dput(s, x) /\ disk' = RemoveDisk(dir, name, ino, disk.kind[ino]) /\ astray'
  BY <1>1, <1>2, <1>7 DEF Reclaim, RemoveDisk
<1>9. /\ Removed(s, x, DestroyInode(gone, s.d[x].inode))
      /\ FsFails => Removed(s, x, gone)
  BY <1>4, <1>5, <1>7, DetachRemoves
<1>10. CASE mem' = Dput(s, x) /\ disk' = disk
  <2>1. mem' = Mem
    BY <1>4, <1>10
  <2> QED BY <1>5, <1>10, <2>1, Undone
<1>11. CASE mem' = Dput(s, x) /\ disk' = RemoveDisk(dir, name, ino, disk.kind[ino]) /\ astray'
  <2>1. mem' = Mem /\ astray'
    BY <1>4, <1>11
  <2>2. disk' \in DiskType
    BY <1>5, <1>6, <1>11, RemoveDiskType
  <2> QED BY <2>1, <2>2, Undone
<1>12. CASE /\ \/ mem' = Dput(DestroyInode(gone, s.d[x].inode), x)
               \/ FsFails /\ mem' = Dput(gone, x)
            /\ \/ disk' = RemoveDisk(dir, name, ino, "free")
               \/ disk' = RemoveDisk(dir, name, ino, disk.kind[ino])
            /\ astray' = lost
  <2>0. PICK r : Removed(s, x, r) /\ mem' = Dput(r, x)
    BY <1>9, <1>12
  <2>1. PICK kind \in {"free", disk.kind[ino]} : disk' = RemoveDisk(dir, name, ino, kind)
    BY <1>12
  <2>2. PICK dk : dk = RemoveDisk(dir, name, ino, kind)
    OBVIOUS
  <2>3. dk \in DiskType
    BY <1>5, <1>6, <2>2, RemoveDiskType
  <2>4. ~lost =>
           /\ EInv(dk) /\ EmptyDir(ino)
           /\ \A o \in Inos : o # ino => dk.kind[o] = disk.kind[o]
           /\ \A o \in Inos : \A nm : \A q \in Inos :
                 q # ino /\ Has(disk, o, nm, q) => Has(dk, o, nm, q)
    BY <1>5, <1>6, <2>2, RemoveDiskOK
  <2>5. /\ Core(r, Cwd, fds, dk) /\ (~lost => Good(r, Cwd, fds, dk))
        /\ \A y \in Dentries : Outer(r, y) = Outer(s, y)
    BY <1>2, <1>4, <1>5, <2>0, <2>3, <2>4, RemovedOK
  <2>6. \A y \in Dentries : /\ Outer(Mem, y) \in Int /\ Outer(Mem, y) >= Ext(Cwd, fds, y)
                            /\ Ext(Cwd, fds, y) \in Nat /\ One(x, y) \in Nat
    BY <1>3, OuterIsInt, ExtCounts DEF Good, Core, SInv, One
  <2>7. \A y \in Dentries : Outer(r, y) >= Ext(Cwd, fds, y) + One(x, y)
    BY <1>4, <2>5, <2>6
  <2>8. /\ Core(Dput(r, x), Cwd, fds, dk) /\ (~lost => Good(Dput(r, x), Cwd, fds, dk))
        /\ \A y \in Dentries : Outer(Dput(r, x), y) = Outer(r, y) - One(x, y)
    BY <1>4, <2>5, <2>7, PutBack
  <2>9. \A y \in Dentries : Outer(Dput(r, x), y) = Outer(Mem, y)
    BY <1>4, <2>5, <2>6, <2>8
  <2>10. Exact(mem, cwd, fds) => Exact(Dput(r, x), Cwd, fds)
    BY <1>3, <2>9 DEF Exact
  <2>11. ~astray' => ~lost
    BY <1>12
  <2> QED BY <2>0, <2>1, <2>2, <2>8, <2>10, <2>11 DEF Kept
<1> QED BY <1>8, <1>10, <1>11, <1>12

LEMMA UnlinkOK ==
  ASSUME Good(mem, cwd, fds, disk), NEW p \in Path, Unlink(p)
  PROVE  Kept
<1>1. PICK miss : \E t \in {Resolve(p, miss)} :
                     IF ~Positive(t.s, t.d) THEN Missed(t.s, ResolveStarves(p, miss))
                     ELSE IF IsDir(t.s, t.d) THEN LetGo(t, FALSE)
                     ELSE Reclaim(t, FALSE)
  BY DEF Unlink
<1>2. PICK t : t = Resolve(p, miss)
  OBVIOUS
<1>3. PICK starved : starved = ResolveStarves(p, miss)
  OBVIOUS
<1>4. /\ IF ~Positive(t.s, t.d) THEN Missed(t.s, starved)
         ELSE IF IsDir(t.s, t.d) THEN LetGo(t, FALSE)
         ELSE Reclaim(t, FALSE)
      /\ cwd' = Cwd /\ fds' = fds
  BY <1>1, <1>2, <1>3 DEF Unlink
<1>5. WalkInv(Mem, t)
  BY <1>2, ResolveOK
<1>6. CASE ~Positive(t.s, t.d)
  BY <1>4, <1>5, <1>6, LetGoOK
<1>7. CASE Positive(t.s, t.d) /\ IsDir(t.s, t.d)
  <2>1. LetGo(t, FALSE)
    BY <1>4, <1>7
  <2> QED BY <1>4, <1>5, <2>1, LetGoOK
<1>8. CASE Positive(t.s, t.d) /\ ~IsDir(t.s, t.d)
  <2>1. t.d # Null /\ KindOf(t.s, t.d) # "dir"
    BY <1>8 DEF Positive, IsDir
  <2>2. /\ t.d \in Dentries /\ t.s.d[t.d].inode # Null /\ Good(t.s, Cwd, fds, disk)
    BY <1>5, <2>1, MemOK, WalkGood
  <2>3. SInv(t.s) /\ CInv(t.s, disk) /\ EInv(disk) /\ CwdInv(t.s, Cwd)
    BY <2>2 DEF Good, Core
  <2>4. t.d # Root
    BY <2>1, <2>3 DEF SInv, RootOK
  <2>5. t.d # Cwd
    BY <2>1, <2>3 DEF CwdInv
  <2>6. InoOf(t.s, t.d) \in Inos /\ disk.kind[InoOf(t.s, t.d)] = KindOf(t.s, t.d)
    BY <2>2, <2>3, PositiveDentry
  <2>7. EmptyDir(InoOf(t.s, t.d))
    BY <2>1, <2>3, <2>6, FileIsEmpty
  <2>8. Reclaim(t, FALSE)
    BY <1>4, <1>8
  <2> QED BY <1>4, <1>5, <2>1, <2>4, <2>5, <2>7, <2>8, ReclaimOK
<1> QED BY <1>6, <1>7, <1>8

LEMMA RmdirOK ==
  ASSUME Good(mem, cwd, fds, disk), NEW p \in Path, Rmdir(p)
  PROVE  Kept
<1>1. PICK miss : \E t \in {Resolve(p, miss)} :
                     IF ~IsDir(t.s, t.d) \/ RmdirBusy(t.d)
                     THEN LetGo(t, ResolveStarves(p, miss))
                     ELSE \/ EmptyDir(InoOf(t.s, t.d)) /\ Reclaim(t, FALSE)
                          \/ ~EmptyDir(InoOf(t.s, t.d)) /\ LetGo(t, FALSE)
                          \/ ~EmptyDir(InoOf(t.s, t.d)) /\ FsFails /\ Reclaim(t, TRUE)
  BY DEF Rmdir
<1>2. PICK t : t = Resolve(p, miss)
  OBVIOUS
<1>3. PICK starved : starved = ResolveStarves(p, miss)
  OBVIOUS
<1>4. /\ IF ~IsDir(t.s, t.d) \/ RmdirBusy(t.d) THEN LetGo(t, starved)
         ELSE \/ EmptyDir(InoOf(t.s, t.d)) /\ Reclaim(t, FALSE)
              \/ LetGo(t, FALSE)
              \/ Reclaim(t, TRUE)
      /\ cwd' = Cwd /\ fds' = fds
  BY <1>1, <1>2, <1>3 DEF Rmdir
<1>5. WalkInv(Mem, t)
  BY <1>2, ResolveOK
<1>6. CASE ~IsDir(t.s, t.d) \/ RmdirBusy(t.d)
  BY <1>4, <1>5, <1>6, LetGoOK
<1>7. CASE IsDir(t.s, t.d) /\ ~RmdirBusy(t.d)
  <2>1. t.d # Null /\ t.d # Root /\ t.d # Cwd
    BY <1>7 DEF IsDir, Positive, RmdirBusy
  <2>2. CASE EmptyDir(InoOf(t.s, t.d)) /\ Reclaim(t, FALSE)
    BY <1>4, <1>5, <2>1, <2>2, ReclaimOK
  <2>3. CASE LetGo(t, FALSE)
    BY <1>4, <1>5, <2>3, LetGoOK
  <2>4. CASE Reclaim(t, TRUE)
    BY <1>4, <1>5, <2>1, <2>4, ReclaimOK
  <2> QED BY <1>4, <1>7, <2>2, <2>3, <2>4
<1> QED BY <1>6, <1>7
-----------------------------------------------------------------------------
(* All reachable states.                                                    *)

LEMMA InitOK ==
  ASSUME Init
  PROVE  /\ Core(mem, cwd, fds, disk) /\ Good(mem, cwd, fds, disk)
         /\ Exact(mem, cwd, fds) /\ astray \in BOOLEAN
<1> DEFINE r == [FreeDentry EXCEPT !.used = TRUE, !.count = 1, !.parent = Root, !.inode = 1]
<1>1. /\ r.used /\ r.count = 1 /\ r.parent = Root /\ r.name = Dot /\ r.inode = 1
      /\ ~r.listed /\ r \in DentryType
  <2>1. Root \in Dentries /\ 1 \in Inodes
    BY Basics
  <2> QED BY <2>1 DEF FreeDentry, DentryType, Components
<1>2. FreeDentry \in DentryType /\ FreeInode \in InodeType /\ FreeFd \in FdType
  BY DEF FreeDentry, DentryType, FreeInode, InodeType, FreeFd, FdType, Components
<1> HIDE DEF r
<1> DEFINE h == [used |-> TRUE, count |-> 2, ino |-> RootIno, kind |-> "dir"]
<1>3. h.used /\ h.count = 2 /\ h.ino = RootIno /\ h.kind = "dir" /\ h \in InodeType
  BY Basics DEF InodeType
<1> HIDE DEF h
<1>4. mem = [d |-> [x \in Dentries |-> IF x = Root THEN r ELSE FreeDentry],
             i |-> [n \in Inodes |-> IF n = 1 THEN h ELSE FreeInode]]
  BY DEF Init, r, h
<1>5. /\ mem.d = [x \in Dentries |-> IF x = Root THEN r ELSE FreeDentry]
      /\ mem.i = [n \in Inodes |-> IF n = 1 THEN h ELSE FreeInode]
  BY <1>4
<1>6. mem \in MemType
  BY <1>1, <1>2, <1>3, <1>4 DEF MemType
<1>7. /\ Root \in Dentries /\ 1 \in Inodes /\ Null \notin Inodes /\ RootIno \in Inos
      /\ mem.d[Root] = r /\ mem.i[1] = h
      /\ \A x \in Dentries : x # Root => mem.d[x] = FreeDentry
      /\ \A n \in Inodes : n # 1 => mem.i[n] = FreeInode
  BY <1>5, Basics
<1>8. /\ ~FreeDentry.used /\ FreeDentry.count = 0 /\ ~FreeDentry.listed
      /\ FreeDentry.inode = Null /\ ~FreeInode.used /\ ~FreeFd.used /\ 1 # Null
  BY DEF FreeDentry, FreeInode, FreeFd, Null
<1>9. ASSUME NEW x \in Dentries PROVE Outer(mem, x) = One(Root, x)
  <2>1. Kids(mem, x) = {}
    BY <1>7, <1>8 DEF Kids
  <2>2. Cardinality(Kids(mem, x)) = 0
    BY <2>1, FS_EmptySet
  <2>3. mem.d[x].count = One(Root, x)
    BY <1>1, <1>7, <1>8 DEF One
  <2> QED BY <2>2, <2>3 DEF Outer, One
<1>10. SInv(mem)
  <2>1. DentriesOK(mem)
    BY <1>1, <1>3, <1>7, <1>8 DEF DentriesOK
  <2>2. InodesOK(mem)
    BY <1>3, <1>7, <1>8 DEF InodesOK
  <2>3. RootOK(mem)
    BY <1>1, <1>3, <1>7, <1>8 DEF RootOK, InoOf, KindOf
  <2>4. CountsOK(mem)
    BY <1>9 DEF CountsOK, One
  <2>5. OwnInodes(mem)
    BY <1>1, <1>7, <1>8 DEF OwnInodes
  <2>6. NoOrphan(mem)
    BY <1>1, <1>7, <1>8 DEF NoOrphan
  <2> QED BY <1>6, <2>1, <2>2, <2>3, <2>4, <2>5, <2>6 DEF SInv
<1>11. CInv(mem, disk)
  BY <1>1, <1>7, <1>8 DEF CInv
<1>12. EInv(disk)
  <2>1. disk = [dir |-> [x \in Inos |-> << >>],
                kind |-> [x \in Inos |-> IF x = RootIno THEN "dir" ELSE "free"]]
    BY DEF Init
  <2>2. /\ disk.dir = [x \in Inos |-> << >>]
        /\ disk.kind = [x \in Inos |-> IF x = RootIno THEN "dir" ELSE "free"]
    BY <2>1
  <2>3. disk \in DiskType
    <3> DEFINE T == {Hole} \cup [name : Components, ino : Inos]
    <3>1. << >> \in Seq(T)
      OBVIOUS
    <3> HIDE DEF T
    <3>2. disk.dir \in [Inos -> Seq(T)] /\ disk.kind \in [Inos -> {"free", "dir", "file"}]
      BY <2>2, <3>1
    <3> QED BY <2>1, <2>2, <3>2 DEF DiskType, T
  <2>4. \A o \in Inos : DOMAIN disk.dir[o] = {}
    BY <2>2
  <2>5. disk.kind[RootIno] = "dir"
    BY <1>7, <2>2
  <2> QED BY <2>3, <2>4, <2>5 DEF EInv
<1>13. fds = [f \in Fds |-> FreeFd] /\ cwd = Null
  BY DEF Init
<1>14. FdsInv(mem, fds) /\ CwdInv(mem, cwd)
  BY <1>2, <1>8, <1>13 DEF FdsInv, CwdInv
<1>15. ASSUME NEW x \in Dentries PROVE Ext(cwd, fds, x) = One(Root, x)
  <2>1. FdsOn(fds, x) = {}
    BY <1>8, <1>13 DEF FdsOn
  <2>2. Cardinality(FdsOn(fds, x)) = 0
    BY <2>1, FS_EmptySet
  <2>3. One(cwd, x) = 0
    BY <1>13, Basics DEF One
  <2> QED BY <2>2, <2>3 DEF Ext, One
<1>16. \A x \in Dentries : Outer(mem, x) >= Ext(cwd, fds, x) /\ Outer(mem, x) = Ext(cwd, fds, x)
  BY <1>9, <1>15 DEF One
<1>17. disk \in DiskType
  BY <1>12 DEF EInv
<1>18. astray \in BOOLEAN
  BY DEF Init
<1> QED BY <1>10, <1>11, <1>12, <1>14, <1>16, <1>17, <1>18 DEF Good, Core, Exact

\* What every reachable state satisfies.
State == /\ astray \in BOOLEAN
         /\ Core(mem, cwd, fds, disk)
         /\ ~astray => Good(mem, cwd, fds, disk)

LEMMA NextOK ==
  ASSUME Callers, State, [Next]_vars
  PROVE  Kept
<1>0. CASE UNCHANGED vars
  BY <1>0 DEF Kept, State, vars
<1> SUFFICES ASSUME ~astray, Call PROVE Kept
  BY <1>0 DEF Next, Lost
<1>1. /\ OpenPaths \cup CreatePaths \cup MkdirPaths \cup OtherPaths \subseteq Path
      /\ Good(mem, cwd, fds, disk)
  BY VfsAssumption DEF State
<1>2. ASSUME NEW p \in OpenPaths, Open(p) PROVE Kept
  BY <1>1, <1>2, OpenOK DEF Callers
<1>3. ASSUME NEW p \in CreatePaths, OpenCreate(p) PROVE Kept
  <2>1. p \in Path /\ p.comps # << >> /\ (Balanced => Len(p.comps) = 1)
    BY <1>1 DEF Callers, Balanced
  <2> QED BY <1>1, <1>3, <2>1, OpenCreateOK
<1>4. ASSUME NEW p \in MkdirPaths, Mkdir(p) PROVE Kept
  <2>1. p \in Path /\ (Balanced => Len(p.comps) = 1)
    BY <1>1 DEF Balanced
  <2> QED BY <1>1, <1>4, <2>1, MkdirOK
<1>5. ASSUME NEW p \in OtherPaths, Chdir(p) PROVE Kept
  <2>1. p \in Path /\ (Balanced /\ p.comps # << >> => Last(p.comps) \in Names)
    BY <1>1 DEF Balanced
  <2> QED BY <1>1, <1>5, <2>1, ChdirOK
<1>6. ASSUME NEW p \in OtherPaths, Unlink(p) PROVE Kept
  BY <1>1, <1>6, UnlinkOK
<1>7. ASSUME NEW p \in OtherPaths, Rmdir(p) PROVE Kept
  BY <1>1, <1>7, RmdirOK
<1>8. ASSUME NEW p \in OtherPaths, Stat(p) PROVE Kept
  BY <1>1, <1>8, StatOK
<1>9. ASSUME NEW f \in Fds, Close(f) PROVE Kept
  BY <1>1, <1>9, CloseKept
<1> QED BY <1>2, <1>3, <1>4, <1>5, <1>6, <1>7, <1>8, <1>9 DEF Call

LEMMA AstrayType ==
  ASSUME State, [Next]_vars
  PROVE  astray' \in BOOLEAN
<1>1. astray \in BOOLEAN
  BY DEF State
<1>2. \A p, miss : ResolveStarves(p, miss) \in BOOLEAN
  BY DEF ResolveStarves, Starved
<1>3. \A s, p, miss : ParentStarves(s, p, miss) \in BOOLEAN
  BY DEF ParentStarves
<1>4. ASSUME NEW p, Open(p) PROVE astray' \in BOOLEAN
  BY <1>2, <1>4 DEF Open
<1>5. ASSUME NEW p, OpenCreate(p) PROVE astray' \in BOOLEAN
  <2>1. ASSUME NEW w, NEW name, NEW starved \in BOOLEAN, CreateIn(w, name, starved)
        PROVE  astray' \in BOOLEAN
    BY <2>1 DEF CreateIn, Make
  <2>2. PICK miss, again :
           \E t \in {OpenTarget(p, miss)} :
              IF Positive(t.s, t.d) THEN OpenFd(t.s, t.d) /\ UNCHANGED <<disk, astray>>
              ELSE \E w \in {CreateParent(t.s, p, again)} :
                      CreateIn(w, Last(p.comps),
                               ResolveStarves(p, miss) \/ ParentStarves(t.s, p, again))
    BY <1>5 DEF OpenCreate
  <2>3. PICK t, w, starved :
           /\ starved = (ResolveStarves(p, miss) \/ ParentStarves(t.s, p, again))
           /\ astray' = astray \/ CreateIn(w, Last(p.comps), starved)
    BY <2>2
  <2>4. starved \in BOOLEAN
    BY <2>3
  <2> QED BY <1>1, <2>1, <2>3, <2>4
<1>6. ASSUME NEW p, Mkdir(p) PROVE astray' \in BOOLEAN
  BY <1>3, <1>6 DEF Mkdir, Make
<1>7. ASSUME NEW p, Chdir(p) PROVE astray' \in BOOLEAN
  BY <1>2, <1>7 DEF Chdir
<1>8. ASSUME NEW p, Unlink(p) PROVE astray' \in BOOLEAN
  BY <1>2, <1>8 DEF Unlink, Missed, LetGo, Reclaim
<1>9. ASSUME NEW p, Rmdir(p) PROVE astray' \in BOOLEAN
  BY <1>2, <1>9 DEF Rmdir, Missed, LetGo, Reclaim
<1>10. ASSUME NEW p, Stat(p) PROVE astray' \in BOOLEAN
  BY <1>2, <1>10 DEF Stat, Missed, LetGo
<1>11. ASSUME NEW f, Close(f) PROVE astray' \in BOOLEAN
  BY <1>1, <1>11 DEF Close
<1>12. CASE UNCHANGED vars
  BY <1>1, <1>12 DEF vars
<1> QED BY <1>4, <1>5, <1>6, <1>7, <1>8, <1>9, <1>10, <1>11, <1>12 DEF Next, Call, Lost

\* References, cached inodes, descriptors and the working directory agree with
\* each other in every state of the VFS layer that open, creat, mkdir, chdir,
\* unlink, rmdir, stat and close lead to; and with the disk, unless a call went
\* astray: one that ran out of in-memory inodes in a lookup, made an entry where
\* the name was, made one whose inode was not written, had the write of an entry
\* denied after it was done, or removed a directory it could not scan.
THEOREM StatesGood == Callers => (Spec => []State)
<1> SUFFICES ASSUME Callers PROVE Spec => []State
  OBVIOUS
<1>1. Init => State
  BY InitOK DEF State
<1>2. State /\ [Next]_vars => State'
  <2> SUFFICES ASSUME State, [Next]_vars PROVE State'
    OBVIOUS
  <2>1. Kept /\ astray' \in BOOLEAN
    BY NextOK, AstrayType
  <2> QED BY <2>1 DEF Kept, State
<1> QED BY <1>1, <1>2, PTL DEF Spec

\* Every field of the pools, the descriptor table and the disk keeps its range.
THEOREM TypesHold == Callers => (Spec => []TypeOK)
<1>1. State => TypeOK
  <2> SUFFICES ASSUME State PROVE TypeOK
    OBVIOUS
  <2>1. mem \in MemType /\ fds \in [Fds -> FdType] /\ disk \in DiskType
        /\ cwd \in Dentries \cup {Null} /\ astray \in BOOLEAN
    BY DEF State, Core, SInv, FdsInv, CwdInv
  <2>2. mem.d \in [Dentries -> DentryType] /\ mem.i \in [Inodes -> InodeType]
    BY <2>1 DEF MemType
  <2>3. /\ disk.dir \in [Inos -> Seq({Hole} \cup [name : Components, ino : Inos])]
        /\ disk.kind \in [Inos -> {"free", "dir", "file"}]
    BY <2>1 DEF DiskType
  <2> QED BY <2>1, <2>2, <2>3 DEF TypeOK, DentryType, InodeType, FdType
<1> QED BY <1>1, StatesGood, PTL

LEMMA HoldersAre ==
  ASSUME NEW x \in Dentries
  PROVE  /\ Holders(x) = Ext(cwd, fds, x) + Cardinality(Kids(mem, x))
         /\ Ext(cwd, fds, x) \in Nat /\ Cardinality(Kids(mem, x)) \in Nat
<1>1. /\ Cardinality(FdsOn(fds, x)) \in Nat /\ Ext(cwd, fds, x) \in Nat
      /\ Cardinality(Kids(mem, x)) \in Nat
  BY ExtCounts, KidsFinite
<1>2. Holders(x) = (IF x = Root THEN 1 ELSE 0) + (IF x = cwd THEN 1 ELSE 0)
                   + Cardinality(FdsOn(fds, x)) + Cardinality(Kids(mem, x))
  BY DEF Holders, FdsOn, Kids
<1>3. One(Root, x) = (IF x = Root THEN 1 ELSE 0) /\ One(cwd, x) = IF x = cwd THEN 1 ELSE 0
  BY DEF One
<1>4. PICK m, n : m = (IF x = Root THEN 1 ELSE 0) /\ n = IF x = cwd THEN 1 ELSE 0
  OBVIOUS
<1>5. m \in Nat /\ n \in Nat
  BY <1>4
<1>6. Ext(cwd, fds, x) = m + n + Cardinality(FdsOn(fds, x))
  BY <1>3, <1>4 DEF Ext
<1>7. Holders(x) = m + n + Cardinality(FdsOn(fds, x)) + Cardinality(Kids(mem, x))
  BY <1>2, <1>4
<1> QED BY <1>1, <1>5, <1>6, <1>7

\* dput never frees the slot of a dentry that the mount, the working directory,
\* an open descriptor or a child dentry still points to, whatever calls were made.
THEOREM HeldDentriesLiveHolds == Callers => (Spec => []HeldDentriesLive)
<1>1. State => HeldDentriesLive
  <2> SUFFICES ASSUME State, NEW x \in Dentries, ~mem.d[x].used
               PROVE  ~(Holders(x) > 0)
    BY DEF HeldDentriesLive
  <2>1. SInv(mem) /\ Outer(mem, x) >= Ext(cwd, fds, x)
    BY DEF State, Core
  <2>2. mem.d[x].count = 0 /\ Kids(mem, x) = {}
    BY <2>1, HeldIsUsed
  <2>3. Cardinality(Kids(mem, x)) = 0
    BY <2>2, FS_EmptySet
  <2>4. Outer(mem, x) = 0
    BY <2>2, <2>3 DEF Outer
  <2> QED BY <2>1, <2>3, <2>4, HoldersAre
<1> QED BY <1>1, StatesGood, PTL

\* Two dentries never share an in-memory inode, never hold copies of one inode
\* of the disk and never stand for one name in one directory, unless a call went
\* astray (StatesGood says when).
THEOREM OneObjectPerInodeHolds == Callers => (Spec => []OneObjectPerInode)
<1>1. State => OneObjectPerInode
  <2> SUFFICES ASSUME State, ~astray, NEW x \in Dentries, NEW y \in Dentries,
                      x # y, mem.d[x].inode # Null, mem.d[y].inode # Null
               PROVE  /\ mem.d[x].inode # mem.d[y].inode
                      /\ InoOf(mem, x) # InoOf(mem, y)
                      /\ mem.d[x].parent # mem.d[y].parent \/ mem.d[x].name # mem.d[y].name
    BY DEF OneObjectPerInode, Positive
  <2>1. SInv(mem) /\ CInv(mem, disk) /\ EInv(disk)
    BY DEF State, Good, Core
  <2>2. mem.d[x].inode # mem.d[y].inode
    BY <2>1 DEF SInv, OwnInodes
  <2>3. InoOf(mem, x) # InoOf(mem, y)
    BY <2>1 DEF CInv
  <2>4. ASSUME mem.d[x].parent = mem.d[y].parent, mem.d[x].name = mem.d[y].name PROVE FALSE
    <3>1. x # Root /\ y # Root
      <4>1. mem.d[Root].name = Dot /\ Dot \notin Names
        BY <2>1, Basics DEF SInv, RootOK
      <4>2. (x # Root => mem.d[x].name \in Names) /\ (y # Root => mem.d[y].name \in Names)
        BY <2>1, EntryOf
      <4> QED BY <2>4, <4>1, <4>2
    <3>2. PICK o, nm, q1, q2 : /\ o = InoOf(mem, mem.d[x].parent) /\ nm = mem.d[x].name
                               /\ q1 = InoOf(mem, x) /\ q2 = InoOf(mem, y)
      OBVIOUS
    <3>3. o \in Inos /\ nm \in Names /\ Has(disk, o, nm, q1) /\ Has(disk, o, nm, q2)
      <4>1. o \in Inos /\ nm \in Names /\ Has(disk, o, nm, q1)
        BY <2>1, <3>1, <3>2, EntryOf
      <4>2. o = InoOf(mem, mem.d[y].parent) /\ nm = mem.d[y].name
        BY <2>4, <3>2
      <4>3. Has(disk, o, nm, q2)
        BY <2>1, <3>1, <3>2, <4>2, EntryOf
      <4> QED BY <4>1, <4>3
    <3>4. PICK j \in DOMAIN disk.dir[o] : disk.dir[o][j] = [name |-> nm, ino |-> q1]
      BY <3>3 DEF Has
    <3>5. PICK k \in DOMAIN disk.dir[o] : disk.dir[o][k] = [name |-> nm, ino |-> q2]
      BY <3>3 DEF Has
    <3>6. disk.dir[o][j].name = nm /\ disk.dir[o][k].name = nm
          /\ disk.dir[o][j].ino = q1 /\ disk.dir[o][k].ino = q2
      BY <3>4, <3>5
    <3>7. disk.dir[o][j] # Hole
      BY <3>3, <3>6, Basics DEF Hole
    <3>8. j = k
      BY <2>1, <3>3, <3>6, <3>7 DEF EInv
    <3> QED BY <2>3, <3>2, <3>6, <3>8
  <2> QED BY <2>2, <2>3, <2>4
<1> QED BY <1>1, StatesGood, PTL

\* What d_lookup can answer is an entry of the disk, with the disk's inode and
\* kind for it, after any creations, removals, evictions and failures but those
\* that lead a call astray (StatesGood says which).
THEOREM DcacheCoherentHolds == Callers => (Spec => []DcacheCoherent)
<1>1. State => DcacheCoherent
  <2> SUFFICES ASSUME State, ~astray, NEW x \in Dentries, mem.d[x].listed
               PROVE  /\ Positive(mem, x) /\ Positive(mem, mem.d[x].parent)
                      /\ [name |-> mem.d[x].name, ino |-> InoOf(mem, x)]
                            \in ToSet(disk.dir[InoOf(mem, mem.d[x].parent)])
                      /\ disk.kind[InoOf(mem, x)] = KindOf(mem, x)
    BY DEF DcacheCoherent
  <2>1. SInv(mem) /\ CInv(mem, disk) /\ EInv(disk)
    BY DEF State, Good, Core
  <2>2. x # Root /\ mem.d[x].inode # Null
    BY <2>1 DEF SInv, RootOK, DentriesOK
  <2>3. /\ mem.d[x].parent \in Dentries
        /\ mem.d[mem.d[x].parent].inode # Null
    BY <2>1, <2>2, PositiveDentry
  <2>4. Positive(mem, x) /\ Positive(mem, mem.d[x].parent)
    BY <2>2, <2>3, Basics DEF Positive
  <2>5. PICK o, nm, q : /\ o = InoOf(mem, mem.d[x].parent)
                        /\ nm = mem.d[x].name /\ q = InoOf(mem, x)
    OBVIOUS
  <2>6. Has(disk, o, nm, q) /\ disk.kind[q] = KindOf(mem, x)
    BY <2>1, <2>5 DEF CInv
  <2>7. [name |-> nm, ino |-> q] \in ToSet(disk.dir[o])
    BY <2>6 DEF Has, ToSet
  <2> QED BY <2>4, <2>5, <2>6, <2>7
<1> QED BY <1>1, StatesGood, PTL

\* The working directory and every directory above it are live directories of the
\* disk: rmdir refuses the working directory and a directory that is not empty;
\* unless a call went astray (StatesGood says when).
THEOREM CwdUsableHolds == Callers => (Spec => []CwdUsable)
<1>1. State => CwdUsable
  <2> DEFINE up == {x \in Dentries : mem.d[x].inode # Null /\ KindOf(mem, x) = "dir"}
  <2> SUFFICES ASSUME State, ~astray, cwd # Null
               PROVE  /\ cwd \in up
                      /\ \A x \in up : /\ mem.d[x].parent \in up /\ IsDir(mem, x)
                                       /\ disk.kind[InoOf(mem, x)] = "dir"
    <3>1. up \in SUBSET Dentries
      OBVIOUS
    <3> HIDE DEF up
    <3> QED BY <3>1 DEF CwdUsable
  <2>1. SInv(mem) /\ CInv(mem, disk) /\ EInv(disk) /\ CwdInv(mem, cwd)
    BY DEF State, Good, Core
  <2>2. cwd \in up
    BY <2>1 DEF CwdInv
  <2>3. ASSUME NEW x \in up
        PROVE  /\ mem.d[x].parent \in up /\ IsDir(mem, x)
               /\ disk.kind[InoOf(mem, x)] = "dir"
    <3>1. /\ x \in Dentries /\ mem.d[x].inode # Null /\ KindOf(mem, x) = "dir"
          /\ disk.kind[InoOf(mem, x)] = "dir"
      BY <2>1, PositiveDentry
    <3>2. IsDir(mem, x)
      BY <3>1, Basics DEF IsDir, Positive
    <3>3. CASE x = Root
      <4>1. mem.d[x].parent = x
        BY <2>1, <3>3 DEF SInv, RootOK
      <4> QED BY <3>1, <3>2, <4>1
    <3>4. CASE x # Root
      <4>1. PICK up1 : up1 = mem.d[x].parent
        OBVIOUS
      <4>2. up1 \in Dentries /\ mem.d[up1].inode # Null
        BY <2>1, <3>1, <4>1, PositiveDentry
      <4>3. PICK o, nm, q : o = InoOf(mem, up1) /\ nm = mem.d[x].name /\ q = InoOf(mem, x)
        OBVIOUS
      <4>4. Has(disk, o, nm, q) /\ o \in Inos /\ q \in Inos
        BY <2>1, <3>1, <3>4, <4>1, <4>3, EntryOf
      <4>5. PICK k \in DOMAIN disk.dir[o] : disk.dir[o][k] = [name |-> nm, ino |-> q]
        BY <4>4 DEF Has
      <4>6. disk.dir[o][k].ino = q /\ q # Null
        BY <4>4, <4>5, Basics
      <4>7. disk.dir[o][k] # Hole
        BY <4>6 DEF Hole
      <4>8. disk.kind[o] = "dir"
        BY <2>1, <4>4, <4>7 DEF EInv
      <4>9. KindOf(mem, up1) = "dir"
        BY <2>1, <4>2, <4>3, <4>8, PositiveDentry
      <4> QED BY <3>1, <3>2, <4>1, <4>2, <4>9
    <3> QED BY <3>3, <3>4
  <2> QED BY <2>2, <2>3
<1> QED BY <1>1, StatesGood, PTL

\* Until its file is removed, a descriptor's f_inode is its dentry's inode, and
\* live: no dput, lookup or creation takes it away or replaces it.
THEOREM FdInodeLiveHolds == Callers => (Spec => []FdInodeLive)
<1>1. State => FdInodeLive
  <2> SUFFICES ASSUME State, NEW f \in Fds, fds[f].used,
                      mem.d[fds[f].dentry].inode # Null
               PROVE  /\ fds[f].inode = mem.d[fds[f].dentry].inode
                      /\ mem.i[fds[f].inode].used
    BY DEF FdInodeLive, Positive
  <2>1. fds[f].dentry \in Dentries /\ fds[f].inode = mem.d[fds[f].dentry].inode
    BY DEF State, Core, FdsInv
  <2>2. mem.i[mem.d[fds[f].dentry].inode].used
    BY <2>1 DEF State, Core, SInv, DentriesOK
  <2> QED BY <2>1, <2>2
<1> QED BY <1>1, StatesGood, PTL

\* When ext4's operations do not fail, every in-memory inode in use belongs to a
\* dentry in use: dput and unlink give every slot of the pool back.
THEOREM InodeSlotsExactHolds == Callers /\ ~FsFails => (Spec => []InodeSlotsExact)
<1> SUFFICES ASSUME Callers, ~FsFails PROVE Spec => []InodeSlotsExact
  OBVIOUS
<1>1. State => InodeSlotsExact
  <2> SUFFICES ASSUME State, NEW n \in Inodes
               PROVE  mem.i[n].used <=> \E x \in Dentries : mem.d[x].used /\ mem.d[x].inode = n
    BY DEF InodeSlotsExact
  <2>1. SInv(mem) /\ n # Null
    BY Basics DEF State, Core
  <2>2. ASSUME mem.i[n].used PROVE \E x \in Dentries : mem.d[x].used /\ mem.d[x].inode = n
    <3>1. PICK x \in Dentries : mem.d[x].inode = n
      BY <2>1, <2>2 DEF SInv, NoOrphan
    <3>2. mem.d[x].used
      BY <2>1, <3>1, PositiveDentry
    <3> QED BY <3>1, <3>2
  <2>3. ASSUME NEW x \in Dentries, mem.d[x].used, mem.d[x].inode = n PROVE mem.i[n].used
    BY <2>1, <2>3 DEF SInv, DentriesOK
  <2> QED BY <2>2, <2>3
<1> QED BY <1>1, StatesGood, PTL

\* On paths where every call drops what it takes, d_count is the number of
\* holders after every call, whatever failed in it: nothing leaks and nothing
\* is dropped twice.
THEOREM RefsExactHolds == Callers /\ Balanced => (Spec => []RefsExact)
<1> SUFFICES ASSUME Callers, Balanced PROVE Spec => []RefsExact
  OBVIOUS
<1> DEFINE XInv == State /\ Exact(mem, cwd, fds)
<1>1. Init => XInv
  BY InitOK DEF State
<1>2. XInv /\ [Next]_vars => XInv'
  <2> SUFFICES ASSUME XInv, [Next]_vars PROVE XInv'
    OBVIOUS
  <2>1. Kept /\ astray' \in BOOLEAN
    BY NextOK, AstrayType
  <2> QED BY <2>1 DEF Kept, State
<1>3. XInv => RefsExact
  <2> SUFFICES ASSUME XInv, NEW x \in Dentries PROVE mem.d[x].count = Holders(x)
    BY DEF RefsExact
  <2>1. Outer(mem, x) = Ext(cwd, fds, x) /\ SInv(mem)
    BY DEF Exact, State, Core
  <2>2. mem.d[x].count \in Nat
    BY <2>1, OuterIsInt DEF SInv
  <2> QED BY <2>1, <2>2, HoldersAre DEF Outer
<1> HIDE DEF XInv
<1> QED BY <1>1, <1>2, <1>3, PTL DEF Spec
=============================================================================
