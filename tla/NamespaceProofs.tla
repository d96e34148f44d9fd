--------------------------- MODULE NamespaceProofs ---------------------------
(***************************************************************************)
(* Proofs about Namespace for every number of groups, inodes, blocks, names *)
(* and power losses: its types, that the directory entries on the disk are  *)
(* sound at every moment of every call, and that the counts on the disk are *)
(* exact between the calls, as long as no call has led the tree astray.     *)
(***************************************************************************)
EXTENDS Namespace, SumProofs

\* ext4_inode_group_of_ino stays inside the groups.
LEMMA GroupOfIsGroup ==
  ASSUME NEW i \in Inos
  PROVE  GroupOf(i) \in Groups
<1> DEFINE n == InodesPerGroup
           q == (i - 1) \div n
<1>1. n \in Nat /\ n > 0 /\ GroupsCount \in Nat
  BY NamespaceAssumption
<1>2. i - 1 \in Nat /\ i <= GroupsCount * n
  BY <1>1 DEF Inos
<1>3. q \in Nat /\ n * q <= i - 1
  BY <1>1, <1>2
<1>4. q < GroupsCount
  <2>1. SUFFICES ASSUME q >= GroupsCount PROVE FALSE
    BY <1>1, <1>3
  <2> HIDE DEF q, n
  <2>2. n * q >= n * GroupsCount
    BY <1>1, <1>3, <2>1
  <2>3. n * GroupsCount = GroupsCount * n /\ n * q \in Nat /\ GroupsCount * n \in Nat
    BY <1>1, <1>3
  <2> DEFINE a == n * q
             b == GroupsCount * n
  <2>4. a \in Nat /\ b \in Nat /\ a >= b /\ i - 1 \in Nat /\ i <= b /\ a <= i - 1
    BY <1>2, <1>3, <2>2, <2>3
  <2> HIDE DEF a, b
  <2>5. i \in Int
    BY DEF Inos
  <2> QED BY <2>4, <2>5
<1> QED BY <1>1, <1>3, <1>4 DEF GroupOf, Groups

\* The first group and the root directory are there.
LEMMA Constants ==
  /\ 0 \in Groups /\ RootIno \in Inos /\ ReservedInos \subseteq Inos /\ IsFiniteSet(Groups)
  /\ RootBlock \in Blocks
<1>1. GroupsCount \in Nat \ {0} /\ InodesPerGroup \in Nat /\ InodesPerGroup > 2
      /\ BlocksPerGroup \in Nat \ {0}
  BY NamespaceAssumption
<1>2. 0 \in Groups
  BY <1>1 DEF Groups
<1>3. GroupsCount * InodesPerGroup >= InodesPerGroup
  BY <1>1
<1>4. GroupsCount * InodesPerGroup \in Nat
  BY <1>1
<1>5. RootIno \in Inos /\ ReservedInos \subseteq Inos
  BY <1>1, <1>3, <1>4 DEF RootIno, ReservedInos, Inos
<1>6. IsFiniteSet(Groups)
  <2>1. 0 \in Int /\ GroupsCount - 1 \in Int
    BY <1>1
  <2> QED BY <2>1, FS_Interval DEF Groups
<1>7. RootBlock \in Blocks
  BY <1>1, <1>2 DEF RootBlock, Blocks
<1> QED BY <1>2, <1>5, <1>6, <1>7

\* The call that is not there has its type.
LEMMA IdleType == IdleOp \in OpType /\ IdleOp.pc = "idle" /\ IdleOp.blk = NoBlock
<1>1. (CHOOSE n \in Names : TRUE) \in Names
  BY NamespaceAssumption
<1> QED BY <1>1, Constants DEF IdleOp, OpType, PCs

\* The super block's count is a natural number when the groups' counts are.
LEMMA SumType ==
  ASSUME NEW f, \A g \in Groups : f[g] \in Nat
  PROVE  Sum(f) \in Nat
<1>1. SumOver(f, Groups) \in Nat
  BY Constants, SumIsNatural
<1> QED BY <1>1 DEF Sum, SumOver

-----------------------------------------------------------------------------
(* Types.                                                                   *)

\* A mkdir that has got its block still has it when it gives it back.
BlockInv ==
    \/ op.pc \in {"data", "rollback"}
    \/ op.pc \in {"inode", "entry"} /\ op.kind = "dir"
    => op.blk \in Blocks

\* What mkfs leaves has the types.
LEMMA InitTypes == Init => TypeOK /\ BlockInv
<1> SUFFICES ASSUME Init PROVE TypeOK /\ BlockInv
  OBVIOUS
<1>1. gd \in [Groups -> GdType]
  BY NamespaceAssumption DEF Init, GdType
<1>2. sbfree \in Nat
  <2> DEFINE f == [g \in Groups |-> gd[g].ifree]
  <2>1. \A g \in Groups : f[g] \in Nat
    BY <1>1 DEF GdType
  <2> HIDE DEF f
  <2>2. Sum(f) \in Nat
    BY <2>1, SumType
  <2> QED BY <2>2 DEF Init, SumFree, f
<1>3. itab \in [Inos -> InodeType]
  BY Constants DEF Init, InodeType, NoInode, Kinds
<1>4. mirror \in GdType
  BY <1>1, Constants DEF Init
<1>5. op \in OpType /\ op.pc = "idle"
  BY IdleType DEF Init
<1>6. ibmap \subseteq Inos /\ bbmap \subseteq Blocks /\ ents \subseteq Entry
      /\ faults \in Nat /\ crashes \in Nat
  BY Constants DEF Init
<1>7. astray \in BOOLEAN
  BY DEF Init
<1> QED BY <1>1, <1>2, <1>3, <1>4, <1>5, <1>6, <1>7 DEF TypeOK, BlockInv

\* One step keeps the types.
LEMMA StepTypes == TypeOK /\ BlockInv /\ [Next]_vars => TypeOK' /\ BlockInv'
<1> SUFFICES ASSUME TypeOK, BlockInv, [Next]_vars PROVE TypeOK' /\ BlockInv'
  OBVIOUS
<1>t. /\ ibmap \subseteq Inos /\ bbmap \subseteq Blocks /\ gd \in [Groups -> GdType]
      /\ sbfree \in Nat /\ itab \in [Inos -> InodeType] /\ ents \subseteq Entry
      /\ mirror \in GdType /\ op \in OpType /\ faults \in Nat /\ crashes \in Nat
      /\ astray \in BOOLEAN
  BY DEF TypeOK
<1>f. /\ op.pc \in PCs /\ op.dir \in Inos /\ op.name \in Names /\ op.kind \in {"file", "dir"}
      /\ op.ino \in Inos /\ op.blk \in Blocks \cup {NoBlock} /\ op.scanned \in Nat
      /\ op.rm \in BOOLEAN
  BY <1>t DEF OpType
<1>o. /\ NoFault \/ OneFault => faults' \in Nat /\ crashes' \in Nat
      /\ Ok \/ Fault => faults' \in Nat /\ crashes' \in Nat /\ astray' \in BOOLEAN
  BY <1>t DEF Ok, Fault, NoFault, OneFault
<1>g. \A p \in PCs : Goto(p) => /\ op' \in OpType /\ op'.pc = p /\ op'.kind = op.kind
                                /\ op'.blk = op.blk
  BY <1>t DEF Goto, OpType
<1>p. PCs = {"idle", "ialloc", "igd", "block", "data", "inode", "entry", "nlink", "used",
        "rollback", "rmentry", "rmdata", "rminode", "rmbit", "rmgd", "rmlink", "rmused"}
  BY DEF PCs
<1>d. Done => op' \in OpType /\ op'.pc = "idle"
  BY IdleType DEF Done
<1>n. NextGroup => op' \in OpType /\ op'.pc = "ialloc"
  <2>1. op.scanned + 1 \in Nat
    BY <1>f
  <2> QED BY <1>t, <1>p, <2>1 DEF NextGroup, OpType
<1>w. ASSUME NEW g \in Groups, NEW d \in GdType PROVE [gd EXCEPT ![g] = d] \in [Groups -> GdType]
  BY <1>t, <1>w
<1>W. ASSUME NEW g \in Groups, NEW d \in GdType, WriteGd(g, d)
      PROVE  gd' \in [Groups -> GdType] /\ mirror' \in GdType
  BY <1>t, <1>w, <1>W DEF WriteGd
<1>G. GroupOf(op.ino) \in Groups
  BY <1>f, GroupOfIsGroup
<1>l. \A n \in Nat : Less(n) \in Nat
  BY DEF Less
<1>e. ASSUME NEW g \in Groups
      PROVE  /\ [gd[g] EXCEPT !.ifree = Less(@)] \in GdType
             /\ [gd[g] EXCEPT !.ifree = @ + 1] \in GdType
             /\ [gd[g] EXCEPT !.bfree = Less(@)] \in GdType
             /\ [gd[g] EXCEPT !.bfree = @ + 1] \in GdType
  <2>1. gd[g] \in GdType
    BY <1>t, <1>e
  <2>2. gd[g].ifree \in Nat /\ gd[g].bfree \in Nat
    BY <2>1 DEF GdType
  <2>3. Less(gd[g].ifree) \in Nat /\ Less(gd[g].bfree) \in Nat
        /\ gd[g].ifree + 1 \in Nat /\ gd[g].bfree + 1 \in Nat
    BY <1>l, <2>2
  <2> QED BY <2>1, <2>3 DEF GdType
<1>s. ASSUME gd' \in [Groups -> GdType], SyncSuper PROVE sbfree' \in Nat
  <2> DEFINE f == [g \in Groups |-> gd'[g].ifree]
  <2>1. \A g \in Groups : f[g] \in Nat
    BY <1>s DEF GdType
  <2> HIDE DEF f
  <2>2. Sum(f) \in Nat
    BY <2>1, SumType
  <2> QED BY <1>s, <2>2 DEF SyncSuper, f
<1>b. ASSUME NEW b \in Blocks, FreeBlockOf(b)
      PROVE  bbmap' \subseteq Blocks /\ gd' \in [Groups -> GdType] /\ mirror' \in GdType
  <2>1. b[1] \in Groups
    BY <1>b DEF Blocks
  <2> QED BY <1>b, <1>t, <1>e, <1>W, <2>1 DEF FreeBlockOf
<1>P. ASSUME NEW d \in Int, ParentLink(d)
      PROVE  itab' \in [Inos -> InodeType] /\ faults' \in Nat /\ crashes' \in Nat
             /\ astray' \in BOOLEAN
  <2>1. itab[op.dir] \in InodeType
    BY <1>t, <1>f
  <2>2. [itab[op.dir] EXCEPT !.nlink = @ + d] \in InodeType
    BY <1>P, <2>1 DEF InodeType
  <2>3. itab' \in [Inos -> InodeType]
    BY <1>P, <1>t, <1>f, <2>2 DEF ParentLink
  <2> QED BY <1>P, <1>o, <2>3 DEF ParentLink
<1>C. ASSUME NEW n \in Nat, CountDirs(n)
      PROVE  /\ gd' \in [Groups -> GdType] /\ mirror' \in GdType
             /\ faults' \in Nat /\ crashes' \in Nat /\ astray' \in BOOLEAN
  <2>1. [mirror EXCEPT !.used = n] \in GdType
    BY <1>t, <1>C DEF GdType
  <2> QED BY <1>t, <1>C, <1>o, <1>w, <2>1, Constants DEF CountDirs
<1>1. ASSUME NEW d \in Inos, NEW n \in Names, NEW k \in {"file", "dir"}, Make(d, n, k)
      PROVE  TypeOK' /\ BlockInv'
  <2>1. op' \in OpType /\ op'.pc = "ialloc"
    BY <1>1, <1>p, IdleType DEF Make, OpType
  <2> QED BY <1>1, <1>o, <2>1 DEF Make, TypeOK, BlockInv, disk
<1>2. CASE ScanEnd
  BY <1>2, <1>o, <1>d DEF ScanEnd, TypeOK, BlockInv, disk
<1>3. CASE AllocBit
  <2>1. ASSUME NEW i \in Lowest(GroupInos(ScanGroup) \ ibmap) PROVE i \in Inos
    BY <2>1 DEF Lowest, GroupInos
  <2>2. ibmap' \subseteq Inos
    BY <1>3, <1>t, <2>1 DEF AllocBit
  <2>3. op' \in OpType /\ op'.pc \in {"ialloc", "igd"}
    BY <1>3, <1>t, <1>p, <1>n, <2>1 DEF AllocBit, OpType
  <2>4. faults' \in Nat /\ crashes' \in Nat /\ astray' \in BOOLEAN
    BY <1>3, <1>o DEF AllocBit
  <2> QED BY <1>3, <2>2, <2>3, <2>4 DEF AllocBit, TypeOK, BlockInv
<1>4. CASE AllocGd
  <2> DEFINE g == GroupOf(op.ino)
             d == [gd[g] EXCEPT !.ifree = Less(@)]
  <2>1. d \in GdType
    BY <1>G, <1>e
  <2>2. /\ \/ WriteGd(g, d) /\ SyncSuper /\ Ok
              /\ Goto(IF op.kind = "dir" THEN "block" ELSE "inode")
           \/ /\ Fault /\ NextGroup
              /\ gd' \in {gd, [gd EXCEPT ![g] = d]}
              /\ UNCHANGED <<sbfree, mirror>>
        /\ UNCHANGED <<ibmap, bbmap, itab, ents>>
    BY <1>4 DEF AllocGd
  <2> HIDE DEF g, d
  <2>3. gd' \in [Groups -> GdType] /\ mirror' \in GdType
    BY <1>t, <1>w, <1>W, <1>G, <2>1, <2>2 DEF g
  <2>4. sbfree' \in Nat
    BY <1>t, <1>s, <2>2, <2>3
  <2>5. op' \in OpType /\ BlockInv'
    <3>1. CASE NextGroup
      BY <1>n, <3>1 DEF BlockInv
    <3>2. CASE Goto(IF op.kind = "dir" THEN "block" ELSE "inode")
      <4>1. CASE op.kind = "dir"
        BY <1>g, <1>p, <3>2, <4>1 DEF BlockInv
      <4>2. CASE op.kind # "dir"
        BY <1>g, <1>p, <3>2, <4>2 DEF BlockInv
      <4> QED BY <4>1, <4>2
    <3> QED BY <2>2, <3>1, <3>2
  <2> QED BY <1>o, <1>t, <2>2, <2>3, <2>4, <2>5 DEF TypeOK
<1>5. CASE NewBlock
  <2>1. ASSUME NEW b \in Blocks \ bbmap, bbmap' = bbmap \cup {b},
               WriteGd(b[1], [gd[b[1]] EXCEPT !.bfree = Less(@)]),
               op' = [op EXCEPT !.pc = "data", !.blk = b], Ok
        PROVE  TypeOK' /\ BlockInv'
    <3>1. b[1] \in Groups
      BY DEF Blocks
    <3>2. op' \in OpType /\ op'.blk \in Blocks
      BY <1>t, <1>p, <2>1 DEF OpType
    <3>3. gd' \in [Groups -> GdType] /\ mirror' \in GdType
      BY <1>W, <1>e, <2>1, <3>1
    <3>4. bbmap' \subseteq Blocks
      BY <1>t, <2>1
    <3> QED BY <1>5, <1>o, <1>t, <2>1, <3>2, <3>3, <3>4 DEF NewBlock, TypeOK, BlockInv
  <2>2. CASE Goto("rmbit") /\ UNCHANGED <<bbmap, gd, mirror>> /\ (Ok \/ Fault)
    BY <1>5, <1>o, <1>g, <1>p, <2>2 DEF NewBlock, TypeOK, BlockInv
  <2> QED BY <1>5, <2>1, <2>2 DEF NewBlock
<1>6. CASE WriteData
  <2>1. op' \in OpType /\ BlockInv' /\ faults' \in Nat /\ crashes' \in Nat
        /\ astray' \in BOOLEAN
    BY <1>6, <1>g, <1>p, <1>o DEF WriteData, At, BlockInv
  <2> QED BY <1>6, <2>1 DEF WriteData, TypeOK, disk
<1>7. CASE WriteInode
  <2>1. itab' \in [Inos -> InodeType]
    <3> DEFINE new == [kind |-> op.kind, nlink |-> IF op.kind = "dir" THEN 2 ELSE 1,
                       blk |-> op.blk]
    <3>1. new \in InodeType
      BY <1>f DEF InodeType, Kinds
    <3>2. itab' = [itab EXCEPT ![op.ino] = new] \/ itab' = itab
      BY <1>7 DEF WriteInode
    <3> QED BY <1>t, <3>1, <3>2
  <2>2. op' \in OpType /\ BlockInv' /\ faults' \in Nat /\ crashes' \in Nat
        /\ astray' \in BOOLEAN
    BY <1>7, <1>g, <1>p, <1>o DEF WriteInode, At, BlockInv
  <2> QED BY <1>7, <2>1, <2>2 DEF WriteInode, TypeOK
<1>8. CASE AddEntry
  <2>1. [dir |-> op.dir, name |-> op.name, ino |-> op.ino] \in Entry
    BY <1>f DEF Entry
  <2>2. ents' \subseteq Entry
    BY <1>8, <1>t, <2>1 DEF AddEntry
  <2>3. /\ op.pc = "entry"
        /\ \/ Goto("nlink")
           \/ Done
           \/ op.kind = "dir" /\ Goto("rollback")
           \/ Goto("rmbit")
    <3>1. CASE op.kind = "dir"
      BY <1>8, <3>1 DEF AddEntry, At
    <3>2. CASE op.kind # "dir"
      BY <1>8, <3>2 DEF AddEntry, At
    <3> QED BY <3>1, <3>2
  <2>4. op' \in OpType /\ BlockInv'
    BY <1>g, <1>d, <1>p, <2>3 DEF BlockInv
  <2>5. faults' \in Nat /\ crashes' \in Nat /\ astray' \in BOOLEAN
    BY <1>8, <1>o DEF AddEntry
  <2> QED BY <1>8, <2>2, <2>4, <2>5 DEF AddEntry, TypeOK
<1>9. CASE Rollback
  <2>1. op.blk \in Blocks
    BY <1>9 DEF Rollback, At, BlockInv
  <2>2. bbmap' \subseteq Blocks /\ gd' \in [Groups -> GdType] /\ mirror' \in GdType
    BY <1>9, <1>b, <1>t, <2>1 DEF Rollback
  <2>3. op' \in OpType /\ BlockInv' /\ faults' \in Nat /\ crashes' \in Nat
        /\ astray' \in BOOLEAN
    BY <1>9, <1>g, <1>p, <1>o DEF Rollback, BlockInv
  <2> QED BY <1>9, <2>2, <2>3 DEF Rollback, TypeOK
<1>10. CASE WriteParent \/ UnlinkParent
  <2>1. /\ itab' \in [Inos -> InodeType]
        /\ faults' \in Nat /\ crashes' \in Nat /\ astray' \in BOOLEAN
    BY <1>10, <1>P DEF WriteParent, UnlinkParent
  <2>2. op' \in OpType /\ BlockInv'
    BY <1>10, <1>g, <1>p DEF WriteParent, UnlinkParent, BlockInv
  <2> QED BY <1>10, <2>1, <2>2 DEF WriteParent, UnlinkParent, TypeOK
<1>11. CASE CountNewDir \/ UncountDir
  <2>1. mirror.used \in Nat
    BY <1>t DEF GdType
  <2>2. /\ gd' \in [Groups -> GdType] /\ mirror' \in GdType
        /\ faults' \in Nat /\ crashes' \in Nat /\ astray' \in BOOLEAN
    <3>1. CASE \E n \in Nat : CountDirs(n)
      BY <1>C, <3>1
    <3>2. CASE Ok /\ UNCHANGED <<gd, mirror>>
      BY <1>t, <1>o, <3>2
    <3> QED BY <1>11, <2>1, <3>1, <3>2 DEF CountNewDir, UncountDir
  <2> QED BY <1>11, <1>d, <2>2 DEF CountNewDir, UncountDir, TypeOK, BlockInv
<1>12. ASSUME NEW e \in ents, Remove(e)
      PROVE  TypeOK' /\ BlockInv'
  <2>1. e.dir \in Inos /\ e.name \in Names /\ e.ino \in Inos
    BY <1>t DEF Entry
  <2>2. itab[e.ino].kind \in {"file", "dir"} /\ itab[e.ino].blk \in Blocks \cup {NoBlock}
    BY <1>12, <1>t, <2>1 DEF Remove, InodeType, Kinds
  <2>3. op' \in OpType /\ op'.pc = "rmentry"
    BY <1>12, <1>p, <2>1, <2>2, IdleType DEF Remove, OpType
  <2> QED BY <1>12, <1>o, <2>3 DEF Remove, TypeOK, BlockInv, disk
<1>13. CASE RemoveEntry
  <2>1. ents' \subseteq Entry
    BY <1>13, <1>t DEF RemoveEntry
  <2>2. op' \in OpType /\ BlockInv' /\ faults' \in Nat /\ crashes' \in Nat
        /\ astray' \in BOOLEAN
    BY <1>13, <1>g, <1>d, <1>p, <1>o DEF RemoveEntry, BlockInv
  <2> QED BY <1>13, <2>1, <2>2 DEF RemoveEntry, TypeOK
<1>14. CASE FreeData
  <2>2. bbmap' \subseteq Blocks /\ gd' \in [Groups -> GdType] /\ mirror' \in GdType
    BY <1>14, <1>b, <1>f, <1>t DEF FreeData
  <2>3. op' \in OpType /\ BlockInv' /\ faults' \in Nat /\ crashes' \in Nat
        /\ astray' \in BOOLEAN
    BY <1>14, <1>g, <1>p, <1>o DEF FreeData, BlockInv
  <2> QED BY <1>14, <2>2, <2>3 DEF FreeData, TypeOK
<1>15. CASE DeleteInode
  <2>1. NoInode \in InodeType
    BY DEF NoInode, InodeType, Kinds
  <2>2. itab' \in [Inos -> InodeType]
    BY <1>15, <1>t, <2>1 DEF DeleteInode
  <2>3. op' \in OpType /\ BlockInv' /\ faults' \in Nat /\ crashes' \in Nat
        /\ astray' \in BOOLEAN
    BY <1>15, <1>g, <1>d, <1>p, <1>o DEF DeleteInode, BlockInv
  <2> QED BY <1>15, <2>2, <2>3 DEF DeleteInode, TypeOK
<1>16. CASE FreeBit
  <2>1. ibmap' \subseteq Inos
    BY <1>16, <1>t DEF FreeBit
  <2>2. op' \in OpType /\ BlockInv' /\ faults' \in Nat /\ crashes' \in Nat
        /\ astray' \in BOOLEAN
    BY <1>16, <1>g, <1>d, <1>p, <1>o DEF FreeBit, BlockInv
  <2> QED BY <1>16, <2>1, <2>2 DEF FreeBit, TypeOK
<1>17. CASE FreeGd
  <2> DEFINE g == GroupOf(op.ino)
             d == [gd[g] EXCEPT !.ifree = @ + 1]
  <2>1. d \in GdType
    BY <1>G, <1>e
  <2>2. /\ \/ /\ WriteGd(g, d) /\ SyncSuper /\ Ok
              /\ Goto("rmlink") \/ Done
           \/ /\ gd' \in {gd, [gd EXCEPT ![g] = d]} /\ Fault /\ Done
              /\ UNCHANGED <<sbfree, mirror>>
        /\ UNCHANGED <<ibmap, bbmap, itab, ents>>
    BY <1>17 DEF FreeGd
  <2> HIDE DEF g, d
  <2>3. gd' \in [Groups -> GdType] /\ mirror' \in GdType
    BY <1>t, <1>w, <1>W, <1>G, <2>1, <2>2 DEF g
  <2>4. sbfree' \in Nat
    BY <1>t, <1>s, <2>2, <2>3
  <2>5. op' \in OpType /\ BlockInv'
    BY <1>g, <1>d, <1>p, <2>2 DEF BlockInv
  <2> QED BY <1>o, <1>t, <2>2, <2>3, <2>4, <2>5 DEF TypeOK
<1>18. CASE PowerCycle
  <2>1. gd[0] \in GdType
    BY <1>t, Constants
  <2>2. Refilled(gd[0]) \in GdType
    <3>1. gd[0].ifree \in Nat /\ gd[0].bfree \in Nat /\ gd[0].used \in Nat
      BY <2>1 DEF GdType
    <3>2. InodesPerGroup - 1 \in Nat /\ Less(BlocksPerGroup) \in Nat
      BY <1>l, NamespaceAssumption
    <3> QED BY <3>1, <3>2 DEF Refilled, GdType
  <2> QED BY <1>18, <1>d, <1>t, <2>2 DEF PowerCycle, disk, TypeOK, BlockInv
<1>19. CASE Lost \/ UNCHANGED vars
  BY <1>19 DEF Lost, vars, disk, TypeOK, BlockInv
<1> QED
  BY <1>1, <1>2, <1>3, <1>4, <1>5, <1>6, <1>7, <1>8, <1>9, <1>10, <1>11, <1>12,
     <1>13, <1>14, <1>15, <1>16, <1>17, <1>18, <1>19 DEF Next

\* Type correctness of the name space, whatever writes fail: no free count of a
\* group descriptor or of the super block goes below zero, and a block that is
\* given back is a block.
THEOREM TypeCorrect == Spec => []TypeOK
<1>1. Spec => [](TypeOK /\ BlockInv)
  BY InitTypes, StepTypes, PTL DEF Spec
<1> QED BY <1>1, PTL

-----------------------------------------------------------------------------
(* The entries on the disk.  What has to hold besides EntriesValid and      *)
(* DirBlocksOwned to make them inductive: of the disk, and of the call that *)
(* is under way.                                                            *)

NoEntry(i) == \A e \in ents : e.ino # i
Unused(b) == \A i \in Inos : LiveDir(i) => itab[i].blk # b

\* The root directory stays, and neither it nor the reserved inode has a name.
RootInv ==
    /\ ReservedInos \subseteq ibmap
    /\ itab[RootIno].kind = "dir"
    /\ \A e \in ents : e.ino \notin ReservedInos

\* A name leads to one inode, is in a directory that can be reached, and a file
\* that has a name has no block of its own.
NamesInv ==
    /\ \A e, f \in ents : e.dir = f.dir /\ e.name = f.name => e = f
    /\ \A e \in ents : LiveDir(e.dir)
    /\ \A e \in ents : itab[e.ino].kind = "file" => itab[e.ino].blk = NoBlock

DiskInv == RootInv /\ NamesInv /\ EntriesValid /\ DirBlocksOwned

\* create and mkdir, up to the entry: the name is still free, the new inode is
\* allocated, written before its entry, and no entry leads to it; the new
\* directory's block is marked and no other directory has it.
MakeInv ==
    /\ op.pc \in {"ialloc", "igd", "block", "data", "inode", "entry"} =>
          LiveDir(op.dir) /\ Lookup(op.dir, op.name) = {}
    /\ op.pc \in {"igd", "block", "data", "inode", "entry"} =>
          op.ino \in ibmap /\ op.ino \notin ReservedInos /\ NoEntry(op.ino)
    /\ op.pc = "entry" => itab[op.ino].kind = op.kind /\ itab[op.ino].blk = op.blk
    /\ op.pc \in {"ialloc", "igd", "block"} => op.blk = NoBlock
    /\ op.pc \in {"inode", "entry"} /\ op.kind = "file" => op.blk = NoBlock
    /\ op.pc \in {"block", "data"} => op.kind = "dir"
    /\ op.pc \in {"data", "inode", "entry"} /\ op.kind = "dir" =>
          op.blk \in bbmap /\ Unused(op.blk)

\* unlink and rmdir: the entry is still there, and nothing is below it; once it
\* is gone, and in a mkdir that gives everything back, nothing leads to what is
\* being freed.
RemoveInv ==
    /\ op.pc = "rmentry" =>
          /\ [dir |-> op.dir, name |-> op.name, ino |-> op.ino] \in ents
          /\ itab[op.ino].kind = op.kind /\ itab[op.ino].blk = op.blk
          /\ \A x \in ents : x.dir # op.ino
    /\ op.pc \in {"rollback", "rmdata", "rminode", "rmbit"} =>
          op.ino \notin ReservedInos /\ NoEntry(op.ino)
    /\ op.pc \in {"rollback", "rmdata"} /\ op.blk # NoBlock => Unused(op.blk)

CallInv == MakeInv /\ RemoveInv

\* The mirror of group 0's descriptor is what the disk has from the moment a call
\* has changed that descriptor to the moment it writes the mirror back.
MirrorInv ==
    op.pc \in {"block", "data", "inode", "entry", "nlink", "used", "rmlink", "rmused"}
        /\ GroupOf(op.ino) = 0 => mirror = gd[0]

\* A step that leaves the entries alone, and of the inodes that have a name, of
\* their bits and of the blocks of the directories, leaves the disk sound.
LEMMA DiskFrame ==
  ASSUME TypeOK, DiskInv, ents' = ents, ~astray, ~astray',
         \A i \in Inos : i = RootIno \/ ~NoEntry(i) =>
             itab'[i].kind = itab[i].kind /\ itab'[i].blk = itab[i].blk,
         \A i \in ibmap : i \in ReservedInos \/ ~NoEntry(i) => i \in ibmap',
         \A b \in bbmap : b \in bbmap' \/ Unused(b)
  PROVE  /\ DiskInv'
         /\ \A i \in Inos : LiveDir(i)' <=> LiveDir(i)
         /\ \A b : Unused(b) => Unused(b)'
         /\ \A i : NoEntry(i)' <=> NoEntry(i)
<1>t. \A e \in ents : e.ino \in Inos /\ e.dir \in Inos
  BY DEF TypeOK, Entry
<1>1. \A i \in Inos : LiveDir(i)' <=> LiveDir(i)
  BY DEF LiveDir, NoEntry
<1>2. \A i \in Inos : LiveDir(i) => itab'[i].blk = itab[i].blk
  BY DEF LiveDir, NoEntry
<1>3. \A b : Unused(b) => Unused(b)'
  BY <1>1, <1>2 DEF Unused
<1>4. \A i : NoEntry(i)' <=> NoEntry(i)
  BY DEF NoEntry
<1>5. \A e \in ents : itab'[e.ino].kind = itab[e.ino].kind /\ itab'[e.ino].blk = itab[e.ino].blk
                      /\ (e.ino \in ibmap => e.ino \in ibmap')
  BY <1>t DEF NoEntry
<1>6. RootInv'
  <2>1. itab'[RootIno].kind = itab[RootIno].kind
    BY Constants
  <2> QED BY <2>1 DEF DiskInv, RootInv
<1>7. NamesInv'
  <2>1. \A e \in ents : LiveDir(e.dir)'
    BY <1>1, <1>t DEF DiskInv, NamesInv
  <2> QED BY <1>5, <2>1 DEF DiskInv, NamesInv
<1>8. EntriesValid'
  BY <1>5 DEF DiskInv, EntriesValid
<1>9. DirBlocksOwned'
  <2> SUFFICES ASSUME NEW i \in Inos, LiveDir(i)'
               PROVE  /\ itab'[i].blk \in bbmap'
                      /\ \A j \in Inos \ {i} : LiveDir(j)' => itab'[j].blk # itab'[i].blk
    BY DEF DirBlocksOwned
  <2>1. LiveDir(i) /\ itab'[i].blk = itab[i].blk
    BY <1>1, <1>2
  <2>2. itab[i].blk \in bbmap /\ ~Unused(itab[i].blk)
    BY <2>1 DEF DiskInv, DirBlocksOwned, Unused
  <2>3. itab'[i].blk \in bbmap'
    BY <2>1, <2>2
  <2>4. \A j \in Inos \ {i} : LiveDir(j)' => itab'[j].blk # itab'[i].blk
    BY <1>1, <1>2, <2>1 DEF DiskInv, DirBlocksOwned
  <2> QED BY <2>3, <2>4
<1> QED BY <1>1, <1>3, <1>4, <1>6, <1>7, <1>8, <1>9 DEF DiskInv

\* What the ways to leave a step do to the call record.
LEMMA OpEffects ==
  ASSUME TypeOK
  PROVE  /\ \A p : Goto(p) => /\ op'.pc = p /\ op'.dir = op.dir /\ op'.name = op.name
                              /\ op'.kind = op.kind /\ op'.ino = op.ino /\ op'.blk = op.blk
         /\ NextGroup => /\ op'.pc = "ialloc" /\ op'.dir = op.dir /\ op'.name = op.name
                         /\ op'.kind = op.kind /\ op'.ino = op.ino /\ op'.blk = op.blk
         /\ Done => op'.pc = "idle"
<1>1. op \in OpType
  BY DEF TypeOK
<1> QED BY <1>1, IdleType DEF Goto, NextGroup, Done, OpType

\* A call that is not there, or that has nothing left to say, has no claims.
LEMMA IdleCall ==
  ASSUME op'.pc \in {"idle", "nlink", "used", "rmgd", "rmlink", "rmused"}
  PROVE  CallInv'
  BY DEF CallInv, MakeInv, RemoveInv

\* The tree does not come back from having gone astray.
LEMMA AstrayStays ==
  ASSUME TypeOK, [Next]_vars, ~astray'
  PROVE  ~astray
<1>1. Ok \/ Fault => astray' = astray
  BY DEF Ok, Fault
<1>2. \A d : ParentLink(d) => astray' = astray
  BY <1>1 DEF ParentLink
<1>3. \A n : CountDirs(n) => astray' = astray
  BY <1>1 DEF CountDirs
<1>4. WriteInode \/ AddEntry => astray' = astray \/ astray' = TRUE
  BY <1>1 DEF WriteInode, AddEntry
<1>5. \A d, n, k : Make(d, n, k) => ~astray
  BY DEF Make
<1>6. \A e : Remove(e) => ~astray
  BY DEF Remove
<1>7. UncountDir => astray' = astray
  BY <1>1, <1>3 DEF UncountDir
<1> QED
  BY <1>1, <1>2, <1>3, <1>4, <1>5, <1>6, <1>7
  DEF Next, ScanEnd, AllocBit, AllocGd, NewBlock, WriteData, Rollback, WriteParent,
      CountNewDir, RemoveEntry, FreeData, DeleteInode, FreeBit, FreeGd, UnlinkParent,
      PowerCycle, Lost, vars

\* One step that does not lead the tree astray keeps the disk and the call sound.
LEMMA StepEntries ==
  ASSUME TypeOK, TypeOK', DiskInv, CallInv, [Next]_vars, ~astray, ~astray'
  PROVE  DiskInv' /\ CallInv'
<1>t. /\ itab \in [Inos -> InodeType] /\ ents \subseteq Entry /\ ibmap \subseteq Inos
      /\ bbmap \subseteq Blocks
  BY DEF TypeOK
<1>f. op.dir \in Inos /\ op.ino \in Inos /\ op.kind \in {"file", "dir"}
  BY DEF TypeOK, OpType
<1>e. \A e \in ents : e.ino \in Inos /\ e.dir \in Inos
  BY <1>t DEF Entry
<1>g. \A p : Goto(p) => /\ op'.pc = p /\ op'.dir = op.dir /\ op'.name = op.name
                       /\ op'.kind = op.kind /\ op'.ino = op.ino /\ op'.blk = op.blk
  BY OpEffects
<1>n. NextGroup => /\ op'.pc = "ialloc" /\ op'.dir = op.dir /\ op'.name = op.name
                   /\ op'.kind = op.kind /\ op'.ino = op.ino /\ op'.blk = op.blk
  BY OpEffects
<1>d. Done => op'.pc = "idle"
  BY OpEffects
<1>m. DiskInv /\ MakeInv /\ RemoveInv
  BY DEF CallInv
\* A step of a call that changes nothing on the disk but the counts.
<1>q. ASSUME UNCHANGED <<ents, itab, ibmap, bbmap>>
      PROVE  /\ DiskInv'
             /\ \A i \in Inos : LiveDir(i)' <=> LiveDir(i)
             /\ \A b : Unused(b) => Unused(b)'
             /\ \A i : NoEntry(i)' <=> NoEntry(i)
  BY <1>q, DiskFrame
<1>1. ASSUME NEW d \in Inos, NEW n \in Names, NEW k \in {"file", "dir"}, Make(d, n, k)
      PROVE  DiskInv' /\ CallInv'
  <2>1. UNCHANGED <<ents, itab, ibmap, bbmap>>
    BY <1>1 DEF Make, disk
  <2>2. op'.pc = "ialloc" /\ op'.dir = d /\ op'.name = n /\ op'.blk = NoBlock
    BY <1>1 DEF Make, IdleOp
  <2>3. LiveDir(d)' /\ Lookup(d, n)' = {}
    BY <1>1, <1>q, <2>1 DEF Make, Lookup
  <2>4. CallInv'
    BY <2>2, <2>3 DEF CallInv, MakeInv, RemoveInv, LiveDir, Lookup
  <2> QED BY <1>q, <2>1, <2>4
<1>2. CASE ScanEnd \/ CountNewDir \/ FreeGd \/ UncountDir \/ PowerCycle
  <2>1. UNCHANGED <<ents, itab, ibmap, bbmap>>
    BY <1>2 DEF ScanEnd, CountNewDir, FreeGd, UncountDir, PowerCycle, disk
  <2>2. Done \/ Goto("rmlink")
    BY <1>2 DEF ScanEnd, CountNewDir, FreeGd, UncountDir, PowerCycle
  <2> QED BY <1>q, <1>d, <1>g, <2>1, <2>2, IdleCall
<1>3. CASE AllocBit
  <2>1. UNCHANGED <<ents, itab, bbmap>> /\ ibmap \subseteq ibmap' /\ op.pc = "ialloc"
    BY <1>3 DEF AllocBit, At
  <2>2. /\ DiskInv'
        /\ \A i \in Inos : LiveDir(i)' <=> LiveDir(i)
        /\ \A i : NoEntry(i)' <=> NoEntry(i)
    BY <2>1, DiskFrame
  <2>o. op'.dir = op.dir /\ op'.name = op.name /\ op'.blk = op.blk
    <3>1. NextGroup \/ \E i : op' = [op EXCEPT !.pc = "igd", !.ino = i]
      BY <1>3 DEF AllocBit
    <3>2. op \in OpType
      BY DEF TypeOK
    <3>3. ASSUME NEW i, op' = [op EXCEPT !.pc = "igd", !.ino = i]
          PROVE  op'.dir = op.dir /\ op'.name = op.name /\ op'.blk = op.blk
      BY <3>2, <3>3 DEF OpType
    <3> QED BY <1>n, <3>1, <3>3
  <2>3. LiveDir(op.dir)' /\ Lookup(op.dir, op.name)' = {} /\ op'.blk = NoBlock
    BY <1>f, <1>m, <2>1, <2>2, <2>o DEF MakeInv, Lookup
  <2>4. CASE NextGroup
    BY <1>n, <2>2, <2>3, <2>4 DEF CallInv, MakeInv, RemoveInv
  <2>5. ASSUME NEW i \in Lowest(GroupInos(ScanGroup) \ ibmap),
               op' = [op EXCEPT !.pc = "igd", !.ino = i], ibmap' = ibmap \cup {i}
        PROVE  CallInv'
    <3>1. i \in Inos /\ i \notin ibmap
      BY DEF Lowest, GroupInos
    <3>2. i \notin ReservedInos /\ NoEntry(i)
      BY <1>m, <3>1 DEF DiskInv, RootInv, EntriesValid, NoEntry
    <3>3. op'.pc = "igd" /\ op'.ino = i
      BY <2>5 DEF TypeOK, OpType
    <3>4. NoEntry(op.ino)' /\ op'.ino \in ibmap'
      BY <2>2, <2>5, <3>2, <3>3
    <3> QED BY <2>3, <3>2, <3>3, <3>4 DEF CallInv, MakeInv, RemoveInv
  <2> QED BY <1>3, <2>2, <2>4, <2>5 DEF AllocBit
<1>4. CASE AllocGd
  <2>1. UNCHANGED <<ents, itab, ibmap, bbmap>> /\ op.pc = "igd"
    BY <1>4 DEF AllocGd, At
  <2>2. \/ op'.pc = "ialloc"
        \/ op'.pc = "block" /\ op.kind = "dir"
        \/ op'.pc = "inode" /\ op.kind = "file"
    BY <1>4, <1>f, <1>g, <1>n DEF AllocGd
  <2>3. op'.dir = op.dir /\ op'.name = op.name /\ op'.kind = op.kind /\ op'.ino = op.ino
        /\ op'.blk = op.blk
    BY <1>4, <1>g, <1>n DEF AllocGd
  <2>4. LiveDir(op.dir)' /\ Lookup(op.dir, op.name)' = {} /\ NoEntry(op.ino)'
        /\ op.ino \in ibmap' /\ op.ino \notin ReservedInos /\ op.blk = NoBlock
    BY <1>f, <1>m, <1>q, <2>1, <2>3 DEF MakeInv, Lookup
  <2>5. CallInv'
    BY <2>2, <2>3, <2>4 DEF CallInv, MakeInv, RemoveInv
  <2> QED BY <1>q, <2>1, <2>5
<1>5. CASE NewBlock
  <2>1. UNCHANGED <<ents, itab, ibmap>> /\ op.pc = "block" /\ bbmap \subseteq bbmap'
    BY <1>5 DEF NewBlock, At
  <2>2. /\ DiskInv'
        /\ \A i \in Inos : LiveDir(i)' <=> LiveDir(i)
        /\ \A b : Unused(b) => Unused(b)'
        /\ \A i : NoEntry(i)' <=> NoEntry(i)
    BY <2>1, DiskFrame
  <2>o. op'.dir = op.dir /\ op'.name = op.name /\ op'.ino = op.ino /\ op'.kind = op.kind
    <3>1. Goto("rmbit") \/ \E b : op' = [op EXCEPT !.pc = "data", !.blk = b]
      BY <1>5 DEF NewBlock
    <3>2. op \in OpType
      BY DEF TypeOK
    <3>3. ASSUME NEW b, op' = [op EXCEPT !.pc = "data", !.blk = b]
          PROVE  op'.dir = op.dir /\ op'.name = op.name /\ op'.ino = op.ino /\ op'.kind = op.kind
      BY <3>2, <3>3 DEF OpType
    <3> QED BY <1>g, <3>1, <3>3
  <2>3. LiveDir(op.dir)' /\ Lookup(op.dir, op.name)' = {} /\ NoEntry(op.ino)'
        /\ op.ino \in ibmap' /\ op.ino \notin ReservedInos /\ op.blk = NoBlock
    BY <1>f, <1>m, <2>1, <2>2, <2>o DEF MakeInv, Lookup
  <2>4. CASE Goto("rmbit")
    BY <1>g, <2>2, <2>3, <2>4 DEF CallInv, MakeInv, RemoveInv
  <2>5. ASSUME NEW b \in Blocks \ bbmap, op' = [op EXCEPT !.pc = "data", !.blk = b],
               bbmap' = bbmap \cup {b}
        PROVE  CallInv'
    <3>1. op'.pc = "data" /\ op'.blk = b
      BY <2>5 DEF TypeOK, OpType
    <3>2. Unused(b)'
      BY <1>m, <2>2 DEF DiskInv, DirBlocksOwned, Unused
    <3>3. op.kind = "dir"
      BY <1>m, <2>1 DEF MakeInv
    <3>4. op'.blk \in bbmap' /\ Unused(op.blk)'
      BY <2>5, <3>1, <3>2
    <3> QED BY <2>o, <2>3, <3>1, <3>3, <3>4 DEF CallInv, MakeInv, RemoveInv
  <2> QED BY <1>5, <2>2, <2>4, <2>5 DEF NewBlock
<1>6. CASE WriteData
  <2>1. UNCHANGED <<ents, itab, ibmap, bbmap>> /\ op.pc = "data"
    BY <1>6 DEF WriteData, At, disk
  <2>2. op'.pc \in {"inode", "rollback"} /\ op'.dir = op.dir /\ op'.name = op.name
        /\ op'.kind = op.kind /\ op'.ino = op.ino /\ op'.blk = op.blk
    BY <1>6, <1>g DEF WriteData
  <2>3. LiveDir(op.dir)' /\ Lookup(op.dir, op.name)' = {} /\ NoEntry(op.ino)'
        /\ op.ino \in ibmap' /\ op.ino \notin ReservedInos /\ op.blk \in bbmap'
        /\ Unused(op.blk)' /\ op.kind = "dir"
    BY <1>f, <1>m, <1>q, <2>1, <2>2 DEF MakeInv, Lookup
  <2>4. CallInv'
    BY <2>2, <2>3 DEF CallInv, MakeInv, RemoveInv
  <2> QED BY <1>q, <2>1, <2>4
<1>7. CASE WriteInode
  <2> DEFINE new == [kind |-> op.kind, nlink |-> IF op.kind = "dir" THEN 2 ELSE 1,
                     blk |-> op.blk]
  <2>1. UNCHANGED <<ents, ibmap, bbmap>> /\ op.pc = "inode" /\ Goto("entry")
    BY <1>7 DEF WriteInode, At
  <2>2. itab' = [itab EXCEPT ![op.ino] = new]
    BY <1>7 DEF WriteInode
  <2>3. op.ino \in ibmap /\ op.ino \notin ReservedInos /\ NoEntry(op.ino)
        /\ LiveDir(op.dir) /\ Lookup(op.dir, op.name) = {}
    BY <1>m, <2>1 DEF MakeInv
  <2>4. \A i \in Inos : i # op.ino => itab'[i] = itab[i]
    BY <1>t, <2>2
  <2>5. itab'[op.ino].kind = op.kind /\ itab'[op.ino].blk = op.blk
    BY <1>f, <1>t, <2>2
  <2>6. \A i \in Inos : i = RootIno \/ ~NoEntry(i) =>
          itab'[i].kind = itab[i].kind /\ itab'[i].blk = itab[i].blk
    BY <2>3, <2>4 DEF ReservedInos
  <2>7. /\ DiskInv'
        /\ \A i \in Inos : LiveDir(i)' <=> LiveDir(i)
        /\ \A b : Unused(b) => Unused(b)'
        /\ \A i : NoEntry(i)' <=> NoEntry(i)
    BY <2>1, <2>6, DiskFrame
  <2>8. op'.pc = "entry" /\ op'.dir = op.dir /\ op'.name = op.name
        /\ op'.kind = op.kind /\ op'.ino = op.ino /\ op'.blk = op.blk
    BY <1>g, <2>1
  <2>9. LiveDir(op.dir)' /\ Lookup(op.dir, op.name)' = {} /\ NoEntry(op.ino)'
    BY <1>f, <2>1, <2>3, <2>7, <2>8 DEF Lookup
  <2>10. op.kind = "dir" => op.blk \in bbmap' /\ Unused(op.blk)'
    BY <1>m, <2>1, <2>7, <2>8 DEF MakeInv
  <2>11. op.kind = "file" => op.blk = NoBlock
    BY <1>m, <2>1 DEF MakeInv
  <2>12. CallInv'
    BY <2>1, <2>3, <2>5, <2>8, <2>9, <2>10, <2>11 DEF CallInv, MakeInv, RemoveInv
  <2> QED BY <2>7, <2>12
\* The entry that links the new inode.
<1>8. CASE AddEntry
  <2> DEFINE new == [dir |-> op.dir, name |-> op.name, ino |-> op.ino]
  <2>1. UNCHANGED <<itab, ibmap, bbmap>> /\ op.pc = "entry"
    BY <1>8 DEF AddEntry, At
  <2>u. CASE ents' = ents
    <3>1. (Goto("rollback") /\ op.kind = "dir") \/ (Goto("rmbit") /\ op.kind # "dir")
      <4>1. new \notin ents'
        BY <1>m, <2>1, <2>u DEF MakeInv, NoEntry
      <4>2. Goto(IF op.kind = "dir" THEN "rollback" ELSE "rmbit")
        BY <1>8, <4>1 DEF AddEntry
      <4>3. CASE op.kind = "dir"
        BY <4>2, <4>3
      <4>4. CASE op.kind # "dir"
        BY <4>2, <4>4
      <4> QED BY <4>3, <4>4
    <3>2. op.ino \notin ReservedInos /\ NoEntry(op.ino)
          /\ (op.kind = "dir" => Unused(op.blk))
      BY <1>m, <2>1 DEF MakeInv
    <3>3. op'.pc \in {"rollback", "rmbit"} /\ op'.ino = op.ino /\ op'.blk = op.blk
          /\ (op'.pc = "rollback" => op.kind = "dir")
      BY <1>g, <3>1
    <3>4. NoEntry(op.ino)' /\ (op.kind = "dir" => Unused(op.blk)')
      BY <1>q, <2>1, <2>u, <3>2, <3>3
    <3>5. CallInv'
      BY <3>2, <3>3, <3>4 DEF CallInv, MakeInv, RemoveInv
    <3> QED BY <1>q, <2>1, <2>u, <3>5
  <2>w. ASSUME ents' # ents PROVE ents' = ents \cup {new} /\ (Goto("nlink") \/ Done)
    BY <1>8, <2>w DEF AddEntry
  <2> SUFFICES ASSUME ents' # ents PROVE DiskInv' /\ CallInv'
    BY <2>u
  <2>2. ents' = ents \cup {new} /\ (Goto("nlink") \/ Done)
    BY <2>w
  <2>3. CallInv'
    BY <1>g, <1>d, <2>2, IdleCall
  <2>4. /\ op.ino \in ibmap /\ op.ino \notin ReservedInos /\ NoEntry(op.ino)
        /\ LiveDir(op.dir) /\ Lookup(op.dir, op.name) = {}
        /\ itab[op.ino].kind = op.kind /\ itab[op.ino].blk = op.blk
        /\ (op.kind = "file" => op.blk = NoBlock)
        /\ (op.kind = "dir" => op.blk \in bbmap /\ Unused(op.blk))
    BY <1>m, <2>1 DEF MakeInv
  <2>5. new.dir = op.dir /\ new.name = op.name /\ new.ino = op.ino
    OBVIOUS
  <2>6. \A e : e \in ents' <=> e \in ents \/ e = new
    BY <2>2
  <2> HIDE DEF new
  <2>7. \A i \in Inos : LiveDir(i)' <=> LiveDir(i) \/ (i = op.ino /\ op.kind = "dir")
    BY <2>1, <2>4, <2>5, <2>6 DEF LiveDir
  <2>8. RootInv'
    BY <1>m, <2>1, <2>4, <2>5, <2>6 DEF DiskInv, RootInv
  <2>9. NamesInv'
    <3>1. \A e, f \in ents' : e.dir = f.dir /\ e.name = f.name => e = f
      BY <1>m, <2>4, <2>5, <2>6 DEF DiskInv, NamesInv, Lookup
    <3>2. \A e \in ents' : LiveDir(e.dir)'
      BY <1>e, <1>f, <1>m, <2>4, <2>5, <2>6, <2>7 DEF DiskInv, NamesInv
    <3>3. \A e \in ents' : itab'[e.ino].kind = "file" => itab'[e.ino].blk = NoBlock
      BY <1>m, <2>1, <2>4, <2>5, <2>6 DEF DiskInv, NamesInv
    <3> QED BY <3>1, <3>2, <3>3 DEF NamesInv
  <2>10. EntriesValid'
    <3>1. \A e \in ents' : e.ino \in ibmap' /\ itab'[e.ino].kind # "free"
      BY <1>f, <1>m, <2>1, <2>4, <2>5, <2>6 DEF DiskInv, EntriesValid
    <3>2. \A e, f \in ents' : e.ino = f.ino => e = f
      BY <1>m, <2>4, <2>5, <2>6 DEF DiskInv, EntriesValid, NoEntry
    <3> QED BY <3>1, <3>2 DEF EntriesValid
  <2>11. DirBlocksOwned'
    <3> SUFFICES ASSUME NEW i \in Inos, LiveDir(i)'
                 PROVE  /\ itab[i].blk \in bbmap
                        /\ \A j \in Inos \ {i} : LiveDir(j)' => itab[j].blk # itab[i].blk
      BY <2>1 DEF DirBlocksOwned
    <3>1. itab[i].blk \in bbmap
      BY <1>m, <2>4, <2>7 DEF DiskInv, DirBlocksOwned
    <3>2. \A j \in Inos \ {i} : LiveDir(j)' => itab[j].blk # itab[i].blk
      BY <1>m, <2>4, <2>7 DEF DiskInv, DirBlocksOwned, Unused
    <3> QED BY <3>1, <3>2
  <2> QED BY <2>3, <2>8, <2>9, <2>10, <2>11 DEF DiskInv
<1>9. CASE Rollback \/ FreeData
  <2>1. /\ UNCHANGED <<ents, itab, ibmap>> /\ op.pc \in {"rollback", "rmdata"}
        /\ Goto("rmbit") \/ Goto("rminode")
    BY <1>9 DEF Rollback, FreeData, At
  <2>2. bbmap' = bbmap \/ bbmap' = bbmap \ {op.blk}
    BY <1>9 DEF Rollback, FreeData, FreeBlockOf
  <2>3. bbmap' = bbmap \/ Unused(op.blk)
    <3>1. CASE op.blk = NoBlock
      <4>1. NoBlock \notin Blocks
        BY NamespaceAssumption DEF NoBlock, Blocks, Groups
      <4> QED BY <1>t, <2>2, <3>1, <4>1
    <3>2. CASE op.blk # NoBlock
      BY <1>m, <2>1, <3>2 DEF RemoveInv
    <3> QED BY <3>1, <3>2
  <2>4. DiskInv' /\ \A i : NoEntry(i)' <=> NoEntry(i)
    BY <2>1, <2>2, <2>3, DiskFrame
  <2>5. op'.pc \in {"rmbit", "rminode"} /\ op'.ino = op.ino /\ op.ino \notin ReservedInos
        /\ NoEntry(op.ino)'
    BY <1>g, <1>m, <2>1, <2>4 DEF RemoveInv
  <2>6. CallInv'
    BY <2>5 DEF CallInv, MakeInv, RemoveInv
  <2> QED BY <2>4, <2>6
<1>10. CASE WriteParent \/ UnlinkParent
  <2>1. UNCHANGED <<ents, ibmap, bbmap>> /\ (Goto("used") \/ Goto("rmused"))
    BY <1>10 DEF WriteParent, UnlinkParent
  <2>2. ParentLink(1) \/ ParentLink(-1)
    BY <1>10 DEF WriteParent, UnlinkParent
  <2>3. \A i \in Inos : itab'[i].kind = itab[i].kind /\ itab'[i].blk = itab[i].blk
    <3>1. itab[op.dir] \in InodeType
      BY <1>f, <1>t
    <3> QED BY <1>f, <1>t, <2>2, <3>1 DEF ParentLink, InodeType
  <2> QED BY <1>g, <2>1, <2>3, DiskFrame, IdleCall
<1>11. ASSUME NEW e \in ents, Remove(e)
      PROVE  DiskInv' /\ CallInv'
  <2>1. UNCHANGED <<ents, itab, ibmap, bbmap>>
    BY <1>11 DEF Remove, disk
  <2>2. op'.pc = "rmentry" /\ op'.dir = e.dir /\ op'.name = e.name /\ op'.ino = e.ino
        /\ op'.kind = itab[e.ino].kind /\ op'.blk = itab[e.ino].blk
    BY <1>11 DEF Remove, IdleOp
  <2>3. e = [dir |-> e.dir, name |-> e.name, ino |-> e.ino]
    BY <1>t DEF Entry
  <2>4. \A x \in ents : x.dir # e.ino
    BY <1>11, <1>m, <1>e DEF Remove, DiskInv, NamesInv, RootInv, LiveDir, ReservedInos
  <2>5. CallInv'
    BY <2>1, <2>2, <2>3, <2>4 DEF CallInv, MakeInv, RemoveInv
  <2> QED BY <1>q, <2>1, <2>5
\* The entry that goes.
<1>12. CASE RemoveEntry
  <2> DEFINE old == [dir |-> op.dir, name |-> op.name, ino |-> op.ino]
  <2>1. UNCHANGED <<itab, ibmap, bbmap>> /\ op.pc = "rmentry"
        /\ (Goto("rmdata") \/ Done)
    BY <1>12 DEF RemoveEntry, At
  <2>2. old \in ents /\ itab[op.ino].kind = op.kind /\ itab[op.ino].blk = op.blk
        /\ \A x \in ents : x.dir # op.ino
    BY <1>m, <2>1 DEF RemoveInv
  <2>3. old.dir = op.dir /\ old.name = op.name /\ old.ino = op.ino
    OBVIOUS
  <2> HIDE DEF old
  <2>4. Lookup(op.dir, op.name) = {old}
    BY <1>m, <2>2, <2>3 DEF DiskInv, NamesInv, Lookup
  <2>5. CASE ents' = ents /\ Done
    BY <1>d, <1>q, <2>1, <2>5, IdleCall
  <2>6. CASE ents' = ents \ {old}
    <3>1. op.ino \notin ReservedInos /\ op.ino # RootIno
      BY <1>m, <2>2, <2>3 DEF DiskInv, RootInv, ReservedInos
    <3>2. \A e \in ents : e \in ents' <=> e.ino # op.ino
      BY <1>m, <2>2, <2>3, <2>6 DEF DiskInv, EntriesValid
    <3>3. \A i \in Inos : LiveDir(i)' <=> LiveDir(i) /\ i # op.ino
      BY <2>1, <2>6, <3>1, <3>2 DEF LiveDir
    <3>4. RootInv'
      BY <1>m, <2>1, <2>6 DEF DiskInv, RootInv
    <3>5. NamesInv'
      <4>1. \A e \in ents' : LiveDir(e.dir)'
        BY <1>e, <1>m, <2>2, <2>6, <3>3 DEF DiskInv, NamesInv
      <4> QED BY <1>m, <2>1, <2>6, <4>1 DEF DiskInv, NamesInv
    <3>6. EntriesValid'
      BY <1>m, <2>1, <2>6 DEF DiskInv, EntriesValid
    <3>7. DirBlocksOwned'
      BY <1>m, <2>1, <3>3 DEF DiskInv, DirBlocksOwned
    <3>8. CASE Done
      BY <1>d, <3>4, <3>5, <3>6, <3>7, <3>8, IdleCall DEF DiskInv
    <3>9. CASE Goto("rmdata")
      <4>1. op'.pc = "rmdata" /\ op'.ino = op.ino /\ op'.blk = op.blk
        BY <1>g, <3>9
      <4>2. NoEntry(op.ino)'
        BY <2>6, <3>2, <4>1 DEF NoEntry
      <4>3. op.blk # NoBlock => Unused(op.blk)'
        <5>1. CASE op.kind = "file"
          BY <1>m, <2>2, <2>3, <5>1 DEF DiskInv, NamesInv
        <5>2. CASE op.kind = "dir"
          <6>1. LiveDir(op.ino)
            BY <2>2, <2>3, <5>2 DEF LiveDir
          <6>2. \A j \in Inos \ {op.ino} : LiveDir(j) => itab[j].blk # op.blk
            BY <1>f, <1>m, <2>2, <6>1 DEF DiskInv, DirBlocksOwned
          <6> QED BY <2>1, <3>3, <4>1, <6>2 DEF Unused
        <5> QED BY <1>f, <5>1, <5>2
      <4>4. CallInv'
        BY <3>1, <4>1, <4>2, <4>3 DEF CallInv, MakeInv, RemoveInv
      <4> QED BY <3>4, <3>5, <3>6, <3>7, <4>4 DEF DiskInv
    <3> QED BY <2>1, <3>8, <3>9
  <2> QED BY <1>12, <2>4, <2>5, <2>6 DEF RemoveEntry
<1>13. CASE DeleteInode
  <2>1. UNCHANGED <<ents, ibmap, bbmap>> /\ op.pc = "rminode" /\ (Goto("rmbit") \/ Done)
    BY <1>13 DEF DeleteInode, At
  <2>2. op.ino \notin ReservedInos /\ NoEntry(op.ino)
    BY <1>m, <2>1 DEF RemoveInv
  <2>3. \A i \in Inos : i # op.ino => itab'[i] = itab[i]
    BY <1>13, <1>t DEF DeleteInode
  <2>4. \A i \in Inos : i = RootIno \/ ~NoEntry(i) =>
          itab'[i].kind = itab[i].kind /\ itab'[i].blk = itab[i].blk
    BY <2>2, <2>3 DEF ReservedInos
  <2>5. DiskInv' /\ \A i : NoEntry(i)' <=> NoEntry(i)
    BY <2>1, <2>4, DiskFrame
  <2>6. CASE Done
    BY <1>d, <2>5, <2>6, IdleCall
  <2>7. CASE Goto("rmbit")
    <3>1. op'.pc = "rmbit" /\ op'.ino = op.ino /\ NoEntry(op.ino)'
      BY <1>g, <2>2, <2>5, <2>7
    <3> QED BY <2>2, <2>5, <3>1 DEF CallInv, MakeInv, RemoveInv
  <2> QED BY <2>1, <2>6, <2>7
<1>14. CASE FreeBit
  <2>1. UNCHANGED <<ents, itab, bbmap>> /\ op.pc = "rmbit" /\ (Goto("rmgd") \/ Done)
        /\ ibmap \ {op.ino} \subseteq ibmap'
    BY <1>14 DEF FreeBit, At
  <2>2. op.ino \notin ReservedInos /\ NoEntry(op.ino)
    BY <1>m, <2>1 DEF RemoveInv
  <2>3. \A i \in ibmap : i \in ReservedInos \/ ~NoEntry(i) => i \in ibmap'
    BY <2>1, <2>2
  <2>4. DiskInv'
    BY <2>1, <2>3, DiskFrame
  <2> QED BY <1>d, <1>g, <2>1, <2>4, IdleCall
<1>15. CASE Lost \/ UNCHANGED vars
  <2>1. UNCHANGED <<ents, itab, ibmap, bbmap, op>>
    BY <1>15 DEF Lost, vars, disk
  <2>2. CallInv'
    BY <1>m, <2>1 DEF CallInv, MakeInv, RemoveInv, LiveDir, Lookup, NoEntry, Unused
  <2> QED BY <1>q, <2>1, <2>2
<1> QED
  BY <1>1, <1>2, <1>3, <1>4, <1>5, <1>6, <1>7, <1>8, <1>9, <1>10, <1>11, <1>12,
     <1>13, <1>14, <1>15 DEF Next

\* What mkfs leaves is sound.
LEMMA InitEntries == Init => DiskInv /\ CallInv
<1> SUFFICES ASSUME Init PROVE DiskInv /\ CallInv
  OBVIOUS
<1>1. op.pc = "idle" /\ ents = {} /\ ibmap = ReservedInos
  BY IdleType DEF Init
<1>2. CallInv
  BY <1>1 DEF CallInv, MakeInv, RemoveInv
<1>3. itab[RootIno].kind = "dir" /\ itab[RootIno].blk = RootBlock /\ RootBlock \in bbmap
  BY Constants DEF Init
<1>4. \A i \in Inos : LiveDir(i) => i = RootIno
  BY <1>1 DEF LiveDir
<1>5. RootInv /\ NamesInv /\ EntriesValid
  BY <1>1, <1>3 DEF RootInv, NamesInv, EntriesValid
<1>6. DirBlocksOwned
  BY <1>3, <1>4 DEF DirBlocksOwned
<1> QED BY <1>2, <1>5, <1>6 DEF DiskInv

\* At every moment of every call, through failing reads and writes, and wherever
\* the power goes, the disk is sound and the call knows what it holds, until the
\* tree goes astray: by mkdir of a name that is there (src/fs/dir.c:255), a create
\* or an rmdir that could not read the directory (inode.c:257, 534), or a new
\* inode or entry whose failing write the code does not survive (inode.c:437).
LEMMA EntriesInv == Spec => [](TypeOK /\ (~astray => DiskInv /\ CallInv))
<1> DEFINE Sound == ~astray => DiskInv /\ CallInv
<1>1. Init => Sound
  BY InitEntries
<1>2. TypeOK /\ TypeOK' /\ Sound /\ [Next]_vars => Sound'
  BY StepEntries, AstrayStays
<1>3. Spec => []Sound
  <2> HIDE DEF Sound
  <2> QED BY <1>1, <1>2, TypeCorrect, PTL DEF Spec
<1> QED BY <1>3, TypeCorrect, PTL

\* Until the tree goes astray every directory entry leads to an inode that is
\* allocated and written, and no inode has two entries, whatever is on the disk
\* when the power goes: create writes the entry last, unlink and rmdir remove it
\* first.
THEOREM EntriesValidHolds == Spec => []EntriesValid
<1>1. (~astray => DiskInv /\ CallInv) => EntriesValid
  BY DEF DiskInv, EntriesValid
<1> QED BY <1>1, EntriesInv, PTL

\* Until the tree goes astray a directory that can be reached has its block to
\* itself, whatever is on the disk when the power goes: mkdir marks the block
\* before anything leads to it, rmdir frees it when nothing does any more.
THEOREM DirBlocksOwnedHolds == Spec => []DirBlocksOwned
<1>1. (~astray => DiskInv /\ CallInv) => DirBlocksOwned
  BY DEF DiskInv, DirBlocksOwned
<1> QED BY <1>1, EntriesInv, PTL

-----------------------------------------------------------------------------
(* The calls implement the abstract name space.                             *)

Leaf(e) == [dir |-> e.dir, name |-> e.name, ino |-> e.ino, kind |-> itab[e.ino].kind]

\* What a leaf of the tree says of its entry.
LEMMA LeafFields ==
  /\ Leaves = {Leaf(e) : e \in ents}
  /\ \A e : /\ Leaf(e).dir = e.dir /\ Leaf(e).name = e.name /\ Leaf(e).ino = e.ino
            /\ Leaf(e).kind = itab[e.ino].kind
  BY DEF Leaves, Leaf

\* A step that leaves the entries and the kinds of the inodes they lead to alone
\* does not show in the tree.
LEMMA SameTree ==
  ASSUME ents' = ents, \A e \in ents : itab'[e.ino].kind = itab[e.ino].kind
  PROVE  Leaves' = Leaves
  BY DEF Leaves

\* A step of a call is a step of the tree or does not show in it.
LEMMA StepTree ==
  ASSUME TypeOK, DiskInv, CallInv, [Next]_vars, ~astray, ~astray'
  PROVE  \/ \E e \in Tree!Leaf : Tree!Link(e)
         \/ \E e \in Leaves : Tree!Unlink(e)
         \/ UNCHANGED Leaves
<1>t. /\ itab \in [Inos -> InodeType] /\ ents \subseteq Entry
  BY DEF TypeOK
<1>f. op.dir \in Inos /\ op.ino \in Inos /\ op.name \in Names /\ op.kind \in {"file", "dir"}
  BY DEF TypeOK, OpType
<1>e. \A e \in ents : e.ino \in Inos /\ e.dir \in Inos /\ e.name \in Names
  BY <1>t DEF Entry
<1>m. DiskInv /\ MakeInv /\ RemoveInv
  BY DEF CallInv
<1>1. CASE AddEntry
  <2> DEFINE new == [dir |-> op.dir, name |-> op.name, ino |-> op.ino]
  <2>u. CASE ents' = ents
    BY <1>1, <2>u, SameTree DEF AddEntry
  <2> SUFFICES ASSUME ents' # ents PROVE \E e \in Tree!Leaf : Tree!Link(e)
    BY <2>u
  <2>1. itab' = itab /\ op.pc = "entry" /\ ents' = ents \cup {new}
    BY <1>1 DEF AddEntry, At
  <2>2. /\ op.ino \notin ReservedInos /\ NoEntry(op.ino)
        /\ LiveDir(op.dir) /\ Lookup(op.dir, op.name) = {}
        /\ itab[op.ino].kind = op.kind
    BY <1>m, <2>1 DEF MakeInv
  <2>3. new.dir = op.dir /\ new.name = op.name /\ new.ino = op.ino
    OBVIOUS
  <2> HIDE DEF new
  <2>4. Leaf(new) \in Tree!Leaf
    BY <1>f, <2>2, <2>3 DEF Leaf, Tree!Leaf
  <2>5. Leaves' = Leaves \cup {Leaf(new)}
    BY <2>1 DEF Leaves, Leaf
  <2>6. Tree!IsDir(Leaf(new).dir)
    <3>1. CASE op.dir = RootIno
      BY <2>3, <3>1, LeafFields DEF Tree!IsDir
    <3>2. ASSUME NEW e \in ents, e.ino = op.dir PROVE Tree!IsDir(Leaf(new).dir)
      <4>1. Leaf(e) \in Leaves /\ Leaf(e).ino = op.dir /\ Leaf(e).kind = "dir"
        BY <2>2, <3>2, LeafFields DEF LiveDir
      <4> QED BY <2>3, <4>1, LeafFields DEF Tree!IsDir
    <3> QED BY <2>2, <3>1, <3>2 DEF LiveDir
  <2>7. ASSUME NEW x \in Leaves
        PROVE  x.ino # op.ino /\ ~(x.dir = op.dir /\ x.name = op.name)
    <3>1. PICK e \in ents : x = Leaf(e)
      BY LeafFields
    <3> QED BY <2>2, <3>1, LeafFields DEF NoEntry, Lookup
  <2>8. Tree!Link(Leaf(new))
    BY <2>2, <2>3, <2>5, <2>6, <2>7, LeafFields DEF Tree!Link, ReservedInos
  <2> QED BY <2>4, <2>8
<1>2. CASE RemoveEntry
  <2> DEFINE old == [dir |-> op.dir, name |-> op.name, ino |-> op.ino]
  <2>1. itab' = itab /\ op.pc = "rmentry"
    BY <1>2 DEF RemoveEntry, At
  <2>2. old \in ents /\ \A x \in ents : x.dir # op.ino
    BY <1>m, <2>1 DEF RemoveInv
  <2>3. old.dir = op.dir /\ old.name = op.name /\ old.ino = op.ino
    OBVIOUS
  <2> HIDE DEF old
  <2>4. Lookup(op.dir, op.name) = {old}
    BY <1>m, <2>2, <2>3 DEF DiskInv, NamesInv, Lookup
  <2>5. CASE ents' = ents
    BY <2>1, <2>5, SameTree
  <2>6. CASE ents' = ents \ {old}
    <3>1. \A e \in ents : Leaf(e) = Leaf(old) => e = old
      <4>1. \A e \in ents : e.ino = old.ino => e = old
        BY <1>m, <2>2 DEF DiskInv, EntriesValid
      <4>2. \A e : Leaf(e) = Leaf(old) => e.ino = old.ino
        BY LeafFields
      <4> QED BY <4>1, <4>2
    <3>2. Leaves' = {Leaf(e) : e \in ents \ {old}}
      BY <2>1, <2>6 DEF Leaves, Leaf
    <3>3. Leaves' = Leaves \ {Leaf(old)}
      BY <2>2, <3>1, <3>2, LeafFields
    <3>4. \A x \in Leaves : x.dir # Leaf(old).ino
      BY <2>2, <2>3, LeafFields
    <3>5. Tree!Unlink(Leaf(old)) /\ Leaf(old) \in Leaves
      BY <2>2, <3>3, <3>4, LeafFields DEF Tree!Unlink
    <3> QED BY <3>5
  <2> QED BY <1>2, <2>4, <2>5, <2>6 DEF RemoveEntry
<1>3. CASE WriteInode \/ DeleteInode
  <2>1. ents' = ents /\ op.pc \in {"inode", "rminode"}
    BY <1>3 DEF WriteInode, DeleteInode, At
  <2>2. NoEntry(op.ino)
    BY <1>m, <2>1 DEF MakeInv, RemoveInv
  <2>3. \A i \in Inos : i # op.ino => itab'[i] = itab[i]
    BY <1>3, <1>t DEF WriteInode, DeleteInode
  <2> QED BY <1>e, <2>1, <2>2, <2>3, SameTree DEF NoEntry
<1>4. CASE WriteParent \/ UnlinkParent
  <2>1. ents' = ents /\ (ParentLink(1) \/ ParentLink(-1))
    BY <1>4 DEF WriteParent, UnlinkParent
  <2>2. itab[op.dir] \in InodeType
    BY <1>f, <1>t
  <2>3. \A i \in Inos : itab'[i].kind = itab[i].kind
    BY <1>f, <1>t, <2>1, <2>2 DEF ParentLink, InodeType
  <2> QED BY <1>e, <2>1, <2>3, SameTree
<1>5. ASSUME ~AddEntry, ~RemoveEntry, ~WriteInode, ~DeleteInode, ~WriteParent, ~UnlinkParent
      PROVE  UNCHANGED <<ents, itab>>
  BY <1>5 DEF Next, Make, ScanEnd, AllocBit, AllocGd, NewBlock, WriteData, Rollback,
              CountNewDir, Remove, FreeData, FreeBit, FreeGd, UncountDir, PowerCycle,
              Lost, vars, disk
<1> QED BY <1>1, <1>2, <1>3, <1>4, <1>5, SameTree

\* create, mkdir, unlink and rmdir implement the abstract name space: whatever
\* they write before and after, whatever of it fails and wherever the power goes,
\* the tree on the disk changes by one name at one instant of a call, until it
\* goes astray.
THEOREM TreeAtomicHolds == Spec => TreeAtomic
<1> DEFINE Sound == TypeOK /\ (~astray => DiskInv /\ CallInv)
<1>1. Init => Tree!Init
  BY DEF Init, Tree!Init, Leaves
<1>2. Sound /\ Sound' /\ [Next]_vars => [Tree!Next]_<<Leaves, astray>>
  <2> SUFFICES ASSUME Sound, Sound', [Next]_vars PROVE [Tree!Next]_<<Leaves, astray>>
    OBVIOUS
  <2>t. astray \in BOOLEAN /\ astray' \in BOOLEAN /\ TypeOK
    BY DEF TypeOK
  <2>1. CASE astray'
    BY <2>t, <2>1 DEF Tree!Next
  <2>2. CASE ~astray'
    <3>1. ~astray
      BY <2>2, <2>t, AstrayStays
    <3>2. DiskInv /\ CallInv
      BY <3>1
    <3>3. \/ \E e \in Tree!Leaf : Tree!Link(e)
          \/ \E e \in Leaves : Tree!Unlink(e)
          \/ UNCHANGED Leaves
      BY <2>2, <2>t, <3>1, <3>2, StepTree
    <3>4. astray = FALSE /\ astray' = FALSE
      BY <2>2, <2>t, <3>1
    <3> QED BY <3>3, <3>4 DEF Tree!Next
  <2> QED BY <2>1, <2>2
<1>3. Spec => []Sound
  BY EntriesInv
<1>4. Spec => Tree!Init /\ [][Tree!Next]_<<Leaves, astray>>
  <2> HIDE DEF Sound
  <2> QED BY <1>1, <1>2, <1>3, PTL DEF Spec
<1> QED BY <1>4 DEF TreeAtomic, Tree!Spec

-----------------------------------------------------------------------------
(* The mirror of group 0's descriptor.                                      *)

\* One step keeps the mirror at what the disk has while a call relies on it.
LEMMA StepMirror ==
  ASSUME TypeOK, MirrorInv, [Next]_vars
  PROVE  MirrorInv'
<1>t. op \in OpType /\ gd \in [Groups -> GdType]
  BY DEF TypeOK
<1>z. 0 \in Groups
  BY Constants
<1>g. \A p : Goto(p) => op'.pc = p /\ op'.ino = op.ino
  BY OpEffects
<1>i. ASSUME op'.pc \notin {"block", "data", "inode", "entry", "nlink", "used",
                            "rmlink", "rmused"}
      PROVE  MirrorInv'
  BY <1>i DEF MirrorInv
<1>d. Done \/ NextGroup => MirrorInv'
  BY <1>i, OpEffects
<1>w. ASSUME NEW g \in Groups, NEW d, WriteGd(g, d), mirror = gd[0] \/ g = 0
      PROVE  mirror' = gd'[0]
  BY <1>t, <1>w, <1>z DEF WriteGd
<1>1. ASSUME NEW d, NEW n, NEW k, Make(d, n, k) PROVE MirrorInv'
  BY <1>1, <1>i DEF Make, IdleOp
<1>2. ASSUME NEW e, Remove(e) PROVE MirrorInv'
  BY <1>2, <1>i DEF Remove, IdleOp
<1>3. CASE ScanEnd \/ CountNewDir \/ UncountDir \/ PowerCycle
  BY <1>3, <1>d DEF ScanEnd, CountNewDir, UncountDir, PowerCycle
<1>4. CASE AllocBit
  <2>1. NextGroup \/ \E i : op' = [op EXCEPT !.pc = "igd", !.ino = i]
    BY <1>4 DEF AllocBit
  <2>2. ASSUME NEW i, op' = [op EXCEPT !.pc = "igd", !.ino = i] PROVE op'.pc = "igd"
    BY <1>t, <2>2 DEF OpType
  <2> QED BY <1>d, <1>i, <2>1, <2>2
<1>5. CASE AllocGd \/ FreeGd
  <2>1. CASE Done \/ NextGroup
    BY <1>d, <2>1
  <2>2. ASSUME NEW d, WriteGd(GroupOf(op.ino), d), NEW p, Goto(p) PROVE MirrorInv'
    <3>1. GroupOf(op.ino) \in Groups
      BY <1>t, GroupOfIsGroup DEF OpType
    <3>2. op'.ino = op.ino
      BY <1>g, <2>2
    <3>3. GroupOf(op.ino) = 0 => mirror' = gd'[0]
      BY <1>w, <2>2, <3>1
    <3> QED BY <3>2, <3>3 DEF MirrorInv
  <2> QED BY <1>5, <2>1, <2>2 DEF AllocGd, FreeGd
<1>6. CASE NewBlock
  <2>1. op.pc = "block"
    BY <1>6 DEF NewBlock, At
  <2>2. CASE Goto("rmbit")
    BY <1>g, <1>i, <2>2
  <2>3. ASSUME NEW b \in Blocks, NEW d, WriteGd(b[1], d),
               op' = [op EXCEPT !.pc = "data", !.blk = b]
        PROVE  MirrorInv'
    <3>1. b[1] \in Groups
      BY <2>3 DEF Blocks
    <3>2. op'.ino = op.ino
      BY <1>t, <2>3 DEF OpType
    <3>3. GroupOf(op.ino) = 0 => mirror' = gd'[0]
      BY <1>w, <2>1, <2>3, <3>1 DEF MirrorInv
    <3> QED BY <3>2, <3>3 DEF MirrorInv
  <2> QED BY <1>6, <2>2, <2>3 DEF NewBlock
<1>7. CASE WriteData \/ WriteInode \/ AddEntry \/ WriteParent \/ UnlinkParent
  <2>1. /\ op.pc \in {"data", "inode", "entry", "nlink", "rmlink"}
        /\ UNCHANGED <<gd, mirror>>
        /\ Done \/ \E p : Goto(p)
    BY <1>7 DEF WriteData, WriteInode, AddEntry, WriteParent, UnlinkParent, At, disk
  <2> QED BY <1>d, <1>g, <2>1 DEF MirrorInv
<1>8. CASE Rollback \/ RemoveEntry \/ FreeData \/ DeleteInode \/ FreeBit
  <2>1. Done \/ \E p \in {"rmbit", "rmdata", "rminode", "rmgd"} : Goto(p)
    BY <1>8 DEF Rollback, RemoveEntry, FreeData, DeleteInode, FreeBit
  <2> QED BY <1>d, <1>g, <1>i, <2>1
<1>9. CASE Lost \/ UNCHANGED vars
  BY <1>9 DEF Lost, vars, disk, MirrorInv
<1> QED
  BY <1>1, <1>2, <1>3, <1>4, <1>5, <1>6, <1>7, <1>8, <1>9 DEF Next

\* Whatever fails and wherever the power goes, writing back the in-memory copy of
\* group 0's descriptor never changes a free count on the disk: the call that
\* writes it has refreshed it.
THEOREM MirrorFreshHolds == Spec => MirrorFresh
<1> DEFINE Fresh == op.pc \in {"used", "rmused"} =>
             \A g \in Groups : gd'[g].ifree = gd[g].ifree /\ gd'[g].bfree = gd[g].bfree
<1>1. Init => MirrorInv
  BY IdleType DEF Init, MirrorInv
<1>2. TypeOK /\ MirrorInv /\ [Next]_vars => MirrorInv'
  BY StepMirror
<1>3. TypeOK /\ MirrorInv /\ [Next]_vars => [Fresh]_vars
  <2> SUFFICES ASSUME TypeOK, MirrorInv, Next, op.pc \in {"used", "rmused"},
                      NEW g \in Groups
               PROVE  gd'[g].ifree = gd[g].ifree /\ gd'[g].bfree = gd[g].bfree
    OBVIOUS
  <2>t. gd \in [Groups -> GdType] /\ mirror \in GdType
    BY DEF TypeOK
  <2>1. CASE gd' = gd
    BY <2>1
  <2>2. ASSUME NEW n, CountDirs(n)
        PROVE  gd'[g].ifree = gd[g].ifree /\ gd'[g].bfree = gd[g].bfree
    <3> DEFINE m == [mirror EXCEPT !.used = n]
    <3>1. m.ifree = mirror.ifree /\ m.bfree = mirror.bfree
      BY <2>t DEF GdType
    <3>2. gd' = gd \/ (GroupOf(op.ino) = 0 /\ gd' = [gd EXCEPT ![0] = m])
      BY <2>2 DEF CountDirs
    <3>3. GroupOf(op.ino) = 0 => mirror = gd[0]
      BY DEF MirrorInv
    <3> HIDE DEF m
    <3> QED BY <2>t, <3>1, <3>2, <3>3, Constants
  <2>3. CountNewDir \/ UncountDir \/ PowerCycle
    BY DEF Next, At, Make, ScanEnd, AllocBit, AllocGd, NewBlock, WriteData, WriteInode, AddEntry,
           Rollback, WriteParent, Remove, RemoveEntry, FreeData, DeleteInode, FreeBit, FreeGd,
           UnlinkParent, Lost
  <2> QED BY <2>1, <2>2, <2>3 DEF CountNewDir, UncountDir, PowerCycle, disk
<1>4. Spec => [][Fresh]_vars
  BY <1>1, <1>2, <1>3, TypeCorrect, PTL DEF Spec
<1> QED BY <1>4 DEF MirrorFresh
-----------------------------------------------------------------------------
(***************************************************************************)
(* When nothing fails, the power stays on and mkdir gets no name that is    *)
(* there, the free counts of the group                                      *)
(* descriptors and of the super block, the count of directories of group 0  *)
(* and the link counts are exact between calls.                             *)
(*                                                                          *)
(* Inside a call a count is ahead of the disk or behind it.  For each count *)
(* there is a set here, what it counts at the moment, which differs from    *)
(* what is on the disk by the inode or the entry of the call under way.     *)
(***************************************************************************)

Clean == faults = 0 /\ crashes = 0 /\ ~astray

OpEntry == [dir |-> op.dir, name |-> op.name, ino |-> op.ino]

\* rmdir, once the entry is gone.
Removing == op.rm /\ op.kind = "dir"
            /\ op.pc \in {"rmdata", "rminode", "rmbit", "rmgd", "rmlink", "rmused"}

\* The inodes that the descriptors count as used.
CountedInos ==
    CASE op.pc = "igd"  -> ibmap \ {op.ino}
      [] op.pc = "rmgd" -> ibmap \cup {op.ino}
      [] OTHER          -> ibmap

\* The directories that group 0's descriptor counts.
IsCounted(i) ==
    \/ LiveDir(i) /\ ~(op.pc \in {"nlink", "used"} /\ i = op.ino)
    \/ Removing /\ i = op.ino
CountedDirs == {i \in GroupInos(0) : IsCounted(i)}

\* The entries that the link count of directory i counts.
CountedSubs(i) ==
    {e \in ents : e.dir = i /\ itab[e.ino].kind = "dir" /\ ~(op.pc = "nlink" /\ e = OpEntry)}
        \cup (IF Removing /\ op.pc # "rmused" /\ op.dir = i THEN {OpEntry} ELSE {})

BlocksOf(g) == {b \in bbmap : b[1] = g}

\* What the call under way holds.
HeldInv ==
    /\ op.pc \in {"rmdata", "rminode", "rmbit"} => op.ino \in ibmap
    /\ op.pc = "rmdata" /\ op.blk # NoBlock => op.blk \in bbmap
    /\ op.pc = "rmgd" => op.ino \notin ibmap
    /\ op.pc \in {"rmgd", "rmlink", "rmused"} => op.ino # RootIno /\ NoEntry(op.ino)
    /\ op.pc \in {"nlink", "used"} =>
          op.kind = "dir" /\ OpEntry \in ents /\ itab[op.ino].kind = "dir"
    /\ op.pc = "entry" /\ op.kind = "dir" => itab[op.ino].nlink = 2
    /\ op.pc \in {"rmlink", "rmused"} => op.kind = "dir" /\ op.rm
    /\ op.pc \in {"rmentry", "rmdata", "rminode"} => op.rm
    /\ op.pc \in {"ialloc", "igd", "block"} => ~op.rm
    /\ op.pc # "rollback"
    /\ IsFiniteSet(ents)

InodesInv ==
    \A g \in Groups :
        gd[g].ifree = InodesPerGroup - Cardinality(CountedInos \cap GroupInos(g))

BlocksInv ==
    \A g \in Groups : gd[g].bfree = BlocksPerGroup - Cardinality(BlocksOf(g))

SuperInv == sbfree = SumFree

DirsInv == gd[0].used = Cardinality(CountedDirs)

LinksInv ==
    \A i \in Inos : LiveDir(i) => itab[i].nlink = 2 + Cardinality(CountedSubs(i))

CountInv ==
    HeldInv /\ InodesInv /\ BlocksInv /\ SuperInv /\ DirsInv /\ LinksInv

-----------------------------------------------------------------------------
(* Sizes.                                                                   *)

\* A group has as many inodes as the super block says, at most.
LEMMA GroupSize ==
  ASSUME NEW g \in Groups
  PROVE  IsFiniteSet(GroupInos(g)) /\ Cardinality(GroupInos(g)) <= InodesPerGroup
<1> DEFINE n == InodesPerGroup
           a == n * g
<1>1. n \in Nat /\ n > 0 /\ g \in Nat
  BY NamespaceAssumption DEF Groups
<1>2. a \in Nat
  BY <1>1
<1>3. ASSUME NEW i \in GroupInos(g) PROVE i \in (a + 1) .. (a + n)
  <2>1. i \in Int /\ i >= 1 /\ (i - 1) \div n = g
    BY NamespaceAssumption DEF GroupInos, Inos, GroupOf
  <2>2. i - 1 \in Int /\ n * ((i - 1) \div n) <= i - 1
        /\ i - 1 < n * ((i - 1) \div n) + n
    BY <1>1, <2>1
  <2>3. a <= i - 1 /\ i - 1 < a + n
    BY <2>1, <2>2
  <2> HIDE DEF a, n
  <2> QED BY <1>1, <1>2, <2>1, <2>3
<1> HIDE DEF a, n
<1>4. IsFiniteSet((a + 1) .. (a + n)) /\ Cardinality((a + 1) .. (a + n)) = n
  <2>1. a + 1 \in Int /\ a + n \in Int /\ ~(a + 1 > a + n) /\ (a + n) - (a + 1) + 1 = n
    BY <1>1, <1>2
  <2> QED BY <2>1, FS_Interval
<1>5. GroupInos(g) \in SUBSET ((a + 1) .. (a + n))
  BY <1>3
<1> QED BY <1>4, <1>5, FS_Subset DEF n

\* A group has as many data blocks as the super block says.
LEMMA GroupBlocks ==
  ASSUME NEW g \in Groups, NEW S \in SUBSET {b \in Blocks : b[1] = g}
  PROVE  IsFiniteSet(S) /\ Cardinality(S) <= BlocksPerGroup
<1> DEFINE n == BlocksPerGroup
           f == [b \in S |-> b[2]]
<1>1. n \in Nat
  BY NamespaceAssumption
<1>2. IsFiniteSet(1 .. n) /\ Cardinality(1 .. n) <= n
  <2>1. Cardinality(1 .. n) = IF 1 > n THEN 0 ELSE n - 1 + 1
    BY <1>1, FS_Interval
  <2>2. IsFiniteSet(1 .. n)
    BY <1>1, FS_Interval
  <2> QED BY <1>1, <2>1, <2>2
<1>3. \A b \in S : b = <<g, b[2]>> /\ b[2] \in 1 .. n
  BY DEF Blocks
<1>4. f \in [S -> 1 .. n] /\ \A b, c \in S : f[b] = f[c] => b = c
  BY <1>3
<1>5. f \in Injection(S, 1 .. n)
  BY <1>4 DEF Injection, IsInjective
<1>6. IsFiniteSet(S) /\ Cardinality(S) <= Cardinality(1 .. n)
  BY <1>2, <1>5, FS_Injection
<1>7. Cardinality(S) \in Nat /\ Cardinality(1 .. n) \in Nat
  BY <1>2, <1>6, FS_CardinalityType
<1> QED BY <1>1, <1>2, <1>6, <1>7

-----------------------------------------------------------------------------
(* What a step does when nothing fails.                                     *)

\* A failed write and a power loss are counted, and the counts never go down.
LEMMA CleanStays ==
  ASSUME TypeOK, [Next]_vars, Clean'
  PROVE  Clean /\ ~OneFault /\ ~Fault /\ ~PowerCycle
<1>1. faults \in Nat /\ crashes \in Nat
  BY DEF TypeOK
<1>2. /\ OneFault => faults' = faults + 1
      /\ PowerCycle => crashes' = crashes + 1
  BY DEF OneFault, PowerCycle
<1>3. ~OneFault /\ ~Fault /\ ~PowerCycle
  BY <1>1, <1>2 DEF Clean, Fault
<1>4. faults' = faults /\ crashes' = crashes
  BY <1>3 DEF Next, Make, ScanEnd, AllocBit, AllocGd, NewBlock, WriteData, WriteInode,
              AddEntry, Rollback, WriteParent, ParentLink, CountNewDir, CountDirs, Remove,
              RemoveEntry, FreeData, DeleteInode, FreeBit, FreeGd, UnlinkParent, UncountDir,
              Ok, NoFault, Lost, vars
<1>5. ~astray
  BY AstrayStays DEF Clean
<1> QED BY <1>3, <1>4, <1>5 DEF Clean

SameName == op'.dir = op.dir /\ op'.name = op.name /\ op'.kind = op.kind /\ op'.rm = op.rm
SameCall == SameName /\ op'.ino = op.ino /\ op'.blk = op.blk

\* The steps a call takes, one after the other.
LEMMA Moves ==
  ASSUME TypeOK, ~OneFault, ~Fault
  PROVE  /\ \A d, n, k : Make(d, n, k) =>
               op.pc = "idle" /\ op'.pc = "ialloc" /\ op'.dir = d /\ op'.rm = FALSE
         /\ ScanEnd => op.pc = "ialloc" /\ op'.pc = "idle"
         /\ AllocBit => op.pc = "ialloc" /\ op'.pc \in {"ialloc", "igd"} /\ SameName
         /\ AllocGd => op.pc = "igd" /\ op'.pc \in {"block", "inode"} /\ SameCall
         /\ NewBlock => op.pc = "block" /\ op'.pc \in {"data", "rmbit"} /\ SameName
                        /\ op'.ino = op.ino
         /\ WriteData => op.pc = "data" /\ op'.pc = "inode" /\ SameCall
         /\ WriteInode => op.pc = "inode" /\ op'.pc = "entry" /\ SameCall
         /\ AddEntry => /\ op.pc = "entry"
                        /\ \/ op'.pc = "nlink" /\ op.kind = "dir" /\ SameCall
                           \/ op'.pc = "idle" /\ op.kind # "dir"
         /\ Rollback => op.pc = "rollback"
         /\ WriteParent => op.pc = "nlink" /\ op'.pc = "used" /\ SameCall
         /\ CountNewDir => op.pc = "used" /\ op'.pc = "idle"
         /\ \A e : Remove(e) =>
               /\ op.pc = "idle" /\ op'.pc = "rmentry" /\ op'.rm = TRUE
               /\ op'.dir = e.dir /\ op'.name = e.name /\ op'.ino = e.ino
         /\ RemoveEntry => op.pc = "rmentry" /\ op'.pc = "rmdata" /\ SameCall
         /\ FreeData => op.pc = "rmdata" /\ op'.pc = "rminode" /\ SameCall
         /\ DeleteInode => op.pc = "rminode" /\ op'.pc = "rmbit" /\ SameCall
         /\ FreeBit => op.pc = "rmbit" /\ op'.pc = "rmgd" /\ SameCall
         /\ FreeGd => /\ op.pc = "rmgd"
                      /\ \/ op'.pc = "rmlink" /\ op.kind = "dir" /\ op.rm /\ SameCall
                         \/ op'.pc = "idle" /\ ~(op.kind = "dir" /\ op.rm)
         /\ UnlinkParent => op.pc = "rmlink" /\ op'.pc = "rmused" /\ SameCall
         /\ UncountDir => op.pc = "rmused" /\ op'.pc = "idle"
<1>t. op \in OpType
  BY DEF TypeOK
<1>g. \A p : Goto(p) => op'.pc = p /\ SameCall
  BY <1>t DEF Goto, OpType, SameCall, SameName
<1>n. NextGroup => op'.pc = "ialloc" /\ SameCall
  BY <1>t DEF NextGroup, OpType, SameCall, SameName
<1>d. Done => op'.pc = "idle"
  BY IdleType DEF Done
<1>c. SameCall => SameName /\ op'.ino = op.ino
  BY DEF SameCall
<1>1. \A d, n, k : Make(d, n, k) =>
         op.pc = "idle" /\ op'.pc = "ialloc" /\ op'.dir = d /\ op'.rm = FALSE
  BY DEF Make, IdleOp, At
<1>2. \A e : Remove(e) =>
         /\ op.pc = "idle" /\ op'.pc = "rmentry" /\ op'.rm = TRUE
         /\ op'.dir = e.dir /\ op'.name = e.name /\ op'.ino = e.ino
  BY DEF Remove, IdleOp, At
<1>3. AllocBit => op.pc = "ialloc" /\ op'.pc \in {"ialloc", "igd"} /\ SameName
  <2>1. ASSUME NEW i, op' = [op EXCEPT !.pc = "igd", !.ino = i]
        PROVE  op'.pc = "igd" /\ SameName
    BY <1>t, <2>1 DEF OpType, SameName
  <2> QED BY <1>n, <1>c, <2>1 DEF AllocBit, At
<1>4. NewBlock => op.pc = "block" /\ op'.pc \in {"data", "rmbit"} /\ SameName
                  /\ op'.ino = op.ino
  <2>1. ASSUME NEW b, op' = [op EXCEPT !.pc = "data", !.blk = b]
        PROVE  op'.pc = "data" /\ SameName /\ op'.ino = op.ino
    BY <1>t, <2>1 DEF OpType, SameName
  <2> QED BY <1>g, <1>c, <2>1 DEF NewBlock, At
<1>5. AllocGd => op.pc = "igd" /\ op'.pc \in {"block", "inode"} /\ SameCall
  BY <1>g DEF AllocGd, At
<1>6. /\ ScanEnd => op.pc = "ialloc" /\ op'.pc = "idle"
      /\ CountNewDir => op.pc = "used" /\ op'.pc = "idle"
      /\ UncountDir => op.pc = "rmused" /\ op'.pc = "idle"
  BY <1>d DEF ScanEnd, CountNewDir, UncountDir, At
<1>7. /\ WriteData => op.pc = "data" /\ op'.pc = "inode" /\ SameCall
      /\ WriteInode => op.pc = "inode" /\ op'.pc = "entry" /\ SameCall
      /\ Rollback => op.pc = "rollback"
      /\ WriteParent => op.pc = "nlink" /\ op'.pc = "used" /\ SameCall
  BY <1>g DEF WriteData, WriteInode, Rollback, WriteParent, At
<1>8. AddEntry => /\ op.pc = "entry"
                  /\ \/ op'.pc = "nlink" /\ op.kind = "dir" /\ SameCall
                     \/ op'.pc = "idle" /\ op.kind # "dir"
  BY <1>g, <1>d DEF AddEntry, At
<1>9. /\ RemoveEntry => op.pc = "rmentry" /\ op'.pc = "rmdata" /\ SameCall
      /\ FreeData => op.pc = "rmdata" /\ op'.pc = "rminode" /\ SameCall
      /\ DeleteInode => op.pc = "rminode" /\ op'.pc = "rmbit" /\ SameCall
  BY <1>g DEF RemoveEntry, FreeData, DeleteInode, At
<1>10. /\ FreeBit => op.pc = "rmbit" /\ op'.pc = "rmgd" /\ SameCall
       /\ UnlinkParent => op.pc = "rmlink" /\ op'.pc = "rmused" /\ SameCall
  BY <1>g DEF FreeBit, UnlinkParent, At
<1>11. FreeGd => /\ op.pc = "rmgd"
                 /\ \/ op'.pc = "rmlink" /\ op.kind = "dir" /\ op.rm /\ SameCall
                    \/ op'.pc = "idle" /\ ~(op.kind = "dir" /\ op.rm)
  BY <1>g, <1>d DEF FreeGd, At
<1> QED BY <1>1, <1>2, <1>3, <1>4, <1>5, <1>6, <1>7, <1>8, <1>9, <1>10, <1>11

\* What a step does to the entries, to the inodes they lead to and to the
\* directories that can be reached.
LEMMA TreeSteps ==
  ASSUME TypeOK, DiskInv, CallInv, [Next]_vars, ~astray, ~OneFault, ~Fault
  PROVE  /\ AddEntry => /\ ents' = ents \cup {OpEntry} /\ itab' = itab
                        /\ \A i \in Inos :
                              LiveDir(i)' <=> LiveDir(i) \/ (i = op.ino /\ op.kind = "dir")
         /\ RemoveEntry => /\ OpEntry \in ents /\ ents' = ents \ {OpEntry} /\ itab' = itab
                           /\ \A i \in Inos : LiveDir(i)' <=> LiveDir(i) /\ i # op.ino
         /\ ~AddEntry /\ ~RemoveEntry =>
               /\ ents' = ents
               /\ \A e \in ents : itab'[e.ino].kind = itab[e.ino].kind
               /\ \A i \in Inos : LiveDir(i)' <=> LiveDir(i)
<1>t. itab \in [Inos -> InodeType] /\ op.ino \in Inos /\ op.dir \in Inos
      /\ \A e \in ents : e.ino \in Inos
  BY DEF TypeOK, OpType, Entry
<1>m. DiskInv /\ MakeInv /\ RemoveInv
  BY DEF CallInv
<1>o. OpEntry.dir = op.dir /\ OpEntry.name = op.name /\ OpEntry.ino = op.ino
  BY DEF OpEntry
<1>1. ASSUME AddEntry
      PROVE  /\ ents' = ents \cup {OpEntry} /\ itab' = itab
             /\ \A i \in Inos :
                   LiveDir(i)' <=> LiveDir(i) \/ (i = op.ino /\ op.kind = "dir")
  <2>1. ents' = ents \cup {OpEntry} /\ itab' = itab /\ op.pc = "entry"
    BY <1>1 DEF AddEntry, OpEntry, At
  <2>2. itab[op.ino].kind = op.kind
    BY <1>m, <2>1 DEF MakeInv
  <2>3. \A e : e \in ents' <=> e \in ents \/ e = OpEntry
    BY <2>1
  <2> QED BY <1>o, <2>1, <2>2, <2>3 DEF LiveDir
<1>2. ASSUME RemoveEntry
      PROVE  /\ OpEntry \in ents /\ ents' = ents \ {OpEntry} /\ itab' = itab
             /\ \A i \in Inos : LiveDir(i)' <=> LiveDir(i) /\ i # op.ino
  <2>1. ents' = ents \ Lookup(op.dir, op.name) /\ itab' = itab /\ op.pc = "rmentry"
    BY <1>2 DEF RemoveEntry, At
  <2>2. OpEntry \in ents
    BY <1>m, <2>1 DEF RemoveInv, OpEntry
  <2>3. Lookup(op.dir, op.name) = {OpEntry}
    BY <1>m, <1>o, <2>2 DEF DiskInv, NamesInv, Lookup
  <2>4. ents' = ents \ {OpEntry}
    BY <2>1, <2>3
  <2>5. \A e \in ents : e.ino = op.ino <=> e = OpEntry
    BY <1>m, <1>o, <2>2 DEF DiskInv, EntriesValid
  <2>6. op.ino # RootIno
    BY <1>m, <1>o, <2>2 DEF DiskInv, RootInv, ReservedInos
  <2>7. ASSUME NEW i \in Inos PROVE LiveDir(i)' <=> LiveDir(i) /\ i # op.ino
    <3>1. (\E e \in ents' : e.ino = i) <=> (\E e \in ents : e.ino = i) /\ i # op.ino
      BY <2>4, <2>5
    <3> QED BY <2>1, <2>6, <3>1 DEF LiveDir
  <2> QED BY <2>1, <2>2, <2>4, <2>7
<1>3. ASSUME ~AddEntry, ~RemoveEntry
      PROVE  /\ ents' = ents
             /\ \A e \in ents : itab'[e.ino].kind = itab[e.ino].kind
             /\ \A i \in Inos : LiveDir(i)' <=> LiveDir(i)
  <2>1. ents' = ents
    BY <1>3 DEF Next, Make, ScanEnd, AllocBit, AllocGd, NewBlock, WriteData, WriteInode,
                Rollback, WriteParent, CountNewDir, Remove, FreeData, DeleteInode, FreeBit,
                FreeGd, UnlinkParent, UncountDir, PowerCycle, Lost, vars, disk
  <2>2. \A i \in Inos : i = RootIno \/ ~NoEntry(i) => itab'[i].kind = itab[i].kind
    <3>1. CASE WriteInode \/ DeleteInode
      <4>1. op.pc \in {"inode", "rminode"}
        BY <3>1 DEF WriteInode, DeleteInode, At
      <4>2. op.ino # RootIno /\ NoEntry(op.ino)
        BY <1>m, <4>1 DEF MakeInv, RemoveInv, ReservedInos
      <4>3. \A i \in Inos : i # op.ino => itab'[i] = itab[i]
        BY <3>1, <1>t DEF WriteInode, DeleteInode
      <4> QED BY <4>2, <4>3
    <3>2. CASE WriteParent \/ UnlinkParent
      <4>1. ParentLink(1) \/ ParentLink(-1)
        BY <3>2 DEF WriteParent, UnlinkParent
      <4>2. itab[op.dir] \in InodeType
        BY <1>t
      <4> QED BY <1>t, <4>1, <4>2 DEF ParentLink, InodeType
    <3>3. ASSUME ~WriteInode, ~DeleteInode, ~WriteParent, ~UnlinkParent
          PROVE  itab' = itab
      BY <1>3, <3>3 DEF Next, Make, ScanEnd, AllocBit, AllocGd, NewBlock, WriteData,
                Rollback, CountNewDir, Remove, FreeData, FreeBit, FreeGd, UncountDir,
                PowerCycle, Lost, vars, disk
    <3> QED BY <3>1, <3>2, <3>3
  <2> QED BY <1>t, <2>1, <2>2 DEF LiveDir, NoEntry
<1> QED BY <1>1, <1>2, <1>3

\* Which steps change which count.
LEMMA CountSteps ==
  ASSUME TypeOK, MirrorInv, [Next]_vars, ~OneFault, ~Fault, ~PowerCycle, op.pc # "rollback"
  PROVE  /\ \/ AllocGd \/ FreeGd
            \/ sbfree' = sbfree /\ \A g \in Groups : gd'[g].ifree = gd[g].ifree
         /\ \/ NewBlock \/ FreeData
            \/ bbmap' = bbmap /\ \A g \in Groups : gd'[g].bfree = gd[g].bfree
         /\ \/ CountNewDir \/ UncountDir
            \/ gd'[0].used = gd[0].used
<1>t. gd \in [Groups -> GdType] /\ mirror \in GdType /\ op \in OpType /\ bbmap \subseteq Blocks
  BY DEF TypeOK
<1>z. 0 \in Groups /\ GroupOf(op.ino) \in Groups
  BY <1>t, Constants, GroupOfIsGroup DEF OpType
<1>1. CASE AllocGd \/ FreeGd
  <2> DEFINE h == GroupOf(op.ino)
  <2>1. PICK n : gd' = [gd EXCEPT ![h] = [gd[h] EXCEPT !.ifree = n]]
    BY <1>1 DEF AllocGd, FreeGd, WriteGd
  <2>2. bbmap' = bbmap
    BY <1>1 DEF AllocGd, FreeGd
  <2>3. h \in Groups /\ gd[h] \in GdType
    BY <1>t, <1>z
  <2> HIDE DEF h
  <2>4. \A g \in Groups : gd'[g].bfree = gd[g].bfree /\ gd'[g].used = gd[g].used
    BY <1>t, <2>1, <2>3 DEF GdType
  <2> QED BY <1>1, <1>z, <2>2, <2>4
<1>2. CASE NewBlock \/ FreeData
  <2>1. sbfree' = sbfree
    BY <1>2 DEF NewBlock, FreeData
  <2>2. CASE gd' = gd
    BY <1>2, <2>1, <2>2
  <2>3. ASSUME NEW b \in Blocks, NEW n, WriteGd(b[1], [gd[b[1]] EXCEPT !.bfree = n])
        PROVE  /\ \A g \in Groups : gd'[g].ifree = gd[g].ifree
               /\ gd'[0].used = gd[0].used
    <3> DEFINE h == b[1]
    <3>1. h \in Groups
      BY DEF Blocks
    <3>2. gd' = [gd EXCEPT ![h] = [gd[h] EXCEPT !.bfree = n]]
      BY <2>3 DEF WriteGd
    <3> HIDE DEF h
    <3>3. gd[h] \in GdType
      BY <1>t, <3>1
    <3> QED BY <1>t, <1>z, <3>1, <3>2, <3>3 DEF GdType
  <2>4. op.blk # NoBlock => op.blk \in Blocks
    BY <1>t DEF OpType
  <2> QED BY <1>2, <2>1, <2>2, <2>3, <2>4 DEF NewBlock, FreeData, FreeBlockOf
<1>3. CASE CountNewDir \/ UncountDir
  <2>1. sbfree' = sbfree /\ bbmap' = bbmap /\ op.pc \in {"used", "rmused"}
    BY <1>3 DEF CountNewDir, UncountDir, At
  <2>2. gd' = gd \/ \E n : GroupOf(op.ino) = 0 /\ gd' = [gd EXCEPT ![0] = [mirror EXCEPT !.used = n]]
    BY <1>3 DEF CountNewDir, UncountDir, CountDirs
  <2>3. CASE gd' = gd
    BY <1>3, <2>1, <2>3
  <2>4. ASSUME NEW n, GroupOf(op.ino) = 0, gd' = [gd EXCEPT ![0] = [mirror EXCEPT !.used = n]]
        PROVE  \A g \in Groups : gd'[g].ifree = gd[g].ifree /\ gd'[g].bfree = gd[g].bfree
    <3>1. mirror = gd[0]
      BY <2>1, <2>4 DEF MirrorInv
    <3> QED BY <1>t, <1>z, <2>4, <3>1 DEF GdType
  <2> QED BY <1>3, <2>1, <2>2, <2>3, <2>4
<1>4. ASSUME ~AllocGd, ~FreeGd, ~NewBlock, ~FreeData, ~CountNewDir, ~UncountDir
      PROVE  sbfree' = sbfree /\ bbmap' = bbmap /\ gd' = gd
  BY <1>4 DEF Next, Make, ScanEnd, AllocBit, WriteData, WriteInode, AddEntry, Rollback, At,
              WriteParent, Remove, RemoveEntry, DeleteInode, FreeBit, UnlinkParent, Lost, vars, disk
<1> QED BY <1>1, <1>2, <1>3, <1>4

-----------------------------------------------------------------------------
(* The invariant, part by part.                                             *)

\* A call whose record has nothing to hold.
LEMMA HoldsNothing ==
  ASSUME IsFiniteSet(ents'), op'.pc \in {"idle", "ialloc", "igd", "block", "data", "inode"},
         op'.pc \in {"ialloc", "igd", "block"} => ~op'.rm
  PROVE  HeldInv'
  BY DEF HeldInv

\* One step keeps what the call holds.
LEMMA StepHeld ==
  ASSUME TypeOK, DiskInv, CallInv, HeldInv, [Next]_vars,
         ~astray, ~OneFault, ~Fault, ~PowerCycle
  PROVE  HeldInv'
<1>t. itab \in [Inos -> InodeType] /\ op \in OpType /\ op.ino \in Inos /\ op.rm \in BOOLEAN
      /\ op.kind \in {"file", "dir"}
  BY DEF TypeOK, OpType
<1>m. DiskInv /\ MakeInv /\ RemoveInv
  BY DEF CallInv
<1>o. /\ OpEntry.dir = op.dir /\ OpEntry.name = op.name /\ OpEntry.ino = op.ino
      /\ SameCall => OpEntry' = OpEntry
  BY DEF OpEntry, SameCall, SameName
<1>c. SameCall => SameName /\ op'.ino = op.ino /\ op'.blk = op.blk
  BY DEF SameCall
<1>s. SameName => op'.kind = op.kind /\ op'.rm = op.rm /\ op'.dir = op.dir
  BY DEF SameName
<1>e. IsFiniteSet(ents')
  <2>1. IsFiniteSet(ents)
    BY DEF HeldInv
  <2>2. ents' = ents \/ ents' = ents \cup {OpEntry} \/ ents' = ents \ {OpEntry}
    BY TreeSteps
  <2> QED BY <2>1, <2>2, FS_AddElement, FS_RemoveElement
<1>1. ASSUME NEW d, NEW n, NEW k, Make(d, n, k) PROVE HeldInv'
  BY <1>1, <1>e, HoldsNothing, Moves
<1>2. CASE ScanEnd \/ AllocBit \/ AllocGd
  <2>1. op'.pc \in {"idle", "ialloc", "igd", "block", "inode"}
    BY <1>2, Moves
  <2>2. op'.pc # "idle" => op.pc \in {"ialloc", "igd"} /\ op'.rm = op.rm
    BY <1>2, <1>c, <1>s, Moves
  <2>3. op'.pc # "idle" => ~op'.rm
    BY <2>2 DEF HeldInv
  <2> QED BY <1>e, <2>1, <2>3, HoldsNothing
<1>3. CASE NewBlock
  <2>1. op.pc = "block" /\ op'.pc \in {"data", "rmbit"} /\ op'.ino = op.ino /\ ibmap' = ibmap
    BY <1>3, Moves DEF NewBlock
  <2>2. op.ino \in ibmap
    BY <1>m, <2>1 DEF MakeInv
  <2> QED BY <1>e, <2>1, <2>2 DEF HeldInv
<1>4. CASE WriteData \/ CountNewDir \/ UncountDir
  <2>1. op'.pc \in {"inode", "idle"}
    BY <1>4, Moves
  <2> QED BY <1>e, <2>1, HoldsNothing
<1>5. CASE WriteInode
  <2>1. op'.pc = "entry" /\ op'.ino = op.ino /\ op'.kind = op.kind
    BY <1>5, <1>c, <1>s, Moves
  <2>2. op.kind = "dir" => itab'[op.ino].nlink = 2
    BY <1>5, <1>t DEF WriteInode
  <2> QED BY <1>e, <2>1, <2>2 DEF HeldInv
<1>6. CASE AddEntry
  <2>1. CASE op'.pc = "idle"
    BY <1>e, <2>1, HoldsNothing
  <2>2. CASE op'.pc = "nlink" /\ op.kind = "dir" /\ SameCall
    <3>1. op.pc = "entry"
      BY <1>6, Moves
    <3>2. itab[op.ino].kind = "dir"
      BY <1>m, <2>2, <3>1 DEF MakeInv
    <3>3. OpEntry' \in ents' /\ itab'[op'.ino].kind = "dir" /\ op'.kind = "dir"
      BY <1>6, <1>o, <1>c, <1>s, <2>2, <3>2, TreeSteps
    <3> QED BY <1>e, <2>2, <3>3 DEF HeldInv
  <2> QED BY <1>6, <2>1, <2>2, Moves
<1>7. CASE Rollback
  BY <1>7, Moves DEF HeldInv
<1>8. CASE WriteParent
  <2>1. op.pc = "nlink" /\ op'.pc = "used" /\ SameCall
    BY <1>8, Moves
  <2>2. op.kind = "dir" /\ OpEntry \in ents /\ itab[op.ino].kind = "dir"
    BY <2>1 DEF HeldInv
  <2>3. ~AddEntry /\ ~RemoveEntry
    BY <2>1, Moves
  <2>4. OpEntry' \in ents' /\ itab'[op'.ino].kind = "dir" /\ op'.kind = "dir"
    BY <1>o, <1>c, <1>s, <2>1, <2>2, <2>3, TreeSteps
  <2> QED BY <1>e, <2>1, <2>4 DEF HeldInv
<1>9. ASSUME NEW e, Remove(e) PROVE HeldInv'
  <2>1. op'.pc = "rmentry" /\ op'.rm = TRUE
    BY <1>9, Moves
  <2> QED BY <1>e, <2>1 DEF HeldInv
<1>10. CASE RemoveEntry
  <2>1. op.pc = "rmentry" /\ op'.pc = "rmdata" /\ SameCall /\ UNCHANGED <<ibmap, bbmap>>
    BY <1>10, Moves DEF RemoveEntry
  <2>2. op.rm /\ OpEntry \in ents
    BY <1>10, <2>1, TreeSteps DEF HeldInv
  <2>3. op.ino \in ibmap
    BY <1>m, <1>o, <2>2 DEF DiskInv, EntriesValid
  <2>4. op.blk # NoBlock => op.blk \in bbmap
    <3>1. itab[op.ino].kind = op.kind /\ itab[op.ino].blk = op.blk
      BY <1>m, <2>1 DEF RemoveInv
    <3>2. CASE op.kind = "file"
      BY <1>m, <1>o, <2>2, <3>1, <3>2 DEF DiskInv, NamesInv
    <3>3. CASE op.kind = "dir"
      <4>1. LiveDir(op.ino)
        BY <1>o, <2>2, <3>1, <3>3 DEF LiveDir
      <4> QED BY <1>m, <1>t, <3>1, <4>1 DEF DiskInv, DirBlocksOwned
    <3> QED BY <1>t, <3>2, <3>3
  <2> QED BY <1>c, <1>s, <1>e, <2>1, <2>2, <2>3, <2>4 DEF HeldInv
<1>11. CASE FreeData \/ DeleteInode
  <2>1. op.pc \in {"rmdata", "rminode"} /\ op'.pc \in {"rminode", "rmbit"} /\ SameCall
        /\ ibmap' = ibmap
    BY <1>11, Moves DEF FreeData, DeleteInode
  <2>2. op.rm /\ op.ino \in ibmap
    BY <2>1 DEF HeldInv
  <2> QED BY <1>c, <1>s, <1>e, <2>1, <2>2 DEF HeldInv
<1>12. CASE FreeBit
  <2>1. op.pc = "rmbit" /\ op'.pc = "rmgd" /\ SameCall /\ ibmap' = ibmap \ {op.ino}
        /\ ents' = ents
    BY <1>12, Moves DEF FreeBit
  <2>2. op.ino # RootIno /\ NoEntry(op.ino)
    BY <1>m, <2>1 DEF RemoveInv, ReservedInos
  <2>3. NoEntry(op.ino)'
    BY <1>c, <2>1, <2>2 DEF NoEntry
  <2> QED BY <1>c, <1>e, <2>1, <2>2, <2>3 DEF HeldInv
<1>13. CASE FreeGd
  <2>1. CASE op'.pc = "idle"
    BY <1>e, <2>1, HoldsNothing
  <2>2. CASE op'.pc = "rmlink" /\ op.kind = "dir" /\ op.rm /\ SameCall
    <3>1. op.pc = "rmgd" /\ ents' = ents
      BY <1>13, Moves DEF FreeGd
    <3>2. op.ino # RootIno /\ NoEntry(op.ino)
      BY <3>1 DEF HeldInv
    <3>3. NoEntry(op.ino)'
      BY <1>c, <2>2, <3>1, <3>2 DEF NoEntry
    <3> QED BY <1>c, <1>s, <1>e, <2>2, <3>2, <3>3 DEF HeldInv
  <2> QED BY <1>13, <2>1, <2>2, Moves
<1>14. CASE UnlinkParent
  <2>1. op.pc = "rmlink" /\ op'.pc = "rmused" /\ SameCall /\ ents' = ents
    BY <1>14, Moves DEF UnlinkParent
  <2>2. op.ino # RootIno /\ NoEntry(op.ino) /\ op.kind = "dir" /\ op.rm
    BY <2>1 DEF HeldInv
  <2>3. NoEntry(op.ino)'
    BY <1>c, <2>1, <2>2 DEF NoEntry
  <2> QED BY <1>c, <1>s, <1>e, <2>1, <2>2, <2>3 DEF HeldInv
<1>15. CASE Lost \/ UNCHANGED vars
  BY <1>15 DEF Lost, vars, disk, HeldInv, OpEntry, NoEntry
<1> QED
  BY <1>1, <1>2, <1>3, <1>4, <1>5, <1>6, <1>7, <1>8, <1>9, <1>10, <1>11, <1>12,
     <1>13, <1>14, <1>15 DEF Next

\* The numbers of free inodes of the groups are those of the bitmap, but for the
\* inode that the call under way has marked or freed and not yet counted.
LEMMA StepInodes ==
  ASSUME TypeOK, TypeOK', CallInv, HeldInv, MirrorInv, InodesInv,
         [Next]_vars, ~OneFault, ~Fault, ~PowerCycle
  PROVE  InodesInv'
<1>t. gd \in [Groups -> GdType] /\ op \in OpType /\ op.ino \in Inos /\ ibmap \subseteq Inos
  BY DEF TypeOK, OpType
<1>h. GroupOf(op.ino) \in Groups
  BY <1>t, GroupOfIsGroup
<1>m. MakeInv /\ RemoveInv
  BY DEF CallInv
<1>s. ASSUME CountedInos' = CountedInos, \A g \in Groups : gd'[g].ifree = gd[g].ifree
      PROVE  InodesInv'
  <2>1. \A g : GroupInos(g)' = GroupInos(g)
    BY DEF GroupInos
  <2> QED BY <1>s, <2>1 DEF InodesInv
<1>1. CASE AllocBit
  <2>1. op.pc = "ialloc" /\ gd' = gd
    BY <1>1 DEF AllocBit, At
  <2>2. CASE NextGroup /\ ibmap' = ibmap
    <3>1. op'.pc = "ialloc"
      BY <2>2, OpEffects
    <3> QED BY <1>s, <2>1, <2>2, <3>1 DEF CountedInos
  <2>3. ASSUME NEW i \in Lowest(GroupInos(ScanGroup) \ ibmap),
               op' = [op EXCEPT !.pc = "igd", !.ino = i], ibmap' = ibmap \cup {i}
        PROVE  InodesInv'
    <3>1. i \notin ibmap
      BY DEF Lowest
    <3>2. op'.pc = "igd" /\ op'.ino = i
      BY <1>t, <2>3 DEF OpType
    <3>3. ibmap' \ {i} = ibmap
      BY <2>3, <3>1
    <3>4. CountedInos' = CountedInos
      BY <2>1, <3>2, <3>3 DEF CountedInos
    <3> QED BY <1>s, <2>1, <3>4
  <2> QED BY <1>1, <2>2, <2>3 DEF AllocBit
<1>2. CASE FreeBit
  <2>1. op.pc = "rmbit" /\ op'.pc = "rmgd" /\ op'.ino = op.ino
        /\ ibmap' = ibmap \ {op.ino} /\ gd' = gd
    BY <1>2, Moves DEF FreeBit, SameCall
  <2>2. op.ino \in ibmap
    BY <2>1 DEF HeldInv
  <2>3. ibmap' \cup {op'.ino} = ibmap
    BY <2>1, <2>2
  <2>4. CountedInos' = CountedInos
    BY <2>1, <2>3 DEF CountedInos
  <2> QED BY <1>s, <2>1, <2>4
<1>3. CASE AllocGd \/ FreeGd
  <2> DEFINE h == GroupOf(op.ino)
             G == GroupInos(h)
  <2>f. IsFiniteSet(G) /\ Cardinality(G) <= InodesPerGroup /\ op.ino \in G
    BY <1>t, <1>h, GroupSize DEF GroupInos
  <2>c. \A S : IsFiniteSet(S \cap G) /\ Cardinality(S \cap G) \in Nat
    BY <2>f, FS_Intersection, FS_CardinalityType
  <2>n. InodesPerGroup \in Nat /\ Cardinality(G) \in Nat
    BY <2>f, NamespaceAssumption, FS_CardinalityType
  <2>g. \A g \in Groups : g # h => op.ino \notin GroupInos(g)
    BY DEF GroupInos
  <2>v. gd[h] \in GdType /\ gd[h].ifree \in Nat
    BY <1>t, <1>h DEF GdType
  <2>i. gd[h].ifree = InodesPerGroup - Cardinality(CountedInos \cap G)
    BY <1>h DEF InodesInv
  <2>p. \A g : GroupInos(g)' = GroupInos(g)
    BY DEF GroupInos
  <2>1. ibmap' = ibmap /\ CountedInos' = ibmap
    <3>1. op'.pc \notin {"igd", "rmgd"} /\ ibmap' = ibmap
      BY <1>3, Moves DEF AllocGd, FreeGd
    <3> QED BY <3>1 DEF CountedInos
  <2>2. \A g \in Groups : g # h => ibmap \cap GroupInos(g) = CountedInos \cap GroupInos(g)
    <3>1. \A i : i # op.ino => (i \in ibmap <=> i \in CountedInos)
      BY DEF CountedInos
    <3> QED BY <2>g, <3>1
  <2>3. CASE AllocGd
    <3>1. op.pc = "igd" /\ gd' = [gd EXCEPT ![h] = [gd[h] EXCEPT !.ifree = Less(gd[h].ifree)]]
      BY <2>3, Moves DEF AllocGd, WriteGd
    <3>2. op.ino \in ibmap /\ CountedInos = ibmap \ {op.ino}
      BY <1>m, <3>1 DEF MakeInv, CountedInos
    <3> DEFINE c == Cardinality(CountedInos \cap G)
               d == Cardinality(ibmap \cap G)
    <3>3. CountedInos \cap G = (ibmap \cap G) \ {op.ino} /\ op.ino \in ibmap \cap G
      BY <2>f, <3>2
    <3>4. c = d - 1
      <4> DEFINE T == ibmap \cap G
      <4>1. IsFiniteSet(T) /\ op.ino \in T /\ CountedInos \cap G = T \ {op.ino}
        BY <2>c, <3>3
      <4> HIDE DEF T
      <4>2. Cardinality(T \ {op.ino}) = Cardinality(T) - 1
        BY <4>1, FS_RemoveElement
      <4> QED BY <4>1, <4>2 DEF T
    <3>5. d <= Cardinality(G)
      BY <2>f, FS_Intersection
    <3>6. gd'[h].ifree = Less(gd[h].ifree) /\ \A g \in Groups : g # h => gd'[g] = gd[g]
      BY <1>t, <1>h, <2>v, <3>1 DEF GdType
    <3>7. c \in Nat /\ d \in Nat
      BY <2>c
    <3> HIDE DEF c, d
    <3>8. Less(gd[h].ifree) = InodesPerGroup - d
      BY <2>f, <2>n, <2>v, <2>i, <3>4, <3>5, <3>7 DEF Less, c
    <3>9. ASSUME NEW g \in Groups
          PROVE  gd'[g].ifree = InodesPerGroup - Cardinality(ibmap \cap GroupInos(g))
      <4>1. CASE g = h
        BY <3>6, <3>8, <4>1 DEF d
      <4>2. CASE g # h
        BY <2>2, <3>6, <4>2 DEF InodesInv
      <4> QED BY <4>1, <4>2
    <3> QED BY <2>1, <2>p, <3>9 DEF InodesInv
  <2>4. CASE FreeGd
    <3>1. op.pc = "rmgd" /\ gd' = [gd EXCEPT ![h] = [gd[h] EXCEPT !.ifree = gd[h].ifree + 1]]
      BY <2>4, Moves DEF FreeGd, WriteGd
    <3>2. op.ino \notin ibmap /\ CountedInos = ibmap \cup {op.ino}
      BY <3>1 DEF HeldInv, CountedInos
    <3> DEFINE c == Cardinality(CountedInos \cap G)
               d == Cardinality(ibmap \cap G)
    <3>3. CountedInos \cap G = (ibmap \cap G) \cup {op.ino} /\ op.ino \notin ibmap \cap G
      BY <2>f, <3>2
    <3>4. c = d + 1
      BY <2>c, <3>3, FS_AddElement
    <3>6. gd'[h].ifree = gd[h].ifree + 1 /\ \A g \in Groups : g # h => gd'[g] = gd[g]
      BY <1>t, <1>h, <2>v, <3>1 DEF GdType
    <3>7. c \in Nat /\ d \in Nat
      BY <2>c
    <3> HIDE DEF c, d
    <3>8. gd[h].ifree + 1 = InodesPerGroup - d
      BY <2>n, <2>v, <2>i, <3>4, <3>7 DEF c
    <3>9. ASSUME NEW g \in Groups
          PROVE  gd'[g].ifree = InodesPerGroup - Cardinality(ibmap \cap GroupInos(g))
      <4>1. CASE g = h
        BY <3>6, <3>8, <4>1 DEF d
      <4>2. CASE g # h
        BY <2>2, <3>6, <4>2 DEF InodesInv
      <4> QED BY <4>1, <4>2
    <3> QED BY <2>1, <2>p, <3>9 DEF InodesInv
  <2> QED BY <1>3, <2>3, <2>4
<1>4. ASSUME ~AllocBit, ~FreeBit, ~AllocGd, ~FreeGd PROVE InodesInv'
  <2>1. \A g \in Groups : gd'[g].ifree = gd[g].ifree
    BY <1>4, CountSteps DEF HeldInv
  <2>2. CASE Lost \/ UNCHANGED vars
    BY <1>s, <2>1, <2>2 DEF Lost, vars, disk, CountedInos
  <2>3. CASE Next
    <3>1. ibmap' = ibmap
      BY <1>4, <2>3 DEF Next, Make, ScanEnd, NewBlock, WriteData, WriteInode, AddEntry,
                  Rollback, WriteParent, CountNewDir, Remove, RemoveEntry, FreeData, DeleteInode,
                  UnlinkParent, UncountDir, Lost, vars, disk
    <3>2. op.pc \notin {"igd", "rmgd"} /\ op'.pc \notin {"igd", "rmgd"}
      BY <1>4, <2>3, Moves DEF Next, Lost, vars, At, HeldInv
    <3>3. CountedInos' = CountedInos
      BY <3>1, <3>2 DEF CountedInos
    <3> QED BY <1>s, <2>1, <3>3
  <2> QED BY <2>2, <2>3
<1> QED BY <1>1, <1>2, <1>3, <1>4

\* The numbers of free data blocks of the groups are those of the bitmap.
LEMMA StepBlocks ==
  ASSUME TypeOK, TypeOK', HeldInv, MirrorInv, BlocksInv, [Next]_vars,
         ~OneFault, ~Fault, ~PowerCycle
  PROVE  BlocksInv'
<1>t. gd \in [Groups -> GdType] /\ bbmap \subseteq Blocks /\ BlocksPerGroup \in Nat
  BY NamespaceAssumption DEF TypeOK
<1>f. \A g \in Groups : IsFiniteSet(BlocksOf(g)) /\ Cardinality(BlocksOf(g)) \in Nat
  BY <1>t, GroupBlocks, FS_CardinalityType DEF BlocksOf
<1>1. CASE bbmap' = bbmap /\ \A g \in Groups : gd'[g].bfree = gd[g].bfree
  <2>1. \A g : BlocksOf(g)' = BlocksOf(g)
    BY <1>1 DEF BlocksOf
  <2> QED BY <1>1, <2>1 DEF BlocksInv
\* One block is marked or freed, and counted in its group.
<1>2. ASSUME NEW b \in Blocks, NEW n,
             bbmap' = bbmap \cup {b} \/ bbmap' = bbmap \ {b},
             gd' = [gd EXCEPT ![b[1]] = [gd[b[1]] EXCEPT !.bfree = n]],
             n = BlocksPerGroup - Cardinality(BlocksOf(b[1])')
      PROVE  BlocksInv'
  <2> DEFINE h == b[1]
  <2>1. h \in Groups
    BY DEF Blocks
  <2>2. gd[h] \in GdType
    BY <1>t, <2>1
  <2>3. gd'[h].bfree = n /\ \A g \in Groups : g # h => gd'[g] = gd[g]
    BY <1>t, <1>2, <2>1, <2>2 DEF GdType
  <2>4. \A g \in Groups : g # h => BlocksOf(g)' = BlocksOf(g)
    BY <1>2 DEF BlocksOf
  <2> QED BY <1>2, <2>3, <2>4 DEF BlocksInv
<1>3. CASE NewBlock
  <2>1. CASE UNCHANGED <<bbmap, gd>>
    BY <1>1, <2>1
  <2>2. ASSUME NEW b \in Blocks \ bbmap, bbmap' = bbmap \cup {b},
               WriteGd(b[1], [gd[b[1]] EXCEPT !.bfree = Less(@)])
        PROVE  BlocksInv'
    <3> DEFINE h == b[1]
               S == BlocksOf(h)
    <3>1. h \in Groups
      BY DEF Blocks
    <3>2. BlocksOf(h)' = S \cup {b} /\ b \notin S
      BY <2>2 DEF BlocksOf
    <3>3. IsFiniteSet(S) /\ Cardinality(S) \in Nat
      BY <1>f, <3>1
    <3>4. Cardinality(S \cup {b}) = Cardinality(S) + 1
      <4> HIDE DEF S
      <4> QED BY <3>2, <3>3, FS_AddElement
    <3>5. Cardinality(S \cup {b}) <= BlocksPerGroup
      <4>1. S \cup {b} \in SUBSET {x \in Blocks : x[1] = h}
        BY <1>t, <2>2 DEF BlocksOf
      <4> HIDE DEF S, h
      <4> QED BY <3>1, <4>1, GroupBlocks
    <3>6. gd[h].bfree = BlocksPerGroup - Cardinality(S)
      BY <3>1 DEF BlocksInv
    <3> DEFINE c == Cardinality(S)
    <3>7. c \in Nat /\ c + 1 <= BlocksPerGroup /\ gd[h].bfree = BlocksPerGroup - c
      BY <3>3, <3>4, <3>5, <3>6
    <3>8. Less(gd[h].bfree) = BlocksPerGroup - (c + 1)
      <4> HIDE DEF c
      <4> QED BY <1>t, <3>7 DEF Less
    <3>9. Less(gd[h].bfree) = BlocksPerGroup - Cardinality(BlocksOf(h)')
      BY <3>2, <3>4, <3>8
    <3>10. gd' = [gd EXCEPT ![h] = [gd[h] EXCEPT !.bfree = Less(gd[h].bfree)]]
      BY <2>2 DEF WriteGd
    <3> HIDE DEF S, c
    <3> QED BY <1>2, <2>2, <3>9, <3>10
  <2> QED BY <1>3, <2>1, <2>2 DEF NewBlock
<1>4. CASE FreeData
  <2>1. op.pc = "rmdata"
    BY <1>4, Moves
  <2>2. CASE UNCHANGED <<bbmap, gd>>
    BY <1>1, <2>2
  <2>3. CASE op.blk # NoBlock /\ FreeBlockOf(op.blk)
    <3> DEFINE b == op.blk
               h == b[1]
               S == BlocksOf(h)
    <3>1. b \in bbmap /\ b \in Blocks
      BY <1>t, <2>1, <2>3 DEF HeldInv
    <3>2. h \in Groups
      BY <3>1 DEF Blocks
    <3>3. bbmap' = bbmap \ {b}
          /\ gd' = [gd EXCEPT ![h] = [gd[h] EXCEPT !.bfree = gd[h].bfree + 1]]
      BY <2>3 DEF FreeBlockOf, WriteGd
    <3>4. {x \in bbmap' : x[1] = h} = S \ {b} /\ b \in S
      BY <3>1, <3>3 DEF BlocksOf
    <3>5. IsFiniteSet(S) /\ Cardinality(S) \in Nat
      BY <1>f, <3>2
    <3>6. Cardinality(S \ {b}) = Cardinality(S) - 1
      <4> HIDE DEF S, b
      <4> QED BY <3>4, <3>5, FS_RemoveElement
    <3>7. gd[h].bfree = BlocksPerGroup - Cardinality(S)
      BY <3>2 DEF BlocksInv
    <3> DEFINE c == Cardinality(S)
    <3>8. gd[h].bfree + 1 = BlocksPerGroup - (c - 1)
      <4>1. c \in Nat /\ gd[h].bfree = BlocksPerGroup - c
        BY <3>5, <3>7
      <4> HIDE DEF c
      <4> QED BY <1>t, <4>1
    <3>9. gd[h].bfree + 1 = BlocksPerGroup - Cardinality({x \in bbmap' : x[1] = h})
      BY <3>4, <3>6, <3>8
    <3> HIDE DEF S, c
    <3>10. gd[b[1]].bfree + 1 = BlocksPerGroup - Cardinality({x \in bbmap' : x[1] = b[1]})
      BY <3>9
    <3> HIDE DEF b
    <3>11. ASSUME NEW x, x = b
           PROVE  gd[x[1]].bfree + 1 = BlocksPerGroup - Cardinality(BlocksOf(x[1])')
      BY <3>10, <3>11 DEF BlocksOf
    <3> QED BY <1>2, <3>1, <3>3, <3>11
  <2> QED BY <1>4, <2>2, <2>3 DEF FreeData
<1> QED BY <1>1, <1>3, <1>4, CountSteps DEF HeldInv

\* The super block's count of free inodes is the sum of those of the groups.
LEMMA StepSuper ==
  ASSUME TypeOK, TypeOK', HeldInv, MirrorInv, SuperInv, [Next]_vars,
         ~OneFault, ~Fault, ~PowerCycle
  PROVE  SuperInv'
<1> DEFINE f == [g \in Groups |-> gd[g].ifree]
           h == [g \in Groups |-> gd'[g].ifree]
<1>1. \A g \in Groups : f[g] \in Nat
  BY DEF TypeOK, GdType
<1>2. SumFree' = Sum(h)
  BY DEF SumFree
<1>3. CASE AllocGd \/ FreeGd
  BY <1>2, <1>3 DEF AllocGd, FreeGd, SyncSuper, SuperInv
<1>4. CASE sbfree' = sbfree /\ \A g \in Groups : gd'[g].ifree = gd[g].ifree
  <2>1. h = f
    BY <1>4
  <2> QED BY <1>2, <1>4, <2>1 DEF SuperInv, SumFree
<1> QED BY <1>3, <1>4, CountSteps DEF HeldInv

\* Group 0's count of directories is that of its directories that can be reached,
\* but for the one that the call under way has linked or unlinked and not yet
\* counted.
LEMMA StepDirs ==
  ASSUME TypeOK, TypeOK', DiskInv, CallInv, HeldInv, MirrorInv, DirsInv,
         [Next]_vars, ~astray, ~OneFault, ~Fault, ~PowerCycle
  PROVE  DirsInv'
<1>t. gd \in [Groups -> GdType] /\ mirror \in GdType /\ op.ino \in Inos
      /\ op.kind \in {"file", "dir"} /\ op.rm \in BOOLEAN
  BY DEF TypeOK, OpType
<1>z. 0 \in Groups
  BY Constants
<1>m. DiskInv /\ MakeInv /\ RemoveInv
  BY DEF CallInv
<1>o. OpEntry.dir = op.dir /\ OpEntry.name = op.name /\ OpEntry.ino = op.ino
  BY DEF OpEntry
<1>c. SameCall => /\ op'.kind = op.kind /\ op'.rm = op.rm /\ op'.ino = op.ino
  BY DEF SameCall, SameName
<1>k. SameName => op'.kind = op.kind /\ op'.rm = op.rm
  BY DEF SameName
<1>p. GroupInos(0)' = GroupInos(0)
  BY DEF GroupInos
<1>s. ASSUME \A i \in Inos : IsCounted(i)' <=> IsCounted(i), gd'[0].used = gd[0].used
      PROVE  DirsInv'
  <2>1. CountedDirs' = CountedDirs
    BY <1>s, <1>p DEF CountedDirs, GroupInos
  <2> QED BY <1>s, <2>1 DEF DirsInv
<1>f. IsFiniteSet(CountedDirs) /\ Cardinality(CountedDirs) \in Nat
  <2>1. CountedDirs \in SUBSET GroupInos(0)
    BY DEF CountedDirs
  <2> QED BY <1>z, <2>1, GroupSize, FS_Subset, FS_CardinalityType
<1>1. CASE CountNewDir
  <2>1. op.pc = "used" /\ op'.pc = "idle" /\ ~AddEntry /\ ~RemoveEntry
    BY <1>1, Moves
  <2>2. OpEntry \in ents /\ itab[op.ino].kind = "dir"
    BY <2>1 DEF HeldInv
  <2>3. LiveDir(op.ino)
    BY <1>o, <2>2 DEF LiveDir
  <2>4. \A i \in Inos : LiveDir(i)' <=> LiveDir(i)
    BY <2>1, TreeSteps
  <2>5. \A i \in Inos : IsCounted(i)' <=> IsCounted(i) \/ i = op.ino
    BY <1>t, <2>1, <2>3, <2>4 DEF IsCounted, Removing
  <2>6. ~IsCounted(op.ino)
    BY <2>1 DEF IsCounted, Removing
  <2>7. CASE GroupOf(op.ino) # 0
    <3>1. gd' = gd
      BY <1>1, <2>7 DEF CountNewDir, CountDirs
    <3>2. CountedDirs' = CountedDirs
      BY <1>p, <2>5, <2>7 DEF CountedDirs, GroupInos
    <3> QED BY <3>1, <3>2 DEF DirsInv
  <2>8. CASE GroupOf(op.ino) = 0
    <3>1. gd' = [gd EXCEPT ![0] = [mirror EXCEPT !.used = mirror.used + 1]] /\ mirror = gd[0]
      BY <1>1, <2>1, <2>8 DEF CountNewDir, CountDirs, MirrorInv
    <3>2. gd'[0].used = gd[0].used + 1
      BY <1>t, <1>z, <3>1 DEF GdType
    <3>3. CountedDirs' = CountedDirs \cup {op.ino} /\ op.ino \notin CountedDirs
      BY <1>t, <1>p, <2>5, <2>6, <2>8 DEF CountedDirs, GroupInos
    <3>4. Cardinality(CountedDirs \cup {op.ino}) = Cardinality(CountedDirs) + 1
      BY <1>f, <3>3, FS_AddElement
    <3> QED BY <3>2, <3>3, <3>4 DEF DirsInv
  <2> QED BY <2>7, <2>8
<1>2. CASE UncountDir
  <2>1. op.pc = "rmused" /\ op'.pc = "idle" /\ ~AddEntry /\ ~RemoveEntry
    BY <1>2, Moves
  <2>2. op.ino # RootIno /\ NoEntry(op.ino) /\ op.kind = "dir" /\ op.rm
    BY <2>1 DEF HeldInv
  <2>3. ~LiveDir(op.ino)
    BY <2>2 DEF LiveDir, NoEntry
  <2>4. \A i \in Inos : LiveDir(i)' <=> LiveDir(i)
    BY <2>1, TreeSteps
  <2>5. \A i \in Inos : IsCounted(i)' <=> IsCounted(i) /\ i # op.ino
    BY <1>t, <2>1, <2>3, <2>4 DEF IsCounted, Removing
  <2>6. IsCounted(op.ino)
    BY <2>1, <2>2 DEF IsCounted, Removing
  <2>7. CASE GroupOf(op.ino) # 0
    <3>1. gd' = gd
      BY <1>2, <2>7 DEF UncountDir, CountDirs
    <3>2. CountedDirs' = CountedDirs
      BY <1>p, <2>5, <2>7 DEF CountedDirs, GroupInos
    <3> QED BY <3>1, <3>2 DEF DirsInv
  <2>8. CASE GroupOf(op.ino) = 0
    <3>1. CountedDirs' = CountedDirs \ {op.ino} /\ op.ino \in CountedDirs
      BY <1>t, <1>p, <2>5, <2>6, <2>8 DEF CountedDirs, GroupInos
    <3>2. Cardinality(CountedDirs \ {op.ino}) = Cardinality(CountedDirs) - 1
      BY <1>f, <3>1, FS_RemoveElement
    <3>3. Cardinality(CountedDirs) > 0
      <4>1. Cardinality(CountedDirs) # 0
        BY <1>f, <3>1, FS_EmptySet
      <4> QED BY <1>f, <4>1
    <3>4. mirror = gd[0]
      BY <2>1, <2>8 DEF MirrorInv
    <3>5. gd' = [gd EXCEPT ![0] = [mirror EXCEPT !.used = mirror.used - 1]]
      BY <1>2, <2>8, <3>3, <3>4 DEF UncountDir, CountDirs, DirsInv
    <3>6. gd'[0].used = gd[0].used - 1
      BY <1>t, <1>z, <3>4, <3>5 DEF GdType
    <3> QED BY <3>1, <3>2, <3>6 DEF DirsInv
  <2> QED BY <2>7, <2>8
<1>3. ASSUME ~CountNewDir, ~UncountDir
      PROVE  \A i \in Inos : IsCounted(i)' <=> IsCounted(i)
  <2>l. ~AddEntry /\ ~RemoveEntry => \A i \in Inos : LiveDir(i)' <=> LiveDir(i)
    BY TreeSteps
  <2>1. CASE AddEntry
    <3>1. op.pc = "entry"
      BY <2>1, Moves
    <3>2. op.ino # RootIno /\ NoEntry(op.ino)
      BY <1>m, <3>1 DEF MakeInv, ReservedInos
    <3>3. ~LiveDir(op.ino)
      BY <3>2 DEF LiveDir, NoEntry
    <3>4. \A i \in Inos : LiveDir(i)' <=> LiveDir(i) \/ (i = op.ino /\ op.kind = "dir")
      BY <2>1, TreeSteps
    <3>5. \/ op'.pc = "nlink" /\ op.kind = "dir" /\ op'.ino = op.ino
          \/ op'.pc = "idle" /\ op.kind # "dir"
      BY <1>c, <2>1, Moves
    <3> QED BY <3>1, <3>3, <3>4, <3>5 DEF IsCounted, Removing
  <2>2. CASE RemoveEntry
    <3>1. op.pc = "rmentry" /\ op'.pc = "rmdata" /\ SameCall
      BY <2>2, Moves
    <3>2. itab[op.ino].kind = op.kind /\ OpEntry \in ents
      BY <1>m, <2>2, <3>1, TreeSteps DEF RemoveInv
    <3>3. LiveDir(op.ino) <=> op.kind = "dir"
      BY <1>o, <3>2 DEF LiveDir
    <3>4. \A i \in Inos : LiveDir(i)' <=> LiveDir(i) /\ i # op.ino
      BY <2>2, TreeSteps
    <3>5. op.rm
      BY <3>1 DEF HeldInv
    <3>6. Removing' <=> op.kind = "dir"
      BY <1>c, <3>1, <3>5 DEF Removing
    <3>7. ~Removing
      BY <3>1 DEF Removing
    <3> QED BY <1>c, <3>1, <3>3, <3>4, <3>6, <3>7 DEF IsCounted
  <2>3. CASE WriteParent
    <3>1. op.pc = "nlink" /\ op'.pc = "used" /\ op'.ino = op.ino /\ ~AddEntry /\ ~RemoveEntry
      BY <1>c, <2>3, Moves
    <3> QED BY <2>l, <3>1 DEF IsCounted, Removing
  <2>4. CASE FreeData \/ DeleteInode \/ FreeBit \/ UnlinkParent \/ FreeGd
    <3>1. /\ op.pc \in {"rmdata", "rminode", "rmbit", "rmgd", "rmlink"}
          /\ \/ op'.pc \in {"rminode", "rmbit", "rmgd", "rmlink", "rmused"} /\ SameCall
             \/ op'.pc = "idle" /\ ~(op.kind = "dir" /\ op.rm)
          /\ ~AddEntry /\ ~RemoveEntry
      BY <2>4, Moves
    <3>2. Removing' <=> Removing
      BY <1>c, <3>1 DEF Removing
    <3>3. Removing => op'.ino = op.ino
      BY <1>c, <3>1 DEF Removing
    <3> QED BY <2>l, <3>1, <3>2, <3>3 DEF IsCounted
  <2>5. CASE NewBlock
    <3>1. op.pc = "block" /\ op'.pc \in {"data", "rmbit"} /\ op'.rm = op.rm
          /\ ~AddEntry /\ ~RemoveEntry
      BY <1>k, <2>5, Moves
    <3>2. ~op.rm
      BY <3>1 DEF HeldInv
    <3> QED BY <2>l, <3>1, <3>2 DEF IsCounted, Removing
  <2>6. CASE Lost \/ UNCHANGED vars
    BY <2>6 DEF Lost, vars, disk, IsCounted, Removing, LiveDir
  <2>7. CASE ScanEnd \/ AllocBit \/ AllocGd \/ WriteData \/ WriteInode
    <3>1. /\ op.pc \in {"ialloc", "igd", "data", "inode"}
          /\ op'.pc \in {"idle", "ialloc", "igd", "block", "inode", "entry"}
          /\ ~AddEntry /\ ~RemoveEntry
      BY <2>7, Moves
    <3> QED BY <2>l, <3>1 DEF IsCounted, Removing
  <2>8. CASE \/ \E d \in Inos, n \in Names, k \in {"file", "dir"} : Make(d, n, k)
             \/ \E e \in ents : Remove(e)
    <3>1. op.pc = "idle" /\ op'.pc \in {"ialloc", "rmentry"} /\ ~AddEntry /\ ~RemoveEntry
      BY <2>8, Moves
    <3> QED BY <2>l, <3>1 DEF IsCounted, Removing
  <2>9. ~Rollback
    BY Moves DEF HeldInv
  <2> QED BY <1>3, <2>1, <2>2, <2>3, <2>4, <2>5, <2>6, <2>7, <2>8, <2>9 DEF Next
<1>4. CASE ~CountNewDir /\ ~UncountDir
  <2>1. gd'[0].used = gd[0].used
    BY <1>4, CountSteps DEF HeldInv
  <2> QED BY <1>3, <1>4, <1>s, <2>1
<1> QED BY <1>1, <1>2, <1>4

\* What a link count counts.
LEMMA SubsAre ==
  ASSUME HeldInv, NEW i
  PROVE  /\ IsFiniteSet(CountedSubs(i)) /\ Cardinality(CountedSubs(i)) \in Nat
         /\ \A e : e \in CountedSubs(i) <=>
               \/ /\ e \in ents /\ e.dir = i /\ itab[e.ino].kind = "dir"
                  /\ ~(op.pc = "nlink" /\ e = OpEntry)
               \/ Removing /\ op.pc # "rmused" /\ op.dir = i /\ e = OpEntry
<1>1. CountedSubs(i) \in SUBSET (ents \cup {OpEntry})
  BY DEF CountedSubs
<1>2. IsFiniteSet(ents \cup {OpEntry})
  BY FS_AddElement DEF HeldInv
<1>3. IsFiniteSet(CountedSubs(i)) /\ Cardinality(CountedSubs(i)) \in Nat
  BY <1>1, <1>2, FS_Subset, FS_CardinalityType
<1>4. \A e : e \in CountedSubs(i) <=>
         \/ /\ e \in ents /\ e.dir = i /\ itab[e.ino].kind = "dir"
            /\ ~(op.pc = "nlink" /\ e = OpEntry)
         \/ Removing /\ op.pc # "rmused" /\ op.dir = i /\ e = OpEntry
  BY DEF CountedSubs
<1> QED BY <1>3, <1>4

\* A directory's link count is that of its subdirectories, but for the one that
\* the call under way has linked or unlinked and not yet counted in its parent.
LEMMA StepLinks ==
  ASSUME TypeOK, TypeOK', DiskInv, CallInv, HeldInv, HeldInv', LinksInv,
         [Next]_vars, ~astray, ~OneFault, ~Fault, ~PowerCycle
  PROVE  LinksInv'
<1>t. itab \in [Inos -> InodeType] /\ op.ino \in Inos /\ op.dir \in Inos
      /\ op.kind \in {"file", "dir"} /\ op.rm \in BOOLEAN /\ \A e \in ents : e.ino \in Inos
  BY DEF TypeOK, OpType, Entry
<1>m. DiskInv /\ MakeInv /\ RemoveInv
  BY DEF CallInv
<1>o. /\ OpEntry.dir = op.dir /\ OpEntry.name = op.name /\ OpEntry.ino = op.ino
      /\ SameCall => OpEntry' = OpEntry
  BY DEF OpEntry, SameCall, SameName
<1>c. SameCall => /\ op'.kind = op.kind /\ op'.rm = op.rm /\ op'.ino = op.ino
                  /\ op'.dir = op.dir
  BY DEF SameCall, SameName
<1>k. SameName => op'.kind = op.kind /\ op'.rm = op.rm
  BY DEF SameName
<1>a. \A i : \A e : e \in CountedSubs(i) <=>
         \/ /\ e \in ents /\ e.dir = i /\ itab[e.ino].kind = "dir"
            /\ ~(op.pc = "nlink" /\ e = OpEntry)
         \/ Removing /\ op.pc # "rmused" /\ op.dir = i /\ e = OpEntry
  BY SubsAre
<1>b. \A i : \A e : e \in CountedSubs(i)' <=>
         \/ /\ e \in ents' /\ e.dir = i /\ itab'[e.ino].kind = "dir"
            /\ ~(op'.pc = "nlink" /\ e = OpEntry')
         \/ Removing' /\ op'.pc # "rmused" /\ op'.dir = i /\ e = OpEntry'
  BY DEF CountedSubs
\* A step that changes no link count of a directory and nothing it counts.
<1>s. ASSUME \A i \in Inos : LiveDir(i)' =>
                 LiveDir(i) /\ itab'[i].nlink = itab[i].nlink,
             \A i \in Inos : LiveDir(i)' => CountedSubs(i)' = CountedSubs(i)
      PROVE  LinksInv'
  BY <1>s DEF LinksInv
<1>1. CASE AddEntry
  <2>1. op.pc = "entry"
    BY <1>1, Moves
  <2>2. /\ ents' = ents \cup {OpEntry} /\ itab' = itab
        /\ \A i \in Inos : LiveDir(i)' <=> LiveDir(i) \/ (i = op.ino /\ op.kind = "dir")
    BY <1>1, TreeSteps
  <2>3. /\ op.ino # RootIno /\ NoEntry(op.ino) /\ itab[op.ino].kind = op.kind
        /\ LiveDir(op.dir)
    BY <1>m, <2>1 DEF MakeInv, ReservedInos
  <2>4. \/ op'.pc = "nlink" /\ op.kind = "dir" /\ SameCall
        \/ op'.pc = "idle" /\ op.kind # "dir"
    BY <1>1, Moves
  <2>5. ~Removing /\ ~Removing'
    BY <2>1, <2>4 DEF Removing
  <2>6. OpEntry \notin ents
    BY <1>o, <2>3 DEF NoEntry
  <2>7. ASSUME NEW i \in Inos PROVE CountedSubs(i)' = CountedSubs(i)
    <3>1. ASSUME NEW e PROVE e \in CountedSubs(i)' <=> e \in CountedSubs(i)
      BY <1>a, <1>b, <1>o, <2>1, <2>2, <2>3, <2>4, <2>5, <2>6
    <3> QED BY <3>1
  <2>8. ~LiveDir(op.ino)
    BY <2>3 DEF LiveDir, NoEntry
  <2>9. op.kind = "dir" => itab[op.ino].nlink = 2 /\ CountedSubs(op.ino) = {}
    <3>1. \A e \in ents : e.dir # op.ino
      BY <1>m, <2>8 DEF DiskInv, NamesInv
    <3> QED BY <1>a, <2>1, <2>5, <3>1 DEF HeldInv
  <2>10. ASSUME NEW i \in Inos, LiveDir(i)'
         PROVE  itab'[i].nlink = 2 + Cardinality(CountedSubs(i)')
    <3>1. CASE LiveDir(i)
      BY <2>2, <2>7, <3>1 DEF LinksInv
    <3>2. CASE i = op.ino /\ op.kind = "dir"
      <4>1. Cardinality({}) = 0
        BY FS_EmptySet
      <4>2. CountedSubs(i)' = {} /\ itab'[i].nlink = 2
        BY <2>2, <2>7, <2>9, <3>2
      <4> QED BY <4>1, <4>2
    <3> QED BY <2>2, <2>10, <3>1, <3>2
  <2> QED BY <2>10 DEF LinksInv
<1>2. CASE RemoveEntry
  <2>1. op.pc = "rmentry" /\ op'.pc = "rmdata" /\ SameCall
    BY <1>2, Moves
  <2>2. /\ OpEntry \in ents /\ ents' = ents \ {OpEntry} /\ itab' = itab
        /\ \A i \in Inos : LiveDir(i)' <=> LiveDir(i) /\ i # op.ino
    BY <1>2, TreeSteps
  <2>3. itab[op.ino].kind = op.kind /\ op.rm
    BY <1>m, <2>1 DEF RemoveInv, HeldInv
  <2>4. ~Removing /\ (Removing' <=> op.kind = "dir")
    BY <1>c, <2>1, <2>3 DEF Removing
  <2>5. ASSUME NEW i \in Inos PROVE CountedSubs(i)' = CountedSubs(i)
    <3>1. ASSUME NEW e PROVE e \in CountedSubs(i)' <=> e \in CountedSubs(i)
      BY <1>a, <1>b, <1>c, <1>o, <2>1, <2>2, <2>3, <2>4
    <3> QED BY <3>1
  <2> QED BY <1>s, <2>2, <2>5
<1>3. CASE WriteParent
  <2>1. op.pc = "nlink" /\ op'.pc = "used" /\ SameCall /\ ~AddEntry /\ ~RemoveEntry
    BY <1>3, Moves
  <2>2. /\ ents' = ents
        /\ \A e \in ents : itab'[e.ino].kind = itab[e.ino].kind
        /\ \A i \in Inos : LiveDir(i)' <=> LiveDir(i)
    BY <2>1, TreeSteps
  <2>3. OpEntry \in ents /\ itab[op.ino].kind = "dir" /\ ~Removing /\ ~Removing'
    BY <2>1 DEF HeldInv, Removing
  <2>4. itab' = [itab EXCEPT ![op.dir].nlink = @ + 1]
    BY <1>3 DEF WriteParent, ParentLink
  <2>5. \A i \in Inos : i # op.dir => itab'[i] = itab[i]
    BY <1>t, <2>4
  <2>6. itab'[op.dir].nlink = itab[op.dir].nlink + 1 /\ itab[op.dir].nlink \in Int
    <3>1. itab[op.dir] \in InodeType
      BY <1>t
    <3> QED BY <1>t, <2>4, <3>1 DEF InodeType
  <2>7. ASSUME NEW i \in Inos, i # op.dir PROVE CountedSubs(i)' = CountedSubs(i)
    <3>1. ASSUME NEW e PROVE e \in CountedSubs(i)' <=> e \in CountedSubs(i)
      BY <1>a, <1>b, <1>o, <2>1, <2>2, <2>3, <2>7
    <3> QED BY <3>1
  <2>8. ASSUME NEW i \in Inos, LiveDir(i)'
        PROVE  itab'[i].nlink = 2 + Cardinality(CountedSubs(i)')
    <3>1. CASE i # op.dir
      BY <2>2, <2>5, <2>7, <2>8, <3>1 DEF LinksInv
    <3>2. CASE i = op.dir
      <4> DEFINE S == CountedSubs(i)
      <4>1. IsFiniteSet(S) /\ Cardinality(S) \in Nat
        BY SubsAre
      <4>2. CountedSubs(i)' = S \cup {OpEntry} /\ OpEntry \notin S
        <5>1. ASSUME NEW e PROVE e \in CountedSubs(i)' <=> e \in S \/ e = OpEntry
          BY <1>a, <1>b, <1>o, <2>1, <2>2, <2>3, <3>2
        <5>2. OpEntry \notin S
          BY <1>a, <2>1, <2>3
        <5> QED BY <5>1, <5>2
      <4>3. itab[i].nlink = 2 + Cardinality(S)
        BY <2>2, <2>8 DEF LinksInv
      <4> HIDE DEF S
      <4>4. Cardinality(S \cup {OpEntry}) = Cardinality(S) + 1
        BY <4>1, <4>2, FS_AddElement
      <4>5. itab'[i].nlink = itab[i].nlink + 1
        BY <2>6, <3>2
      <4> QED BY <4>1, <4>2, <4>3, <4>4, <4>5
    <3> QED BY <3>1, <3>2
  <2> QED BY <2>8 DEF LinksInv
<1>4. CASE UnlinkParent
  <2>1. op.pc = "rmlink" /\ op'.pc = "rmused" /\ SameCall /\ ~AddEntry /\ ~RemoveEntry
    BY <1>4, Moves
  <2>2. /\ ents' = ents
        /\ \A e \in ents : itab'[e.ino].kind = itab[e.ino].kind
        /\ \A i \in Inos : LiveDir(i)' <=> LiveDir(i)
    BY <2>1, TreeSteps
  <2>3. OpEntry \notin ents /\ Removing
    BY <1>o, <2>1 DEF HeldInv, NoEntry, Removing
  <2>4. itab' = [itab EXCEPT ![op.dir].nlink = @ - 1]
    BY <1>t, <1>4 DEF UnlinkParent, ParentLink
  <2>5. \A i \in Inos : i # op.dir => itab'[i] = itab[i]
    BY <1>t, <2>4
  <2>6. itab'[op.dir].nlink = itab[op.dir].nlink - 1 /\ itab[op.dir].nlink \in Int
    <3>1. itab[op.dir] \in InodeType
      BY <1>t
    <3> QED BY <1>t, <2>4, <3>1 DEF InodeType
  <2>7. ASSUME NEW i \in Inos, i # op.dir PROVE CountedSubs(i)' = CountedSubs(i)
    <3>1. ASSUME NEW e PROVE e \in CountedSubs(i)' <=> e \in CountedSubs(i)
      BY <1>a, <1>b, <1>o, <2>1, <2>2, <2>3, <2>7
    <3> QED BY <3>1
  <2>8. ASSUME NEW i \in Inos, LiveDir(i)'
        PROVE  itab'[i].nlink = 2 + Cardinality(CountedSubs(i)')
    <3>1. CASE i # op.dir
      BY <2>2, <2>5, <2>7, <2>8, <3>1 DEF LinksInv
    <3>2. CASE i = op.dir
      <4> DEFINE S == CountedSubs(i)
      <4>1. IsFiniteSet(S) /\ Cardinality(S) \in Nat
        BY SubsAre
      <4>2. CountedSubs(i)' = S \ {OpEntry} /\ OpEntry \in S
        <5>1. ASSUME NEW e PROVE e \in CountedSubs(i)' <=> e \in S /\ e # OpEntry
          BY <1>a, <1>b, <1>o, <2>1, <2>2, <2>3, <3>2
        <5>2. OpEntry \in S
          BY <1>a, <2>1, <2>3, <3>2
        <5> QED BY <5>1, <5>2
      <4>3. itab[i].nlink = 2 + Cardinality(S)
        BY <2>2, <2>8 DEF LinksInv
      <4> HIDE DEF S
      <4>4. Cardinality(S \ {OpEntry}) = Cardinality(S) - 1
        BY <4>1, <4>2, FS_RemoveElement
      <4>5. itab'[i].nlink = itab[i].nlink - 1
        BY <2>6, <3>2
      <4> QED BY <4>1, <4>2, <4>3, <4>4, <4>5
    <3> QED BY <3>1, <3>2
  <2> QED BY <2>8 DEF LinksInv
<1>5. ASSUME ~AddEntry, ~RemoveEntry, ~WriteParent, ~UnlinkParent PROVE LinksInv'
  <2>1. /\ ents' = ents
        /\ \A e \in ents : itab'[e.ino].kind = itab[e.ino].kind
        /\ \A i \in Inos : LiveDir(i)' <=> LiveDir(i)
    BY <1>5, TreeSteps
  <2>2. \A i \in Inos : LiveDir(i) => itab'[i].nlink = itab[i].nlink
    <3>1. CASE WriteInode \/ DeleteInode
      <4>1. op.pc \in {"inode", "rminode"}
        BY <3>1, Moves
      <4>2. op.ino # RootIno /\ NoEntry(op.ino)
        BY <1>m, <4>1 DEF MakeInv, RemoveInv, ReservedInos
      <4>3. \A i \in Inos : i # op.ino => itab'[i] = itab[i]
        BY <3>1, <1>t DEF WriteInode, DeleteInode
      <4> QED BY <4>2, <4>3 DEF LiveDir, NoEntry
    <3>2. ASSUME ~WriteInode, ~DeleteInode PROVE itab' = itab
      BY <1>5, <3>2 DEF Next, Make, ScanEnd, AllocBit, AllocGd, NewBlock, WriteData,
                Rollback, CountNewDir, Remove, FreeData, FreeBit, FreeGd, UncountDir,
                PowerCycle, Lost, vars, disk
    <3> QED BY <3>1, <3>2
  <2> DEFINE Q == Removing /\ op.pc # "rmused"
  <2>q. ASSUME op.pc # "nlink", op'.pc # "nlink", Q' <=> Q, Q => SameCall
        PROVE  LinksInv'
    <3>1. ASSUME NEW i \in Inos PROVE CountedSubs(i)' = CountedSubs(i)
      <4>1. ASSUME NEW e PROVE e \in CountedSubs(i)' <=> e \in CountedSubs(i)
        BY <1>a, <1>b, <1>c, <1>o, <2>1, <2>q
      <4> QED BY <4>1
    <3> QED BY <1>s, <2>1, <2>2, <3>1
  <2>3. CASE FreeData \/ DeleteInode \/ FreeBit \/ FreeGd
    <3>1. /\ op.pc \in {"rmdata", "rminode", "rmbit", "rmgd"}
          /\ \/ op'.pc \in {"rminode", "rmbit", "rmgd", "rmlink"} /\ SameCall
             \/ op'.pc = "idle" /\ ~(op.kind = "dir" /\ op.rm)
      BY <2>3, Moves
    <3> QED BY <1>c, <2>q, <3>1 DEF Removing
  <2>4. CASE NewBlock
    <3>1. op.pc = "block" /\ op'.pc \in {"data", "rmbit"} /\ op'.rm = op.rm
      BY <1>k, <2>4, Moves
    <3>2. ~op.rm
      BY <3>1 DEF HeldInv
    <3> QED BY <2>q, <3>1, <3>2 DEF Removing
  <2>5. CASE Lost \/ UNCHANGED vars
    <3>1. op' = op /\ UNCHANGED <<ents, itab>>
      BY <2>5 DEF Lost, vars, disk
    <3>2. \A i : CountedSubs(i)' = CountedSubs(i)
      BY <3>1 DEF CountedSubs, OpEntry, Removing
    <3> QED BY <1>s, <2>1, <2>2, <3>2
  <2>6. CASE ScanEnd \/ AllocBit \/ AllocGd \/ WriteData \/ WriteInode \/ CountNewDir \/ UncountDir
    <3>1. /\ op.pc \in {"ialloc", "igd", "data", "inode", "used", "rmused"}
          /\ op'.pc \in {"idle", "ialloc", "igd", "block", "inode", "entry"}
      BY <2>6, Moves
    <3> QED BY <2>q, <3>1 DEF Removing
  <2>7. CASE \/ \E d \in Inos, n \in Names, k \in {"file", "dir"} : Make(d, n, k)
             \/ \E e \in ents : Remove(e)
    <3>1. op.pc = "idle" /\ op'.pc \in {"ialloc", "rmentry"}
      BY <2>7, Moves
    <3> QED BY <2>q, <3>1 DEF Removing
  <2>8. ~Rollback
    BY Moves DEF HeldInv
  <2> QED BY <1>5, <2>3, <2>4, <2>5, <2>6, <2>7, <2>8 DEF Next
<1> QED BY <1>1, <1>2, <1>3, <1>4, <1>5

-----------------------------------------------------------------------------
(* The counts.                                                              *)

\* mkfs leaves exact counts.
LEMMA InitCounts == Init => CountInv
<1> SUFFICES ASSUME Init PROVE CountInv
  OBVIOUS
<1>1. op.pc = "idle" /\ ents = {} /\ ibmap = {1, 2} /\ bbmap = {RootBlock}
      /\ InodesPerGroup \in Nat /\ InodesPerGroup > 2 /\ BlocksPerGroup \in Nat \ {0}
  BY IdleType, NamespaceAssumption DEF Init, ReservedInos, RootIno
<1>e. IsFiniteSet({}) /\ Cardinality({}) = 0
  BY FS_EmptySet
<1>s. \A x : IsFiniteSet({x}) /\ Cardinality({x}) = 1
  BY FS_Singleton
<1>2. HeldInv
  BY <1>1, <1>e DEF HeldInv
<1>3. 1 \in Inos /\ 2 \in Inos /\ GroupOf(1) = 0 /\ GroupOf(2) = 0
  <2>1. (1 - 1) \div InodesPerGroup = 0 /\ (2 - 1) \div InodesPerGroup = 0
    BY <1>1
  <2> QED BY <2>1, Constants DEF GroupOf, ReservedInos, RootIno
<1>4. InodesInv
  <2>1. CountedInos = {1, 2}
    BY <1>1 DEF CountedInos
  <2>2. Cardinality({1, 2}) = 2
    <3>1. Cardinality({1} \cup {2}) = Cardinality({1}) + 1
      <4> DEFINE one == {1}
      <4>1. 2 \notin one
        OBVIOUS
      <4>2. IsFiniteSet(one)
        BY <1>s
      <4> HIDE DEF one
      <4>3. Cardinality(one \cup {2}) = Cardinality(one) + 1
        BY <4>1, <4>2, FS_AddElement
      <4> QED BY <4>3 DEF one
    <3>2. {1} \cup {2} = {1, 2}
      OBVIOUS
    <3> QED BY <1>s, <3>1, <3>2
  <2>3. {1, 2} \cap GroupInos(0) = {1, 2}
    BY <1>3 DEF GroupInos
  <2>4. \A g \in Groups \ {0} : {1, 2} \cap GroupInos(g) = {}
    BY <1>3 DEF GroupInos
  <2>5. ASSUME NEW g \in Groups
        PROVE  gd[g].ifree = InodesPerGroup - Cardinality({1, 2} \cap GroupInos(g))
    <3>1. CASE g = 0
      <4>1. gd[0].ifree = InodesPerGroup - 2
        BY Constants DEF Init
      <4> QED BY <2>2, <2>3, <3>1, <4>1
    <3>2. CASE g # 0
      <4>1. gd[g].ifree = InodesPerGroup
        BY <3>2 DEF Init
      <4>2. {1, 2} \cap GroupInos(g) = {}
        BY <2>4, <3>2
      <4> QED BY <1>1, <1>e, <4>1, <4>2
    <3> QED BY <3>1, <3>2
  <2> QED BY <2>1, <2>5 DEF InodesInv
<1>5. BlocksInv
  <2>1. RootBlock[1] = 0
    BY DEF RootBlock
  <2>2. BlocksOf(0) = {RootBlock} /\ \A g \in Groups \ {0} : BlocksOf(g) = {}
    BY <1>1, <2>1 DEF BlocksOf
  <2>3. ASSUME NEW g \in Groups
        PROVE  gd[g].bfree = BlocksPerGroup - Cardinality(BlocksOf(g))
    <3>1. CASE g = 0
      <4>1. gd[0].bfree = BlocksPerGroup - 1
        BY Constants DEF Init
      <4> QED BY <1>s, <2>2, <3>1, <4>1
    <3>2. CASE g # 0
      <4>1. gd[g].bfree = BlocksPerGroup
        BY <3>2 DEF Init
      <4>2. BlocksOf(g) = {}
        BY <2>2, <3>2
      <4> QED BY <1>1, <1>e, <4>1, <4>2
    <3> QED BY <3>1, <3>2
  <2> QED BY <2>3 DEF BlocksInv
<1>6. SuperInv
  BY DEF Init, SuperInv
<1>7. \A i \in Inos : LiveDir(i) <=> i = RootIno
  BY <1>1, Constants DEF Init, LiveDir
<1>8. DirsInv
  <2>1. CountedDirs = {RootIno}
    BY <1>1, <1>3, <1>7 DEF CountedDirs, IsCounted, Removing, GroupInos, RootIno
  <2>2. gd[0].used = 1
    BY Constants DEF Init
  <2> QED BY <1>s, <2>1, <2>2 DEF DirsInv
<1>9. LinksInv
  <2>1. \A i : CountedSubs(i) = {}
    BY <1>1 DEF CountedSubs, Removing
  <2>2. itab[RootIno].nlink = 2
    BY Constants DEF Init
  <2> QED BY <1>e, <1>7, <2>1, <2>2 DEF LinksInv
<1> QED BY <1>2, <1>4, <1>5, <1>6, <1>8, <1>9 DEF CountInv

\* As long as nothing has failed, the power has stayed on and no second entry of a
\* name has been begun, the disk and the call are sound and every count is that of
\* what it counts.
LEMMA CountsAlways == Spec => [](TypeOK /\ (Clean => DiskInv /\ CallInv /\ CountInv))
<1> DEFINE Books == Clean => DiskInv /\ CallInv /\ CountInv
<1>1. Init => Books /\ MirrorInv
  BY InitEntries, InitCounts, IdleType DEF Init, MirrorInv
<1>2. TypeOK /\ TypeOK' /\ MirrorInv /\ Books /\ [Next]_vars => Books' /\ MirrorInv'
  <2> SUFFICES ASSUME TypeOK, TypeOK', MirrorInv, Books, [Next]_vars, Clean'
               PROVE  DiskInv' /\ CallInv' /\ CountInv'
    BY StepMirror
  <2>1. Clean /\ ~OneFault /\ ~Fault /\ ~PowerCycle
    BY CleanStays
  <2>a. ~astray /\ ~astray'
    BY <2>1 DEF Clean
  <2>2. DiskInv /\ CallInv /\ CountInv
    BY <2>1
  <2>3. HeldInv /\ InodesInv /\ BlocksInv /\ SuperInv /\ DirsInv /\ LinksInv
    BY <2>2 DEF CountInv
  <2>4. DiskInv' /\ CallInv'
    BY <2>2, <2>a, StepEntries
  <2>5. HeldInv'
    BY <2>1, <2>2, <2>3, <2>a, StepHeld
  <2>6. InodesInv' /\ BlocksInv' /\ SuperInv'
    BY <2>1, <2>2, <2>3, StepInodes, StepBlocks, StepSuper
  <2>7. DirsInv' /\ LinksInv'
    BY <2>1, <2>2, <2>3, <2>5, <2>a, StepDirs, StepLinks
  <2> QED BY <2>4, <2>5, <2>6, <2>7 DEF CountInv
<1>3. Spec => []Books
  <2> HIDE DEF Books
  <2> QED BY <1>1, <1>2, TypeCorrect, PTL DEF Spec
<1> QED BY <1>3, TypeCorrect, PTL

\* Between calls, with no failure, no power loss and no mkdir of a name that is
\* there, the free counts of the descriptors are those of the bitmaps, the super
\* block's is their sum, and group 0's count of directories is exact, for every
\* geometry.
THEOREM CountsExactHolds == Spec => []CountsExact
<1>1. TypeOK /\ (Clean => DiskInv /\ CallInv /\ CountInv) => CountsExact
  <2> SUFFICES ASSUME TypeOK, CountInv, op.pc = "idle"
               PROVE  /\ \A g \in Groups :
                          /\ gd[g].ifree = InodesPerGroup - Cardinality(ibmap \cap GroupInos(g))
                          /\ gd[g].bfree = BlocksPerGroup - Cardinality({b \in bbmap : b[1] = g})
                      /\ sbfree = SumFree
                      /\ gd[0].used = Cardinality({i \in GroupInos(0) : LiveDir(i)})
    BY DEF CountsExact, Quiet, At, Clean
  <2>1. CountedInos = ibmap
    BY DEF CountedInos
  <2>2. CountedDirs = {i \in GroupInos(0) : LiveDir(i)}
    BY DEF CountedDirs, IsCounted, Removing
  <2> QED BY <2>1, <2>2 DEF CountInv, InodesInv, BlocksInv, BlocksOf, SuperInv, DirsInv
<1> QED BY <1>1, CountsAlways, PTL

\* Between calls, with no failure, no power loss and no mkdir of a name that is
\* there, a directory's link count is two plus the number of its subdirectories:
\* mkdir and rmdir count in the parent what they link and unlink, whatever
\* directory that is.
THEOREM LinksExactHolds == Spec => []LinksExact
<1>1. TypeOK /\ (Clean => DiskInv /\ CallInv /\ CountInv) => LinksExact
  <2> SUFFICES ASSUME CountInv, op.pc = "idle", NEW i \in Inos, LiveDir(i)
               PROVE  itab[i].nlink = 2 + Cardinality({e \in ents : e.dir = i /\ itab[e.ino].kind = "dir"})
    BY DEF LinksExact, Quiet, At, Clean
  <2>1. CountedSubs(i) = {e \in ents : e.dir = i /\ itab[e.ino].kind = "dir"}
    BY DEF CountedSubs, Removing
  <2> QED BY <2>1 DEF CountInv, LinksInv
<1> QED BY <1>1, CountsAlways, PTL
=============================================================================
