------------------------------ MODULE Namespace ------------------------------
(***************************************************************************)
(* Creating and removing files and directories in MiniExt4                  *)
(* (fs/ext4/inode.c) on top of the inode allocator (fs/ext4/ialloc.c).      *)
(* There is no journal: a call is a sequence of block writes, each a step   *)
(* here, and the power may go between any two of them.  A write may also    *)
(* fail.                                                                    *)
(*                                                                          *)
(* The code looks a name up, and counts the names in a directory, before    *)
(* the calls here, but not always, and not always with the answer of the    *)
(* disk: a call may begin that makes a second entry of a name or removes a  *)
(* directory with names in it.  The ghost astray says when one has begun,   *)
(* or when a call has led an entry to an inode that was not written or is   *)
(* given back; no further call is modelled then.                            *)
(*                                                                          *)
(* Allocating or freeing a data block is one step: BlockAlloc says what is  *)
(* inside it.  Files have no data blocks here; a directory has one.         *)
(***************************************************************************)
EXTENDS Integers, FiniteSets, FiniteSetsExt

CONSTANTS
    GroupsCount,        \* s_groups_count
    InodesPerGroup,     \* s_inodes_per_group
    BlocksPerGroup,     \* data blocks of a group
    Names,
    MaxFaults,          \* bound on failing reads and writes
    MaxCrashes          \* bound on power losses

Groups == 0 .. GroupsCount - 1
Inos == 1 .. GroupsCount * InodesPerGroup
Blocks == Groups \X (1 .. BlocksPerGroup)
RootIno == 2
ReservedInos == {1, RootIno}
NoBlock == <<GroupsCount, 0>>

ASSUME NamespaceAssumption ==
    /\ GroupsCount \in Nat \ {0}
    /\ InodesPerGroup \in Nat /\ InodesPerGroup > 2
    /\ BlocksPerGroup \in Nat \ {0}
    /\ Names # {}
    /\ MaxFaults \in Nat /\ MaxCrashes \in Nat

VARIABLES
    ibmap,      \* on disk: the inodes whose bitmap bit is set
    bbmap,      \* on disk: the data blocks whose bitmap bit is set
    gd,         \* on disk: free inodes, free blocks, used dirs of each group
    sbfree,     \* on disk: s_free_inodes_count
    itab,       \* on disk: the inode table
    ents,       \* on disk: the directory entries
    mirror,     \* in memory: s_group_desc, the descriptor of group 0
    op,         \* the call under way
    faults, crashes,
    astray      \* ghost: an entry has been made or removed that should not be

disk == <<ibmap, bbmap, gd, sbfree, itab, ents>>
vars == <<disk, mirror, op, faults, crashes, astray>>

Kinds == {"free", "file", "dir"}
Entry == [dir : Inos, name : Names, ino : Inos]
NoInode == [kind |-> "free", nlink |-> 0, blk |-> NoBlock]
IdleOp == [pc |-> "idle", dir |-> RootIno, name |-> CHOOSE n \in Names : TRUE,
           kind |-> "file", ino |-> RootIno, blk |-> NoBlock, scanned |-> 0, rm |-> FALSE]
PCs == {"idle", "ialloc", "igd", "block", "data", "inode", "entry", "nlink", "used",
        "rollback", "rmentry", "rmdata", "rminode", "rmbit", "rmgd", "rmlink", "rmused"}

GdType == [ifree : Nat, bfree : Nat, used : Nat]
InodeType == [kind : Kinds, nlink : Int, blk : Blocks \cup {NoBlock}]
OpType == [pc : PCs, dir : Inos, name : Names, kind : {"file", "dir"}, ino : Inos,
           blk : Blocks \cup {NoBlock}, scanned : Nat, rm : BOOLEAN]

TypeOK ==
    /\ ibmap \subseteq Inos
    /\ bbmap \subseteq Blocks
    /\ gd \in [Groups -> GdType]
    /\ sbfree \in Nat
    /\ itab \in [Inos -> InodeType]
    /\ ents \subseteq Entry
    /\ mirror \in GdType
    /\ op \in OpType
    /\ faults \in Nat /\ crashes \in Nat
    /\ astray \in BOOLEAN

Sum(f) == MapThenSumSet(LAMBDA g : f[g], Groups)
SumFree == Sum([g \in Groups |-> gd[g].ifree])

\* What mkfs leaves: the root directory, its block, nothing else in use.
RootBlock == <<0, 1>>
Init ==
    /\ ibmap = ReservedInos
    /\ bbmap = {RootBlock}
    /\ gd = [g \in Groups |-> IF g = 0
                THEN [ifree |-> InodesPerGroup - 2, bfree |-> BlocksPerGroup - 1, used |-> 1]
                ELSE [ifree |-> InodesPerGroup, bfree |-> BlocksPerGroup, used |-> 0]]
    /\ sbfree = SumFree
    /\ itab = [i \in Inos |-> IF i = RootIno
                THEN [kind |-> "dir", nlink |-> 2, blk |-> RootBlock] ELSE NoInode]
    /\ ents = {}
    /\ mirror = gd[0]
    /\ op = IdleOp
    /\ faults = 0 /\ crashes = 0
    /\ astray = FALSE
-------------------------------------------------------------------------------
At(pc) == op.pc = pc
Goto(pc) == op' = [op EXCEPT !.pc = pc]
Done == op' = IdleOp
NoFault == UNCHANGED <<faults, crashes>>
OneFault == faults < MaxFaults /\ faults' = faults + 1 /\ UNCHANGED crashes

\* The step works, or its write fails; either way the tree keeps its shape.
Ok == NoFault /\ UNCHANGED astray
Fault == OneFault /\ UNCHANGED astray

\* ext4_inode_group_of_ino
GroupOf(ino) == (ino - 1) \div InodesPerGroup
GroupInos(g) == {i \in Inos : GroupOf(i) = g}

\* A changed descriptor is written, and the mirror follows group 0's.  The
\* super block's count is then summed up anew; a failure there is ignored.
WriteGd(g, d) ==
    /\ gd' = [gd EXCEPT ![g] = d]
    /\ mirror' = IF g = 0 THEN d ELSE mirror

\* Mutant: the super block is left as it was.
SyncSuper_Skipped == UNCHANGED sbfree

SyncSuper == sbfree' = Sum([g \in Groups |-> gd'[g].ifree])

\* Mutant: the count is not kept from going below zero.
Less_Wraps(n) == n - 1

Less(n) == IF n > 0 THEN n - 1 ELSE 0
-------------------------------------------------------------------------------
(* ext4_create and ext4_mkdir                                               *)

LiveDir(ino) ==
    /\ itab[ino].kind = "dir"
    /\ ino = RootIno \/ \E e \in ents : e.ino = ino
Lookup(dir, name) == {e \in ents : e.dir = dir /\ e.name = name}

\* A call names a directory that is there.  mkdir takes a name that is there too:
\* vfs_mkdir does not look it up.  O_CREAT does, and creates a name that is there
\* only when reading it failed.
Make(dir, name, kind) ==
    /\ At("idle") /\ ~astray
    /\ LiveDir(dir)
    /\ op' = [IdleOp EXCEPT !.pc = "ialloc", !.dir = dir, !.name = name, !.kind = kind]
    /\ IF kind = "file" /\ Lookup(dir, name) # {} THEN OneFault ELSE NoFault
    /\ astray' = (Lookup(dir, name) # {})
    /\ UNCHANGED <<disk, mirror>>

\* ext4_new_inode_in_group: the groups from the parent's on.
ScanGroup ==
    LET g == GroupOf(op.dir) + op.scanned
    IN  IF g >= GroupsCount THEN g - GroupsCount ELSE g
NextGroup == op' = [op EXCEPT !.pc = "ialloc", !.scanned = @ + 1]

\* The first clear bit, if any.
Lowest(S) == {i \in S : \A j \in S : i <= j}

ScanEnd ==
    /\ At("ialloc") /\ op.scanned = GroupsCount
    /\ Done /\ Ok /\ UNCHANGED <<disk, mirror>>

\* A bit whose write failed may be on the disk: an inode nobody gets.
AllocBit ==
    /\ At("ialloc") /\ op.scanned < GroupsCount
    /\ LET free == GroupInos(ScanGroup) \ ibmap
       IN  \/ free = {} /\ NextGroup /\ Ok /\ UNCHANGED ibmap
           \/ \E i \in Lowest(free) :
                 \/ /\ op' = [op EXCEPT !.pc = "igd", !.ino = i]
                    /\ ibmap' = ibmap \cup {i} /\ Ok
                 \/ ibmap' \in {ibmap, ibmap \cup {i}} /\ Fault /\ NextGroup
    /\ UNCHANGED <<bbmap, gd, sbfree, itab, ents, mirror>>

\* Mutant: the mirror of group 0 is not refreshed.
AllocGd_MirrorStale ==
    LET g == GroupOf(op.ino)
        d == [gd[g] EXCEPT !.ifree = Less(@)]
    IN  /\ At("igd")
        /\ gd' = [gd EXCEPT ![g] = d] /\ SyncSuper /\ Ok
        /\ Goto(IF op.kind = "dir" THEN "block" ELSE "inode")
        /\ UNCHANGED <<ibmap, bbmap, itab, ents, mirror>>

AllocGd ==
    LET g == GroupOf(op.ino)
        d == [gd[g] EXCEPT !.ifree = Less(@)]
    IN  /\ At("igd")
        /\ \/ /\ WriteGd(g, d) /\ SyncSuper /\ Ok
              /\ Goto(IF op.kind = "dir" THEN "block" ELSE "inode")
           \/ /\ Fault /\ NextGroup
              /\ gd' \in {gd, [gd EXCEPT ![g] = d]}
              /\ UNCHANGED <<sbfree, mirror>>
        /\ UNCHANGED <<ibmap, bbmap, itab, ents>>

\* ext4_new_block_in_group; with no block the inode is given back.
NewBlock ==
    /\ At("block")
    /\ \/ \E b \in Blocks \ bbmap :
             /\ bbmap' = bbmap \cup {b}
             /\ WriteGd(b[1], [gd[b[1]] EXCEPT !.bfree = Less(@)])
             /\ op' = [op EXCEPT !.pc = "data", !.blk = b] /\ Ok
       \/ /\ bbmap = Blocks /\ Ok
          /\ Goto("rmbit") /\ UNCHANGED <<bbmap, gd, mirror>>
       \/ /\ Fault
          /\ Goto("rmbit") /\ UNCHANGED <<bbmap, gd, mirror>>
    /\ UNCHANGED <<ibmap, sbfree, itab, ents>>

\* The new directory's block with "." and "..".
WriteData ==
    /\ At("data")
    /\ \/ Goto("inode") /\ Ok
       \/ Fault /\ Goto("rollback")
    /\ UNCHANGED <<disk, mirror>>

\* Mutant: the entry is added before the inode is written.
WriteInode_AfterEntry ==
    /\ At("inode")
    /\ ents' = ents \cup {[dir |-> op.dir, name |-> op.name, ino |-> op.ino]}
    /\ Goto("entry") /\ Ok
    /\ UNCHANGED <<ibmap, bbmap, gd, sbfree, itab, mirror>>

\* The new inode; whether it could be written is not looked at, so that its entry
\* may lead to what the table had before.
WriteInode ==
    /\ At("inode")
    /\ \/ /\ itab' = [itab EXCEPT ![op.ino] =
                        [kind |-> op.kind, nlink |-> IF op.kind = "dir" THEN 2 ELSE 1,
                         blk |-> op.blk]]
          /\ Ok \/ Fault
       \/ UNCHANGED itab /\ OneFault /\ astray' = TRUE
    /\ Goto("entry")
    /\ UNCHANGED <<ibmap, bbmap, gd, sbfree, ents, mirror>>

\* ext4_add_entry.  When it fails everything is given back, even if the write that
\* was reported as failed has put the entry on the disk.
AddEntry ==
    LET e == [dir |-> op.dir, name |-> op.name, ino |-> op.ino]
        Undo == Goto(IF op.kind = "dir" THEN "rollback" ELSE "rmbit")
    IN  /\ At("entry")
        /\ \/ /\ ents' = ents \cup {e} /\ Ok
              /\ IF op.kind = "dir" THEN Goto("nlink") ELSE Done
           \/ UNCHANGED ents /\ Fault /\ Undo
           \/ ents' = ents \cup {e} /\ OneFault /\ astray' = TRUE /\ Undo
        /\ UNCHANGED <<ibmap, bbmap, gd, sbfree, itab, mirror>>

FreeBlockOf(b) ==
    /\ bbmap' = bbmap \ {b}
    /\ WriteGd(b[1], [gd[b[1]] EXCEPT !.bfree = @ + 1])

\* The failed mkdir frees its block, then its inode.
Rollback ==
    /\ At("rollback")
    /\ \/ FreeBlockOf(op.blk) /\ Ok
       \/ Fault /\ UNCHANGED <<bbmap, gd, mirror>>
    /\ Goto("rmbit")
    /\ UNCHANGED <<ibmap, sbfree, itab, ents>>

\* The parent's link count, in memory and on the disk.  The two may differ once a
\* write has failed; the model keeps the one on the disk.
ParentLink(d) ==
    \/ itab' = [itab EXCEPT ![op.dir].nlink = @ + d] /\ Ok
    \/ Fault /\ UNCHANGED itab

WriteParent ==
    /\ At("nlink")
    /\ ParentLink(1)
    /\ Goto("used")
    /\ UNCHANGED <<ibmap, bbmap, gd, sbfree, ents, mirror>>

\* The mirror's count of directories changes for a directory of any group;
\* the mirror is written for group 0 only, and whether it could be is not looked at.
CountDirs(n) ==
    LET m == [mirror EXCEPT !.used = n]
    IN  /\ mirror' = m
        /\ \/ gd' = (IF GroupOf(op.ino) = 0 THEN [gd EXCEPT ![0] = m] ELSE gd) /\ Ok
           \/ GroupOf(op.ino) = 0 /\ Fault /\ UNCHANGED gd

CountNewDir ==
    /\ At("used")
    /\ CountDirs(mirror.used + 1)
    /\ Done
    /\ UNCHANGED <<ibmap, bbmap, sbfree, itab, ents>>
-------------------------------------------------------------------------------
(* ext4_unlink and ext4_rmdir                                               *)

\* Mutant: the blocks are freed first, the entry is forgotten.
Remove_DataFirst(e) ==
    /\ At("idle") /\ ~astray
    /\ LiveDir(e.dir)
    /\ itab[e.ino].kind # "free"
    /\ op' = [IdleOp EXCEPT !.pc = "rmdata", !.dir = e.dir, !.name = e.name,
                            !.ino = e.ino, !.kind = itab[e.ino].kind,
                            !.blk = itab[e.ino].blk, !.rm = TRUE]
    /\ Ok /\ UNCHANGED <<disk, mirror>>

\* Mutant: a directory is removed with names in it.
Remove_NotEmpty(e) ==
    /\ At("idle") /\ ~astray
    /\ LiveDir(e.dir)
    /\ itab[e.ino].kind # "free"
    /\ op' = [IdleOp EXCEPT !.pc = "rmentry", !.dir = e.dir, !.name = e.name,
                            !.ino = e.ino, !.kind = itab[e.ino].kind,
                            !.blk = itab[e.ino].blk, !.rm = TRUE]
    /\ Ok /\ UNCHANGED <<disk, mirror>>

\* rmdir counts the names in the directory, and takes it for empty when reading
\* it fails: the result of ext4_dir_foreach is not looked at.
Remove(e) ==
    /\ At("idle") /\ ~astray
    /\ LiveDir(e.dir)
    /\ itab[e.ino].kind # "free"
    /\ op' = [IdleOp EXCEPT !.pc = "rmentry", !.dir = e.dir, !.name = e.name,
                            !.ino = e.ino, !.kind = itab[e.ino].kind,
                            !.blk = itab[e.ino].blk, !.rm = TRUE]
    /\ astray' = (itab[e.ino].kind = "dir" /\ \E x \in ents : x.dir = e.ino)
    /\ IF astray' THEN OneFault ELSE NoFault
    /\ UNCHANGED <<disk, mirror>>

RemoveEntry ==
    LET left == ents \ Lookup(op.dir, op.name)
    IN  /\ At("rmentry")
        /\ \/ ents' = left /\ Goto("rmdata") /\ Ok
           \/ ents' \in {ents, left} /\ Done /\ Fault
        /\ UNCHANGED <<ibmap, bbmap, gd, sbfree, itab, mirror>>

FreeData ==
    /\ At("rmdata")
    /\ \/ op.blk # NoBlock /\ FreeBlockOf(op.blk) /\ Ok
       \/ op.blk = NoBlock /\ Ok /\ UNCHANGED <<bbmap, gd, mirror>>
       \/ op.blk # NoBlock /\ Fault /\ UNCHANGED <<bbmap, gd, mirror>>
    /\ Goto("rminode")
    /\ UNCHANGED <<ibmap, sbfree, itab, ents>>

\* The inode goes to the disk as deleted.  unlink frees its number even if
\* that failed, rmdir gives up.
DeleteInode ==
    /\ At("rminode")
    /\ \/ itab' = [itab EXCEPT ![op.ino] = NoInode] /\ Goto("rmbit") /\ Ok
       \/ /\ itab' \in {itab, [itab EXCEPT ![op.ino] = NoInode]} /\ Fault
          /\ IF op.kind = "dir" THEN Done ELSE Goto("rmbit")
    /\ UNCHANGED <<ibmap, bbmap, gd, sbfree, ents, mirror>>

\* ext4_free_inode, also from the failed create and mkdir.  The bit is set:
\* its early return for a clear bit is never taken.
FreeBit ==
    /\ At("rmbit")
    /\ \/ ibmap' = ibmap \ {op.ino} /\ Goto("rmgd") /\ Ok
       \/ ibmap' \in {ibmap, ibmap \ {op.ino}} /\ Done /\ Fault
    /\ UNCHANGED <<bbmap, gd, sbfree, itab, ents, mirror>>

FreeGd ==
    LET g == GroupOf(op.ino)
        d == [gd[g] EXCEPT !.ifree = @ + 1]
    IN  /\ At("rmgd")
        /\ \/ /\ WriteGd(g, d) /\ SyncSuper /\ Ok
              /\ IF op.kind = "dir" /\ op.rm THEN Goto("rmlink") ELSE Done
           \/ /\ gd' \in {gd, [gd EXCEPT ![g] = d]} /\ Fault /\ Done
              /\ UNCHANGED <<sbfree, mirror>>
        /\ UNCHANGED <<ibmap, bbmap, itab, ents>>

\* Mutant: the parent keeps the link of the directory that is gone.
UnlinkParent_Kept ==
    /\ At("rmlink")
    /\ Goto("rmused") /\ Ok
    /\ UNCHANGED <<disk, mirror>>

UnlinkParent ==
    /\ At("rmlink")
    /\ ParentLink(-1)
    /\ Goto("rmused")
    /\ UNCHANGED <<ibmap, bbmap, gd, sbfree, ents, mirror>>

UncountDir ==
    /\ At("rmused")
    /\ IF mirror.used > 0 THEN CountDirs(mirror.used - 1) ELSE Ok /\ UNCHANGED <<gd, mirror>>
    /\ Done
    /\ UNCHANGED <<ibmap, bbmap, sbfree, itab, ents>>
-------------------------------------------------------------------------------
\* ext4_fill_super takes a count of zero in group 0's descriptor for damage and
\* fills the mirror with those of an empty file system (Mkfs, Repaired: it takes
\* one inode for reserved, not two).
Refilled(d) ==
    [ifree |-> IF d.ifree = 0 THEN InodesPerGroup - 1 ELSE d.ifree,
     bfree |-> IF d.bfree = 0 THEN Less(BlocksPerGroup) ELSE d.bfree,
     used  |-> IF d.ifree = 0 THEN 1 ELSE d.used]

\* The machine is switched off and on again, between two calls or inside one.
PowerCycle ==
    /\ crashes < MaxCrashes /\ crashes' = crashes + 1
    /\ mirror' = Refilled(gd[0])
    /\ Done
    /\ UNCHANGED <<disk, faults, astray>>

\* No call is modelled on a tree that has lost its shape.
Lost == astray /\ At("idle") /\ UNCHANGED vars

Next ==
    \/ \E d \in Inos, n \in Names, k \in {"file", "dir"} : Make(d, n, k)
    \/ ScanEnd \/ AllocBit \/ AllocGd \/ NewBlock \/ WriteData \/ WriteInode
    \/ AddEntry \/ Rollback \/ WriteParent \/ CountNewDir
    \/ \E e \in ents : Remove(e)
    \/ RemoveEntry \/ FreeData \/ DeleteInode \/ FreeBit \/ FreeGd
    \/ UnlinkParent \/ UncountDir
    \/ PowerCycle \/ Lost

Spec == Init /\ [][Next]_vars
-------------------------------------------------------------------------------
\* Whatever is on the disk when the power goes, every directory entry leads to
\* an inode that is allocated and written, and no inode has two entries: create
\* writes the entry last, unlink and rmdir remove it first.  Not after mkdir of a
\* name that is there, or one of the failures that astray names.
EntriesValid ==
    ~astray =>
        /\ \A e \in ents : e.ino \in ibmap /\ itab[e.ino].kind # "free"
        /\ \A e, f \in ents : e.ino = f.ino => e = f

\* A directory that can be reached has its block to itself: it is marked in the
\* bitmap and no other directory that can be reached uses it, unless astray.
DirBlocksOwned ==
    ~astray =>
        \A i \in Inos : LiveDir(i) =>
            /\ itab[i].blk \in bbmap
            /\ \A j \in Inos \ {i} : LiveDir(j) => itab[j].blk # itab[i].blk

Quiet == faults = 0 /\ crashes = 0 /\ ~astray /\ At("idle")

\* Between calls, with no failed read or write, no power loss and no mkdir of a
\* name that was there, the counts of the descriptors and of the super block are
\* those of the bitmaps, and group 0's count of directories is exact (that of the
\* other groups is never written).
CountsExact ==
    Quiet =>
        /\ \A g \in Groups :
              /\ gd[g].ifree = InodesPerGroup - Cardinality(ibmap \cap GroupInos(g))
              /\ gd[g].bfree = BlocksPerGroup - Cardinality({b \in bbmap : b[1] = g})
        /\ sbfree = SumFree
        /\ gd[0].used = Cardinality({i \in GroupInos(0) : LiveDir(i)})

\* Between calls, with no failed read or write, no power loss and no mkdir of a
\* name that was there, a directory's link count is two plus the number of its
\* subdirectories.
LinksExact ==
    Quiet =>
        \A i \in Inos : LiveDir(i) =>
            itab[i].nlink = 2 + Cardinality({e \in ents : e.dir = i /\ itab[e.ino].kind = "dir"})

\* Writing back the mirror of group 0's descriptor, whose counts other calls
\* and the mount may have left behind, never changes a free count on the disk.
MirrorFresh ==
    [][op.pc \in {"used", "rmused"} =>
         \A g \in Groups : gd'[g].ifree = gd[g].ifree /\ gd'[g].bfree = gd[g].bfree]_vars

\* The tree on the disk: each entry with what its inode says it is.
Leaves == {[dir |-> e.dir, name |-> e.name, ino |-> e.ino, kind |-> itab[e.ino].kind]
              : e \in ents}

\* The detailed calls implement the abstract name space: the entries on the disk,
\* each with what its inode says it is, change by one name at a time, at one
\* write of a call, and whatever else fails or is cut short before or after it
\* never shows half a call, a name whose inode changes under it, or a directory
\* gone with names still in it.  The promise ends when the tree goes astray: by
\* mkdir of a name that is there, a create whose lookup or an rmdir whose scan
\* could not be read, a new inode that was not written, an entry that was written
\* and reported as failed.
Tree == INSTANCE NameTree WITH tree <- Leaves

TreeAtomic == Tree!Spec
===============================================================================
