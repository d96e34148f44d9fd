-------------------------------- MODULE Mkfs --------------------------------
(***************************************************************************)
(* Formatting and mounting (fs/ext4/super.c: ext4_mkfs, ext4_fill_super).   *)
(* At boot the super block is read; without the magic number the disk is    *)
(* formatted, then it is mounted.  mkfs is a fixed series of block writes,  *)
(* the super block first; each may fail, and the power may go between two.  *)
(*                                                                          *)
(* A block's content is a tag: what mkfs wrote there, for a file system of  *)
(* how many blocks.  What is in it follows from that number by the layout   *)
(* operators below.  The block size is BLOCK_SIZE (not 1024), so the super  *)
(* block is in block 0 and the descriptors begin in block 1.                *)
(***************************************************************************)
EXTENDS Integers, Sequences, FiniteSets, SequencesExt

CONSTANTS
    MaxPerGroup,    \* block_size * 8, the bits of one bitmap block: 32768
    InodesPerBlock, \* block_size / 256
    DescsPerBlock,  \* block_size / 32
    MinBlocks,      \* 1024, the least number of blocks mkfs is called with
    Fallback,       \* 16384, the blocks of a disk that does not tell its size
    DiskSizes,      \* blocks of the disk
    MaxFaults, MaxBoots

ASSUME MkfsAssumption ==
    /\ MaxPerGroup \in Nat \ {0}
    /\ InodesPerBlock \in Nat /\ InodesPerBlock >= 2
    /\ DescsPerBlock \in Nat \ {0}
    /\ MinBlocks \in Nat \ {0} /\ Fallback \in Nat \ {0}
    /\ DiskSizes \subseteq Nat \ {0}
    /\ MaxFaults \in Nat /\ MaxBoots \in Nat

VARIABLES
    disk,       \* the content of each block
    pc,
    t,          \* s_blocks_count of the file system being made or mounted
    k,          \* the next write of mkfs
    mem,        \* s_group_desc, the in-memory descriptor of group 0
    root,       \* where the root directory's inode came from
    done,       \* ghost: s_blocks_count of the last mkfs that ended, or 0
    cut,        \* ghost: a mkfs failed or was cut short
    faults, boots

vars == <<disk, pc, t, k, mem, root, done, cut, faults, boots>>
-------------------------------------------------------------------------------
(* The layout mkfs computes for n blocks                                    *)

DivUp(a, b) == (a + b - 1) \div b

PerGroup(n) == IF n <= MaxPerGroup THEN n ELSE MaxPerGroup  \* blocks, and inodes
GroupsOf(n) == 0 .. DivUp(n, PerGroup(n)) - 1
GdBlocks(n) == DivUp(Cardinality(GroupsOf(n)), DescsPerBlock)
TableBlocks(n) == DivUp(PerGroup(n), InodesPerBlock)
ReservedInodes(n) ==
    IF PerGroup(n) >= 10 THEN 10 ELSE IF PerGroup(n) >= 2 THEN 2 ELSE PerGroup(n)

Start(n, g) == g * PerGroup(n)
GroupLen(n, g) ==
    IF Start(n, g) + PerGroup(n) > n THEN n - Start(n, g) ELSE PerGroup(n)
BlockBitmap(n, g) == Start(n, g) + 1 + GdBlocks(n)
InodeBitmap(n, g) == BlockBitmap(n, g) + 1
InodeTable(n, g) == InodeBitmap(n, g) + 1

\* Mutant: the root directory lies in the inode table's last block.
RootDir_InTable(n) == InodeTable(n, 0) + TableBlocks(n) - 1

RootDir(n) == InodeTable(n, 0) + TableBlocks(n)

Overhead(n, g) ==
    1 + GdBlocks(n) + 1 + 1 + TableBlocks(n) + (IF g = 0 THEN 1 ELSE 0)
Used(n, g) == IF Overhead(n, g) > GroupLen(n, g) THEN GroupLen(n, g) ELSE Overhead(n, g)

\* A full group holds its own metadata.  With 4096-byte blocks that is at most 1024
\* descriptor blocks and 2048 of the inode table among 32768.
ASSUME LayoutAssumption ==
    \A n \in DiskSizes \cup {Fallback, MinBlocks} :
        n > MaxPerGroup => Overhead(n, 0) <= MaxPerGroup

\* Places and counts of a group descriptor.
Desc(n, g) ==
    [bbmap |-> BlockBitmap(n, g), ibmap |-> InodeBitmap(n, g), itable |-> InodeTable(n, g),
     bfree |-> GroupLen(n, g) - Used(n, g),
     ifree |-> IF g = 0 THEN PerGroup(n) - ReservedInodes(n) ELSE PerGroup(n),
     dirs  |-> IF g = 0 THEN 1 ELSE 0]
NoDesc == [bbmap |-> 0, ibmap |-> 0, itable |-> 0, bfree |-> 0, ifree |-> 0, dirs |-> 0]

\* The bits set in a group's block bitmap: the metadata, and all beyond the group.
BlockBits(n, g) == (0 .. Used(n, g) - 1) \cup (GroupLen(n, g) .. MaxPerGroup - 1)

Blank == [what |-> "blank", i |-> 0, n |-> 0]
Tag(what, i, n) == [what |-> what, i |-> i, n |-> n]
Write(at, what, i, n) == [at |-> at, c |-> Tag(what, i, n)]

\* The writes of mkfs, in their order.
GdtWrites(n, at) == [i \in 1 .. GdBlocks(n) |-> Write(at + i, "gdt", i - 1, n)]
BackupWrites(n, g) == <<Write(Start(n, g), "sb", g, n)>> \o GdtWrites(n, Start(n, g))
BitmapWrites(n, g) ==
    <<Write(BlockBitmap(n, g), "bbmap", g, n), Write(InodeBitmap(n, g), "ibmap", g, n)>>
Writes(n) ==
    LET last == Cardinality(GroupsOf(n)) - 1
    IN  <<Write(0, "sb", 0, n)>>
        \o GdtWrites(n, 0)
        \o FlattenSeq([g \in 1 .. last |-> BackupWrites(n, g)])
        \o FlattenSeq([g \in 1 .. last + 1 |-> BitmapWrites(n, g - 1)])
        \o <<Write(InodeTable(n, 0), "inodes", 0, n), Write(RootDir(n), "rootdir", 0, n)>>
-------------------------------------------------------------------------------
Size == Cardinality(DOMAIN disk)

Init ==
    /\ \E s \in DiskSizes : disk = [b \in 0 .. s - 1 |-> Blank]
    /\ pc = "off" /\ t = 0 /\ k = 0 /\ mem = NoDesc /\ root = "none"
    /\ done = 0 /\ cut = FALSE /\ faults = 0 /\ boots = 0

Fault == faults < MaxFaults /\ faults' = faults + 1
Ok == UNCHANGED faults
Goto(p) == pc' = p

\* A read of a block that is not on the disk fails, any other may.
Reads(b) == b < Size /\ Ok
ReadFails(b) == (b >= Size /\ Ok) \/ (b < Size /\ Fault)
Fail == Goto("failed") /\ UNCHANGED <<disk, t, k, mem, root, done, cut>>

\* What the drive says of its size; 0 when it does not answer.
Told == {0, Size}

\* The size mkfs is called with.
TotalBlocks(told) ==
    LET total == IF told > 0 THEN told ELSE Fallback
    IN  IF total < MinBlocks THEN MinBlocks ELSE total

\* Switched on: the super block decides between formatting and mounting.
Boot ==
    /\ pc = "off" /\ boots < MaxBoots /\ boots' = boots + 1
    /\ \/ /\ Reads(0)
          /\ IF disk[0].what = "sb"
             THEN Goto("gd") /\ t' = disk[0].n
             ELSE Goto("mkfs") /\ \E told \in Told : t' = TotalBlocks(told)
          /\ k' = 0
          /\ UNCHANGED <<disk, mem, root, done, cut>>
       \/ ReadFails(0) /\ Fail

\* mkfs keeps what is in the super block's block beside it.
MkfsRead ==
    /\ pc = "mkfs" /\ k = 0
    /\ \/ Reads(0) /\ k' = 1 /\ UNCHANGED <<disk, pc, t, mem, root, done, cut>>
       \/ ReadFails(0) /\ Fail
    /\ UNCHANGED boots

\* One write.  A failed one may have reached the disk, and mkfs gives up.
MkfsWrite ==
    /\ pc = "mkfs" /\ k \in 1 .. Len(Writes(t))
    /\ \E w \in {Writes(t)[k]} :
          \/ /\ w.at < Size /\ Ok
             /\ disk' = [disk EXCEPT ![w.at] = w.c]
             /\ k' = k + 1 /\ UNCHANGED <<pc, cut>>
          \/ /\ w.at < Size /\ Fault
             /\ disk' \in {disk, [disk EXCEPT ![w.at] = w.c]}
             /\ Goto("failed") /\ cut' = TRUE /\ UNCHANGED k
          \/ /\ w.at >= Size /\ Ok
             /\ Goto("failed") /\ cut' = TRUE /\ UNCHANGED <<disk, k>>
    /\ UNCHANGED <<t, mem, root, done, boots>>

MkfsDone ==
    /\ pc = "mkfs" /\ k > Len(Writes(t))
    /\ Goto("reread") /\ done' = t /\ Ok
    /\ UNCHANGED <<disk, t, k, mem, root, cut, boots>>

Reread ==
    /\ pc = "reread"
    /\ \/ Reads(0) /\ Goto("gd") /\ t' = disk[0].n
          /\ UNCHANGED <<disk, k, mem, root, done, cut>>
       \/ ReadFails(0) /\ Fail
    /\ UNCHANGED boots

\* Descriptor g as it is on the disk.
DiskDesc(g) ==
    LET c == disk[1 + g \div DescsPerBlock]
    IN  IF c.what = "gdt" THEN Desc(c.n, g) ELSE NoDesc

\* Mutant: the rebuilt layout forgets the descriptor blocks.
Rebuilt_NoGdt(n) == [bbmap |-> 1, ibmap |-> 2, itable |-> 3]

\* Group 0's layout as the mount works it out by itself.
Rebuilt(n) ==
    LET bmap == 1 + GdBlocks(n) IN [bbmap |-> bmap, ibmap |-> bmap + 1, itable |-> bmap + 2]

\* A descriptor without a table is given the layout, a count of zero is
\* replaced by that of an empty group.  s_first_ino is looked up in a buffer that
\* holds the descriptors by then: it is zero there, and one inode is set aside.
Repaired(d, n) ==
    LET broken == d.itable = 0 \/ d.itable >= n
        used == Overhead(n, 0)
        reserved == 1
    IN  [bbmap  |-> IF broken THEN Rebuilt(n).bbmap ELSE d.bbmap,
         ibmap  |-> IF broken THEN Rebuilt(n).ibmap ELSE d.ibmap,
         itable |-> IF broken THEN Rebuilt(n).itable ELSE d.itable,
         ifree  |-> IF d.ifree > 0 THEN d.ifree
                    ELSE IF PerGroup(n) > reserved THEN PerGroup(n) - reserved ELSE 1,
         dirs   |-> IF d.ifree > 0 THEN d.dirs ELSE 1,
         bfree  |-> IF d.bfree > 0 THEN d.bfree
                    ELSE IF PerGroup(n) > used THEN PerGroup(n) - used ELSE 1]

MountGd ==
    /\ pc = "gd"
    /\ \/ Reads(1) /\ mem' = Repaired(DiskDesc(0), t) /\ Goto("root")
          /\ UNCHANGED <<disk, t, k, root, done, cut>>
       \/ ReadFails(1) /\ Fail
    /\ UNCHANGED boots

\* ext4_iget of the root: the descriptor is read from the disk again, as it is
\* there; an inode that is no directory is made one in memory.
MountRoot ==
    LET b == DiskDesc(0).itable
    IN  /\ pc = "root"
        /\ \/ /\ b < t /\ Reads(b) /\ Goto("mounted")
              /\ root' = IF disk[b].what = "inodes" THEN "disk" ELSE "forced"
              /\ UNCHANGED <<disk, t, k, mem, done, cut>>
           \/ b >= t /\ Ok /\ Fail
           \/ b < t /\ ReadFails(b) /\ Fail
        /\ UNCHANGED boots

\* Switched off, or the power goes.
PowerOff ==
    /\ pc # "off" /\ Goto("off")
    /\ cut' = (cut \/ pc = "mkfs")
    /\ mem' = NoDesc /\ root' = "none"
    /\ UNCHANGED <<disk, t, k, done, faults, boots>>

Next ==
    \/ Boot \/ MkfsRead \/ MkfsWrite \/ MkfsDone \/ Reread \/ MountGd \/ MountRoot \/ PowerOff

Spec == Init /\ [][Next]_vars
-------------------------------------------------------------------------------
\* The blocks of group g that hold metadata, wherever they fall.
Metadata(n, g) ==
    (Start(n, g) .. Start(n, g) + GdBlocks(n))
    \cup {BlockBitmap(n, g), InodeBitmap(n, g)}
    \cup (InodeTable(n, g) .. InodeTable(n, g) + TableBlocks(n) - 1)
    \cup (IF g = 0 THEN {RootDir(n)} ELSE {})

\* When mkfs reports success, everything it wrote is on the disk (no write fell
\* on another, none beyond the end), every metadata block of a group is marked in
\* its bitmap and no other block is, and the descriptor's count is the number of
\* clear bits.  A last group too short for its inode table has no block to give.
FormatSound ==
    done > 0 =>
        /\ \A i \in 1 .. Len(Writes(done)) : disk[Writes(done)[i].at] = Writes(done)[i].c
        /\ \A g \in GroupsOf(done) :
              LET inside == {b - Start(done, g) : b \in Metadata(done, g)}
                                \cap (0 .. GroupLen(done, g) - 1)
                  clear == (0 .. MaxPerGroup - 1) \ BlockBits(done, g)
              IN  /\ inside = BlockBits(done, g) \cap (0 .. GroupLen(done, g) - 1)
                  /\ Desc(done, g).bfree = Cardinality(clear)
                  /\ Cardinality(Metadata(done, g)) = Overhead(done, g)

\* A mounted file system is the one mkfs made: unless a mkfs was cut short, it was
\* completely formatted, the root comes from its inode table, and the descriptor
\* in memory is mkfs's but for a count of zero.  Even on a disk where mkfs got
\* no further than the super block, the layout the mount rebuilds is mkfs's.
MountSound ==
    pc = "mounted" =>
        LET d == Desc(t, 0)
        IN  /\ mem.bbmap = d.bbmap /\ mem.ibmap = d.ibmap /\ mem.itable = d.itable
            /\ ~cut =>
                  /\ done = t /\ root = "disk"
                  /\ mem.bfree = d.bfree \/ d.bfree = 0
                  /\ mem.ifree = d.ifree \/ d.ifree = 0
===============================================================================
