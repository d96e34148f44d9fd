# MiniExt4: TLA+ models, checks and proofs

MiniExt4 is a 32-bit x86 kernel whose core is an ext4-like file system without a
journal. This directory models the file system (the block allocator, the VFS layer,
the operations on names, the data path of a file, the blocks of a directory,
formatting and mounting), the disk driver below it and the keyboard input above it.
TLC checks every module on small instances; TLAPS proves every safety property and
both refinements of the block allocator and of the namespace operations, and every safety
property of the VFS layer, of a directory's blocks, of formatting and mounting, of the
disk driver and of the keyboard input, for every value of the constants.

    cd tla
    tlc -config BlockAlloc.cfg MCBlockAlloc            # one of the runs below
    tlapm BlockAllocProofs.tla                         # the proofs

`PROJECT.json` lists the components, the runs, one mutant per checked property, the
source lines each definition models, the disagreements found and the hazards.

## 1. The system

A user program (the shell's commands) enters the kernel by `int 0x80`. The gate is an
interrupt gate, so **a system call runs with interrupts off from its entry to its
return**; no task is ever added to the task manager, so there is one caller. What makes
the code hard is therefore not two threads but

* a sequence of disk writes without a journal, any of which may fail and between any
  two of which the power may go;
* in-memory copies of what is on the disk (bitmap cache, group descriptor mirror,
  inodes, dentries, the root of an extent tree) that other code changes behind them;
* references counted by hand over many early returns;
* fixed pools and tables that run full;
* tree and record surgery (extent splits, hash index splits, record merging).

The keyboard interrupt and the main loop are the one real interleaving in the kernel
(`Keyboard`).

| Component | State | Operations | Talks to | What makes it correct |
|---|---|---|---|---|
| block allocator, `fs/ext4/balloc.c` | bitmaps, descriptor and super block counts on disk; one-entry bitmap cache, next-fit cursors, pending batch | allocate a run, free a block, flush, set batch size | block I/O; used by extents, directories, namespace | a block has one holder; held blocks are marked; free space is found; counts agree |
| inode allocator, `fs/ext4/ialloc.c` | inode bitmaps, counts | allocate, free | namespace operations | an inode number is reused only when nothing refers to it |
| namespace operations, `fs/ext4/inode.c` | inode table, entries, mirror of group 0's descriptor | create, mkdir, unlink, rmdir, lookup | allocators, directory blocks, dcache | an entry never leads to a missing inode; counts and links agree |
| dentry cache, `fs/dcache.c`; inode pool, `fs/inode.c` | pools, reference counts, parents, child lists | d_alloc, dget, dput, d_lookup, d_instantiate | ext4 inode operations | what is held is alive; the cache agrees with the disk; no slot is lost |
| path walk and calls, `fs/namei.c`, `fs/dir.c`, `fs/open.c` | descriptor table, working directory | open, close, mkdir, chdir, unlink, rmdir, stat | dcache, ext4 | each call balances its references on each return |
| extent tree, `fs/ext4/extents.c` | root in the inode, nodes in blocks | look up, insert with merge and split, preallocate, free | block allocator | the tree is the map the writes built; no block is in it twice |
| file data, `fs/ext4/file.c` | inode size, dirty mark, positions | open with O_TRUNC, read, write, release | extent tree, inode I/O | what was written is read; close saves it |
| directory blocks, `fs/ext4/dir.c`; hash index, `fs/ext4/htree.c` | records, index root and node, block map | add, remove, list, upgrade, split | block allocator | records tile a block; no name is lost; the index lists its leaves |
| super block, `fs/ext4/super.c` | super block, group descriptors | mkfs, mount, unmount, inode I/O | all of the above | a mkfs that succeeds made a consistent file system; what is mounted is what mkfs made |
| block I/O and ATA, `fs/ext4/io.c`, `block/blkdev.c`, `drivers/ata/` | request in flight, chunk, attempt | transfer of sectors by DMA or programmed I/O | hardware | a failed transfer has moved a prefix of its sectors, a successful one all |
| keyboard and shell input, `drivers/input/keyboard.cpp`, `kernel/shell.cpp` | ring buffer, `line_ready`, line | interrupt puts, main loop takes a line, runs it, halts | shell | a command gets the line typed for it, and in the end every line is taken |
| task manager, time, console, memory, boot | see PROJECT.json | | | |

## 2. Modules

| Module | Models | A step is |
|---|---|---|
| `FreeRuns` | the search for a run of clear bits, next fit | a pure operator |
| `BlockAlloc` | the block allocator, mount, unmount, power loss | the code between two disk accesses |
| `Vfs` | dcache, inode pool, path walk, descriptors, working directory, path calls | a system call |
| `Namespace` | create, mkdir, unlink, rmdir over the inode allocator | the code up to one disk write |
| `FileData` | extent tree and data path of one file, preallocation, truncation | a system call, a truncating open in two |
| `Directory` | records, linear directory, hash index of one directory | a system call |
| `Mkfs` | formatting and mounting at boot, power losses | one block read or written |
| `AtaDisk` | a transfer from ext4's block I/O to the drive | a sector, or a decision of the driver |
| `Keyboard` | ring buffer, keyboard and timer interrupt, main loop | one access of the main loop to shared memory; an interrupt |
| `BlockPool`, `NameTree` | what `BlockAlloc` and `Namespace` promise | an abstract call |
| `MCBlockAlloc`, `MCVfs`, `MCDirectory` | the small instances | |
| `BlockAllocProofs` | the theorems about `BlockAlloc`: types, holders and the refinement; counts and cache | |
| `NamespaceProofs` | the theorems about `Namespace`: types, entries and refinement; counts and links | |
| `VfsProofs`, `DirectoryProofs`, `MkfsProofs`, `AtaDiskProofs`, `KeyboardProofs` | the theorems about `Vfs`, `Directory`, `Mkfs`, `AtaDisk` and `Keyboard` | |
| `SumProofs` | lemmas about sums over finite sets and folds along a sequence, and induction in the form the provers can use | |

`BlockAlloc` and `FileData` both extend `FreeRuns`. `Namespace` and `FileData` treat
an allocation as one step; what is inside that step is `BlockAlloc`'s business. That
it may be taken for one step is `BlockAlloc`'s refinement of `BlockPool`. That a failed
transfer has moved a prefix of its sectors, on which `BlockAlloc`'s torn writes rest, is
what `AtaDisk` shows. The initial states of `BlockAlloc`, `Namespace` and `Vfs` are what
`Mkfs` leaves.

Two refinements are checked and proved, each an abstract specification given as a
property:

* `BlockAlloc!PoolImplemented` maps `owners` to `BlockPool`'s
  `holders`. Every step of the allocator hands out one run of free neighbours, takes
  one block back, or is invisible, whatever fails and wherever the power goes.
* `Namespace!TreeAtomic` maps the entries on the disk to `NameTree`'s tree. A call of
  several writes adds one name or takes one away in one of these writes, and a
  directory that goes away is empty. With a crash or a failing write in between,
  the call has either happened or not. The promise ends when the tree goes astray.

**Where a claim ends.** The code has calls and failures after which its structures are
wrong for good (section 5). They are steps of the models like any others; a ghost variable records them, the
properties say `~astray =>` or the like, and no further call is modelled. The ghosts and
what sets them:

| Ghost | Module | Set by |
|---|---|---|
| `astray` | `Namespace`, `Vfs` | `mkdir` of a name that is there (`vfs_mkdir` does not look it up); a create of a name that is there, which takes a lookup that could not be read; `rmdir` of a directory with names in it, which takes a scan that could not be read; a new inode whose write failed; an entry that reached the disk although its write was reported as failed |
| `astray` | `Vfs` only | besides: a lookup that finds the name with no in-memory inode left; a removal that reached the disk although its write was reported as failed (the dentry stays) |
| `twice` | `Directory` | the addition of a name that is there |
| `torn`, `broken`, `mixed` | `Directory` | a record written over another; an addition that failed half way, or the eviction of blocks that were never saved; an index built over several blocks |
| `unseen` | `AtaDisk` | an error of the drive that nobody looks at |
| `cut` | `Mkfs` | a mkfs cut short |
| `forgot`, `sparse`, `cut`, `lost` in `hist` | `FileData` | a close that forgot a change; a hole; a power loss inside O_TRUNC; the blocks a truncation did not reach |

**BlockAlloc.** `op` is the call under way: `pc` names the disk access it has come to,
the other fields are the locals (`start_group`, `groups_scanned`, pass, found run,
descriptor count read). `NewBlocks` starts `ext4_new_blocks_in_group`; `EndPass`,
`ScanGroup`, `LoadCache`, `Search`, `FlushMarked`, `AllocGd`, `AllocReturn` are its
parts; `FreeBlock` to `FreeReturn` are `ext4_free_block`; `BallocFlush`, `FlushCache`
and `FlushSync` are the flush and the unmount; `PowerLoss` drops the memory. An access
may fail (up to `MaxFaults` times); a failing write leaves the old block or a mixture
of old and new cut at a sector (`Torn`). `TornReads` says in which states of
`s_bmap_cache_valid` a failing read may leave a mixture in the buffer: the code's own
behaviour is `{FALSE, TRUE}`. With `TRUE` the allocator is wrong (finding 1), so the
passing run and two theorems leave it out and say what holds otherwise. `owners`,
`synced` and `faults` are ghosts: `owners` counts how often a block was handed out and
not given back, which is what the bitmap is meant to say.

**Vfs.** `mem.d` and `mem.i` are the pools, slot by slot; the pool's lowest free slot is
taken, as in the code. Each call is an operator that threads `mem` through the code's
`dget`s and `dput`s in order, early returns included. `dput` calls itself for the parent
when a dentry goes; `Dput` is that chain as a recursive function, one `DputOne` per
dentry and never longer than the pool, and `PathLookup` one `Walk` per component. A path
is its list of components;
splitting the string is not modelled. The disk is the entries of each directory, in
order and with the holes, and the kind of each inode. `FsFails` lets ext4's operations
fail: a creation (`WriteEnds`), a removal (`Reclaim`), the scan in `rmdir`, and a lookup
at any component of a path (`miss`), which leaves the dentry negative as if there were no
such name. `Starves` is a lookup that finds the name with no in-memory inode left: the
code writes through a null pointer there, and the model goes no further.

**Namespace.** `op.pc` names the next write; any access may fail, up to `MaxFaults`
times. Where the code ignores the result of a write (new inode, parent's link count,
count of directories), both outcomes lead on to the same next step. The parent's link
count in memory follows what is on disk after such a failure. The lookup and the scan
that come before a call are in its first step (`Make`, `Remove`): a call may begin on a name that is there, or
on a directory that is not empty, in the cases in which the code lets it. Files have no
data blocks here and a directory has one.

**FileData.** `s` is what the calls work on: the inode in memory, the blocks of the tree,
the bitmap, the data; `dinode` is the inode on the disk. Tree nodes are written at each
insertion, the root with the inode. Data is abstract: a unit of a block holds a value
that tells which position it was written for and after which truncation, zeros, or
what an earlier owner left. `hist` is a ghost (truncations, power losses, the map at
the last save, whether the file has holes, whether a close forgot a change). Freeing a
tree reads each node into one of four buffers on the way down (`MAX_MALLOC_BLOCKS`);
`WalkBuffers` is their number, and `TreeBlocks` what a walk with so many reaches. A node
it has no buffer for is freed, what is below it is not: `hist.lost` has these blocks.
Preallocation is switched on by the `fill` command only, for a file it has just opened
with O_TRUNC: the model lets the goal change while nothing is open, and `MayTruncate`
keeps a truncation with preallocation from a file that another descriptor has open.

**Directory.** Lengths count four-byte units. `d.blks` are the records of each block;
`d.disk` is how many blocks the inode on the disk maps, so that `Evict` (the inode
leaves memory) loses what was never saved. `broken` is set by an addition that failed
half way and changed what is listed, or by such a loss; `torn` when a record was written
over a part of another or the names of half a leaf do not fit into a block. Both can
happen in the code (see the hazards) and end what the properties claim: after `torn` the
calls stop, after `broken` the listing need not be the names added, but still repeats none.
`AddName` may add a name that is there, as `mkdir` does; then `twice` is set and the calls stop as well.
`mixed` is set when an index is built over more than one block, which takes an upgrade that
failed before; it ends only the claim of `HashFindsName` (section 5).

**Mkfs.** A block's content is a tag, what mkfs wrote there and for a file system of how
many blocks; places and counts follow from that number by the layout operators, which
are mkfs's computations. `Writes(n)` is the list of mkfs's writes in their order; each
is a step, may fail (having reached the disk or not), and the power may go between two.
`Boot` reads the super block and formats or mounts; `MountGd` is the repair of group
0's descriptor in memory, `MountRoot` the read of the root through the descriptor *on
the disk*. `done` and `cut` are ghosts. In the repair, `s_first_ino` is read from a
buffer that by then holds the descriptor table: the value found there is zero.

**AtaDisk.** A sector is a value that tells who wrote it. A call is cut into chunks; a
chunk is tried by DMA when that is possible, and done again from its start by
programmed I/O when DMA fails. Each wait for the drive may end badly, up to `MaxFaults`
times. `LateError` is the error bit that nobody reads after the last sector of a
write; it sets the ghost `unseen` and ends the claim.

**Keyboard.** The interrupt handler is one step, since it runs with interrupts off;
`get_buffer` is not guarded, and each of its accesses to the ring is a step (the
decrement of `count` two, a load and a store, as compiled without optimisation).
`head`, `tail` and `count` have eight bits: `BufLen` stands for both 256 and the size
of `buf`. `unread` is a ghost: what a typist thinks is still to be read. `Spoil` names
five events after which the code's buffer and the typist disagree: an Enter dropped
because the ring is full, an Enter erased by backspace, an erasure across the ring's end,
a line across the ring's end, and a key between the load and the store of `count`.

## 3. Runs

| Run | Instance | Shows |
|---|---|---|
| `BlockAlloc` | 3 groups (of 3, 2 and 1 blocks), goals 1 to 3, batch 2, 1 failure | no block gets two holders, a held block is marked on disk and in the cache, the allocator implements `BlockPool`, all with a failure and power losses; until something fails, the groups' counts are exact and the super block's lags by no more than what is pending, nothing leaks, space is found if there is any, the cache agrees with the disk; calls return |
| `BlockAllocTornRead` (violated) | as above, one failing read | finding 1 |
| `VfsRefs` | 4 dentries, 4 inodes, 2 descriptors | with the call forms that do not leak, every reference is balanced and no inode slot is lost |
| `VfsWide` | 4 dentries, 3 inodes, 1 descriptor, ext4 may fail | with `..`, leaking forms and exhausted pools, nothing held is freed; until a call goes astray the cache never contradicts the disk, and the working directory and all above it stay |
| `VfsRootClosed` (violated) | opening `/` and `` | finding 2 |
| `Namespace` | 2 groups of 3 inodes and 2 blocks, 1 failure, 1 power loss | until the tree goes astray entries lead to live inodes, directories own their block, and each call changes the tree of names in one step (`NameTree`); without failures besides, the counts are exact; the mirror undoes no count |
| `FileData` | 14 blocks, nodes of 2 entries, depth 2, a walk of 1 buffer, 2 descriptors, 2 truncations, 1 power loss | the tree is the map, no block twice, reads return what was written, truncation frees all but what is below nodes without a buffer, close saves all |
| `Directory` | 6 names (two with one hash, one longer), 5 blocks | until a leaf tears a record the records tile; until then and as long as no name is added that is there, no name is lost or repeated; the hash leads to the name |
| `DirectoryIndexLost` (violated) | the same | finding 3 |
| `Keyboard` | a ring of 5, 2 characters, 6 keys | a command gets the line typed for it and the ring holds the rest, whichever step a key interrupts; a complete line is taken in the end |
| `Mkfs` | disks of 1 to 40 blocks, groups of at most 12, 2 descriptors a block, 2 failures, 3 boots | a mkfs that succeeds made a consistent file system; a mounted one is what mkfs made |
| `AtaDisk` | 8 sectors, chunks of 3, DMA of 2, 2 calls, 3 failures | a transfer has moved a prefix, and all when it succeeds |

**Why the bounds are enough.** They are chosen so that the events that matter happen.
The allocator needs a group other than the cached one, a group too short to hold the
goal, a wrap of the cursor and a sector boundary inside a bitmap; one failure meets every
access of every call, and any number of them is what the theorems cover. `Vfs` needs a parent, a child and a pool that is
full: four dentries are the root, a directory, a file in it and one more; three inodes
run out before the dentries. `Namespace` needs both groups, the second group's
reuse after the first is full, and a crash after a failure; one name in each directory is enough for
one to be made over another. `FileData` needs a
root split, a node split at depth one and the depth limit: nodes of two entries reach
all of these in five file blocks; `Used` has gaps so that runs break. A walk of one buffer leaves
something out of a tree of depth 2, and the second truncation comes after that. `Directory` needs
an upgrade, a leaf split, the second level and the indirect block: a root of two
entries and blocks of four units reach them with six names. `MaxRefs` stops the
reference counts that leaking calls would raise without end. `Keyboard` needs a full
ring, a wrap and a second line typed while the first is read: six keys on a ring of
five have all of them. `Mkfs` needs one group, several, a last group shorter than its
metadata, two descriptor blocks, and a disk below the minimum; sizes 1 to 40 with groups
of 12 have every case, and three boots let a repair follow a failure. `AtaDisk` needs
chunks on both sides of the DMA limit, a count that is not a multiple of a chunk, and a
failure in each attempt of one call.

**Fairness.** `FairSpec` of `BlockAlloc` states weak fairness of `Step`, the continuation
of a call that has begun: a call runs with interrupts off and each poll of the disk is
bounded (`ata.cpp`), so nothing can keep it from its next step. `Spec` of `Keyboard`
states weak fairness of the main loop, which runs whenever no interrupt does, and of
the timer, which ticks 1000 times a second (`pit_init(1000)`) and ends the `hlt`.
Nothing obliges anyone to make a call or to press a key. Deadlock is checked in every
run but two: a machine that has used up its boots (`Mkfs`) or calls (`AtaDisk`)
stops.

**Mutants.** Each property of a passing run has an operator named `X_Something` next to
the definition `X` that it replaces: a plausible bug under which the run fails.

## 4. Proofs

Every theorem is about `Spec` and holds for all constants that satisfy the named
assumption of its module, which TLC evaluates in each run: `GeometryAssumption` and
`TuningAssumption` (`BlockAlloc`; the only one worth a word is that there are finitely
many goals, which are 32-bit numbers), `NamespaceAssumption`, `VfsAssumption` (the dots are
not file names), `DirectoryAssumption` (names are neither dots nor empty, the two dots leave room in a
block and any name fits into one), `AtaAssumption`, `KeyboardAssumption`, `MkfsAssumption` and `LayoutAssumption` (`Mkfs`: when there is more
than one group, a full group is large enough for its own metadata. With 4096-byte blocks
that is at most 1024 descriptor blocks, 2048 of inode table and 4 more, of
32768). None of them bounds the number of groups, blocks, inodes, names, dentries, paths,
sectors, keys, failures or power losses. In each proof the step of the invariant has one
case per action.

| Theorem | Says | Assumes of the failures |
|---|---|---|
| `BlockAllocProofs!TypeCorrect` | `[]TypeOK` | nothing |
| `NoDoubleAllocationHolds`, `OwnedMarkedHolds` | a block has one holder; a held block is marked on the disk and in the cache | `TRUE \notin TornReads` |
| `PoolIsImplemented` | `BlockAlloc` implements `BlockPool` | `TRUE \notin TornReads` |
| `CacheCoherentHolds`, `NoLeakHolds`, `GroupCountsHold`, `SuperCountLagHolds`, `AllocFindsSpaceHolds` | without a failure: cache and disk agree, nothing leaks, the groups' counts are exact, the super block's lags by no more than what is pending, free space is found | the properties say `faults = 0` |
| `NamespaceProofs!TypeCorrect`, `MirrorFreshHolds` | `[]TypeOK`; writing the count of directories undoes no count | nothing |
| `EntriesValidHolds`, `DirBlocksOwnedHolds`, `TreeAtomicHolds` | entries lead to live inodes; directories own their blocks; `Namespace` implements `NameTree` | nothing: the properties speak of what comes before `astray` |
| `CountsExactHolds`, `LinksExactHolds` | without failure, power loss or a `mkdir` of a name that is there all counts and link counts are exact between calls | nothing: the properties say so |
| `VfsProofs!StatesGood`, `TypesHold`, `HeldDentriesLiveHolds`, `OneObjectPerInodeHolds`, `DcacheCoherentHolds`, `CwdUsableHolds`, `FdInodeLiveHolds` | nothing held is freed; one object per inode; the cache agrees with the disk; working directory and descriptors stay usable | nothing of failures, the second, third and fourth speak of what comes before `astray`; `Callers` of the paths |
| `InodeSlotsExactHolds` | no slot of the inode pool is lost | `Callers`; ext4's operations do not fail |
| `RefsExactHolds` | every reference count is the number of holders | `Callers`; `Balanced` |
| `DirectoryProofs!TypesHold` | records, blocks and index keep their bounds | no name was added that is there (`~twice` in the theorem) |
| `RecordsTileHolds` | the records of a block add up to it and hold their names | `~twice` in the theorem; the property speaks of what comes before `torn` |
| `ListingExactHolds` | no name is listed twice; what is listed is what was added and not removed | nothing: the property speaks of what comes before `torn` and `twice`, its second part before `broken` |
| `HashFindsNameHolds` | in an index of one level the hash of a name leads to its leaf, unless another name shares the hash | `~twice` in the theorem; the property speaks of what comes before `torn`, `broken` and `mixed` |
| `AtaDiskProofs!TransferExactHolds` | a transfer has moved a prefix, all of it on success | nothing |
| `MkfsProofs!FormatSoundHolds` | a mkfs that succeeded left all its writes on the disk; bitmaps, metadata and counts agree in every group | nothing |
| `MkfsProofs!MountSoundHolds` | what is mounted is what mkfs made, and the layout is mkfs's even on a half-formatted disk | nothing: the property says what it claims without a cut |
| `KeyboardProofs!InputIntactHolds` | no key is lost, doubled or reordered on its way to the command | nothing |

The one assumption on failures is finding 1: a failing read that spoils a valid buffer.
Two hypotheses about `Vfs` are on what is given to the calls, and the runs' instances
satisfy them. `Callers`: nobody opens `/` or the empty path (finding 2). `Balanced`, for
the exact counts only: the call forms that leak are not used, `open` with O_CREAT and
`mkdir` of a path of several components (they keep the parent's reference, mkdir when the
dentries have run out) and `chdir` to the root by a path like `..`; that they leak is
what the code does, and all other theorems allow it.

**Block allocator.** No safety property is inductive. That no block is handed out twice
rests on held blocks being marked in the cached bitmap, where the search looks; that
rests on held blocks being marked on the disk, from where the cache is filled.
`SafetyInv` adds what holds inside a call: from the search on the cache is the current
group's (`CacheInv`); the found run is marked in the cache, after the flush on the disk
too, and has no holder until the call returns it (`RunInv`); the block being freed has
no holder any more when its bit is cleared (`FreeInv`). Torn writes are met by one
lemma, `TornKeeps`: a bit set in both the old and the new content survives any cut.
`TypeOK` needs `ScanInv`: the group a scan is at is a group only because
`groups_scanned` stays below the number of groups. The refinement adds what the search
returns (`ScanFits`, `NextFitFits`): a run is not empty, inside its group and not longer
than the goal; so one step of `BlockPool` hands it out. The counts are a second invariant, `BooksInv`, in which each count is related
to the bitmap *at the point of the call*: between the bitmap's write and the
descriptor's the group's count is behind by exactly the run found, and the super block
by what is pending. That a failing search means a full disk needs the scan: the groups
seen so far in the last pass have no clear bit.

**Namespace.** `DiskInv` is what the disk satisfies at every moment, `CallInv` what the
call under way knows: from the write of the inode's bit to the entry's write, and during
a rollback, the new number is marked and no entry has it; at the entry's write its inode
is written; while an entry is removed it is the only one of its inode, and until
the number is free again no entry has it. `TreeAtomic` follows: of all steps only the
entry's write and its removal change the tree. Both hold until `astray`, which a call
may set when it begins; `TreeAtomic` is about the abstract `astray` as well. `MirrorFresh` is an action property and
has its own invariant, `MirrorInv`. The counts are related to what they count at that
moment: `CountedInos`, `CountedDirs` and `CountedSubs` are the bits, directories and
subdirectories which a count includes at the call's present step, and `CountInv` says
each count is the cardinality of its set.

**VFS.** The invariant counts. `Outer` of a dentry is its `d_count` less its children:
what the mount, the working directory, descriptors and the call under way hold. Each
operation moves it by one at one dentry, also when it frees a chain of parents
(`DputOK`), since a freed dentry's reference on its parent goes together with that parent's
child. `Core` says that `Outer` is at least what the mount, the working directory and the
descriptors need (`Ext`), and what the pools have in common; it holds whatever happens.
`Good` adds that cache and disk agree, and holds until a call goes astray; `State` is
both, and `StatesGood` its theorem.
`RefsExact` is the same with an equality. `dput` is unfolded round by round
(`DputUnfolds`, `ClimbEnds`: each round but the last frees a slot, so the chain ends
inside the pool). The difficulty is a lookup, which allocates, evicts, drops and allocates again on its
way; the lemma that makes it simple is `WalkInv`: from wherever a walk is, *one dput of the dentry
reached gives back the memory there was before the walk*, whether the way was through the
cache, the disk or `..` (`WalkChildOK`, `UpMoves`, `GetPut`). So a call that only
looked has changed nothing (`LookUndone`), a failed lookup left no trace, and a call that did something is judged
from the state before its lookup. All this holds of a lookup that could not be read, too. What a creation after it does to the disk
is then judged by whether the name was there: if it was, the call is astray (`MakeKept`).

**Directory.** The invariant, `DirInv`, is of directories without a name twice. It needs little more than the properties say, and that little
is what makes them inductive (`DirOK`): a name is in one record of one block
(`BlockSeqs`); only block 0 has the dots, so that an upgrade, which replaces it by the root
block, loses nothing that it has not moved before; no entry of the index leads to block
0, so that no insertion or split ever works on the root; the index is not empty
while the directory is indexed. No call is proved as a whole: each of its parts, from
`MapBlock` to `AddEntry`, is shown to have an `Outcome`, a directory in order that lists
the names it did before and, on success, the ones added, and outcomes compose. What the work is in are
the operators on records. Inserting in a hole, dividing a record and merging two
keep the sum of the lengths (`Places` gives each record its offset as a function, and the fold
`Offset` is shown to compute it), so every block stays tiled. Collecting a leaf's
names, sorting them, cutting them in two and packing both halves keeps the *set* of names: the
exchange sort is a permutation whatever the hashes (`Arrangements`), the halves
are disjoint because the collected names are distinct. The library's `FoldLeft` is
unfolded by a lemma of `SumProofs` (`RunExists`), in which the folded operator is a
function and so can be a variable of the lemma.

That the hash leads to the name is the order of the leaves (`Ordered`): the index lists
every leaf once, its hashes ascend, and a name in a leaf has a hash not below that of the
leaf's entry and below that of the next one, or equal to it if another name has
the same hash (a split may cut between the two). Then the search for a hash ends where such a name can only
be (`PickedFinds`), and what it finds may take a new name (`PickedFits`). A split keeps the order because
the exchange sort sorts (`SortOrders`), so all of the left half is at or below the
first of the right half, whose hash the new entry gets, and because that entry goes behind the old one's
(`OrderedSplit`). The first index has one leaf, which holds any name (`FirstIndex`). An index over several
blocks need not be in order: the proof attempt showed that without `mixed` the
property does not follow for larger constants.

**Sums.** The super block's counts are sums over groups. The library's induction theorems
take an operator as parameter, which the provers cannot instantiate; `SumProofs` states
induction for *sets* of numbers instead (`SetInduction`, from the well-foundedness of
`<`), and from it derives that the fold behind `MapThenSumSet` exists, what it is on a set less one element, and how a sum moves
when one summand does (`SumChanges`).

**Formatting.** The layout comes first. A group's metadata is one run of blocks from its
start (`GroupLayout`), so bitmap, metadata and free count are intervals, the last group,
which may end inside its metadata, included. Any write of mkfs is at an offset
in a group; writes at different offsets or in different groups are apart
(`RegionsApart`, from the rounding lemma `DivUpBounds` and `LayoutAssumption`).
`Writes(n)` is five such parts joined, two of them by `FlattenSeq`, whose recursive
function is unfolded by `SetInduction` (`FlattenUnfolds`); so no write falls on another
(`WritesSpread`). The invariant then says what is on the disk at any moment: without a
super block it is blank, and with one every other block is blank or of the same mkfs,
which is so because the super block is the first write and mkfs never runs again once it
is there; a mkfs under way has done its first `k - 1` writes; one that ended has done all;
and if none was cut short, the super block is one that ended.

**Disk driver.** `TransferExact` says that *some* prefix is moved. The invariant says
which: what the chunks done amount to, and inside a chunk at least what this attempt
has moved and at most the chunk, since programmed I/O begins anew the chunk that DMA
left half done. Moving a sector a second time changes nothing (`MoveOne`).

**Keyboard.** The ring, the line and the flag are one invariant, and it has to hold at
every access of the main loop: `Taken` is what the head has passed at that access,
`Stale` the decrement under way. The ring holds the unread input from `Taken` on;
the line is its beginning, with the first `'\n'` at its end; and there is a `'\n'` for the line
being read and one more for the flag if it is set. The last is why a backspace
can never reach a character that is already in the line.

**Only model-checked.** Liveness (`CallsReturn`, `LineTaken`) needs fairness, which is out
of this prover's reach. `FileData` uses RECURSIVE operators (trees), with which the SMT
backend is lost (section 7).

## 5. Findings

1. **`balloc.c:250`** The cache's buffer is filled while it still counts as valid for
   the group before. A read that fails after some sectors leaves a mixture, and a block in use
   is handed out (`BlockAllocTornRead`).
2. **`open.c:38`** `open("/")` and `open("")` take no reference, `close` drops one; the
   root dentry is freed under its children (`VfsRootClosed`).
3. **`htree.c:587`** Growing the index to two levels overwrites the node's `limit` and
   `count` with the root's; the last leaf drops out of the index
   (`DirectoryIndexLost`).

Other weak places are hazards with a note, excluded where a property says so:

* **`mkdir` of a name that exists.** `dir.c:255` does not look it up, nor does ext4. The
  new record may land before the old one; removing the name then takes the new record away and frees
  the old inode. No failure is needed.
* **A lookup that cannot be read** (`ext4/inode.c:257`, `ext4/dir.c:626`) answers like one
  that found nothing; O_CREAT then makes a second entry of the name.
* **`rmdir` ignores that its scan failed** (`ext4/inode.c:534`) and removes a directory
  with names in it, even the parent of the working directory.
* **A removal reported as failed** that reached the disk (`ext4/inode.c:471`, `538`)
  leaves the dentry in the cache with an inode that has no entry any more.
* **A lookup with no in-memory inode left** passes a null pointer on to be filled
  (`super.c:1083`).
* **A tree deeper than the walk's four buffers** (`ext4/inode.c:120`) is freed without
  what is below the nodes that got no buffer. The comment there says the node itself is
  freed so that nothing leaks for ever; its children and data do.
* **Names of different lengths in an index leaf** (`htree.c:362`) overwrite each other.
* **The new inode's write** (`ext4/inode.c:437`) may fail unnoticed, its entry's may fail
  having reached the disk.

And a read of a whole block in a hole (`extents.c:1009` tests a pointer
nobody set; `ReadBack` shows that only files with holes come to it), a mkfs cut short
after its first write, the five events of `Keyboard`'s `Spoil`, a late error of the
drive, a crash inside O_TRUNC, a full disk in the middle of an extent or leaf split, a
write into a hole that leaves the inode clean. One more came out of a proof: an upgrade
of several blocks (`dir.c:420`) orders them by their largest hashes although the hashes of
one may lie between those of another, so the index does not lead to every name and a lookup falls back
on reading the whole directory. It takes an earlier upgrade that failed because block 0's names did
not fit into one leaf, which the run's instance does not have.

## 6. Not modelled

* Registers and ports of the ATA driver: `AtaDisk` has what the drive answers.
* Mounting a super block this mkfs did not write (other block size, other descriptor
  size, zero geometry), and exhausted memory in mkfs and mount.
* Failing transfers of tree blocks in `FileData` and of index blocks in `Directory`.
* Files with direct/indirect block maps (`EXT4_EXTENTS_FL` clear): the code never
  creates one; directories do use that map and `Directory` has it.
* `readdir`, `getdents`, `getcwd`: they change nothing.
* The task manager (no task is ever added, so it returns what it was given), time
  (calendar arithmetic on one clock reading; no property speaks of time stamps), the
  shell's commands (sequences of system calls and output, but for `fill`); console, fonts, formatting, mouse, GDT,
  boot: output, generated data or a fixed sequence run once.
* Timestamps, permissions, checksums, names' characters: no property speaks of them.

## 7. Plan

Done: `BlockAlloc`, `Vfs`, `Namespace`, `FileData`, `Directory`, `Keyboard`, `Mkfs`,
`AtaDisk`, the refinements of `BlockPool` and `NameTree`; the proofs of every safety
property of `BlockAlloc`, `Vfs`, `Namespace`, `Directory`, `Mkfs`, `AtaDisk` and
`Keyboard`. Next:

1. `FileData`: the tree as a function from nodes instead of RECURSIVE operators, then
   `BlocksOwnedOnce`.
2. `Directory` with failing writes and power loss inside an upgrade and a split.
