------------------------------ MODULE BlockAlloc ------------------------------
(***************************************************************************)
(* The block allocator of MiniExt4 (fs/ext4/balloc.c): one bitmap per block *)
(* group, a one-entry write-through bitmap cache, a next-fit cursor per     *)
(* group, the free counts of the group descriptors and of the super block.  *)
(*                                                                          *)
(* A call is split at its disk accesses: each step is the code between two  *)
(* of them, so that an access may fail (and leave a torn block behind) and  *)
(* the power may go in between.  System calls run with interrupts off, so   *)
(* at most one call is under way: op says how far it has come.              *)
(***************************************************************************)
EXTENDS Integers, FiniteSets, FiniteSetsExt, FreeRuns

CONSTANTS
    GroupsCount,    \* s_groups_count
    GroupBlocks,    \* GroupBlocks[g]: blocks of group g; the last may be short
    Reserved,       \* Reserved[g]: bits mkfs marks for metadata
    RBlocks,        \* what mkfs's super block count is short of the groups' counts
    Goals,          \* goal_len values callers ask for
    Batches,        \* values ext4_set_bg_sync_batch is called with
    SectorCuts,     \* bit positions in a bitmap block where a sector begins
    TornReads,      \* the values of s_bmap_cache_valid with which a failing read may
                    \* have filled part of the cache's buffer
    MaxFaults       \* bound on failing accesses and power losses

Groups == 0 .. GroupsCount - 1
Bits(g) == 0 .. GroupBlocks[g] - 1
Blocks == UNION {{g} \X Bits(g) : g \in Groups}

ASSUME GeometryAssumption ==
    /\ GroupsCount \in Nat \ {0}
    /\ GroupBlocks \in [Groups -> Nat \ {0}]
    /\ Reserved \in [Groups -> SUBSET Nat]
    /\ \A g \in Groups : Reserved[g] \subseteq Bits(g)

ASSUME TuningAssumption ==
    /\ Goals \subseteq Nat /\ IsFiniteSet(Goals)
    /\ Batches \subseteq Nat
    /\ SectorCuts \subseteq Nat
    /\ TornReads \subseteq BOOLEAN
    /\ MaxFaults \in Nat
    /\ RBlocks \in Int

VARIABLES
    bitmap,     \* on disk: bitmap[g], the set bits of group g's block bitmap
    gdfree,     \* on disk: bg_free_blocks_count of each group descriptor
    sbfree,     \* on disk: s_free_blocks_count of the super block
    cache,      \* s_bmap_cache_{valid, dirty, group, buf}
    nf,         \* s_alloc_nf: goal_group and goal_bit_per_group
    pending,    \* s_bg_sync_pending
    batch,      \* ext4_bg_sync_batch
    op,         \* the call under way
    ret,        \* what the last call returned
    owners,     \* ghost: how many holders each block has (metadata counts)
    synced,     \* ghost: the super block's counts were written since mkfs
    faults      \* ghost: failures so far

vars == <<bitmap, gdfree, sbfree, cache, nf, pending, batch, op, ret,
          owners, synced, faults>>
disk == <<bitmap, gdfree, sbfree>>
-------------------------------------------------------------------------------
Sum(f) == MapThenSumSet(LAMBDA g : f[g], Groups)

IdleOp == [pc |-> "idle", goal |-> 1, start |-> 0, pass |-> 0, scanned |-> 0,
           bit |-> 0, len |-> 0, gd |-> 0, um |-> FALSE]
PCs == {"idle", "scan", "load", "search", "flush", "gd", "async",
        "fbitmap", "fgd", "fsync", "bflush", "bsync"}

NoCache == [valid |-> FALSE, dirty |-> FALSE, group |-> 0, buf |-> {}]
NoGoal == [group |-> 0, bit |-> [g \in Groups |-> 1]]

CacheType == [valid : BOOLEAN, dirty : BOOLEAN, group : Groups, buf : SUBSET Nat]
GoalType == [group : Groups, bit : [Groups -> Nat]]
OpType == [pc : PCs, goal : Nat, start : Groups, pass : {0, 1}, scanned : Nat,
           bit : Nat, len : Nat, gd : Nat, um : BOOLEAN]

TypeOK ==
    /\ bitmap \in [Groups -> SUBSET Nat]
    /\ gdfree \in [Groups -> Nat]
    /\ cache \in CacheType
    /\ nf \in GoalType
    /\ pending \in Nat
    /\ batch \in Nat
    /\ op \in OpType
    /\ ret \in {"none", "zero", "block", "ok", "err"}
    /\ owners \in [Blocks -> Nat]
    /\ synced \in BOOLEAN
    /\ faults \in Nat

Init ==
    /\ bitmap = Reserved
    /\ gdfree = [g \in Groups |-> GroupBlocks[g] - Cardinality(Reserved[g])]
    /\ sbfree = Sum(gdfree) - RBlocks
    /\ cache = NoCache
    /\ nf = NoGoal
    /\ pending = 0
    /\ batch = 1
    /\ op = IdleOp
    /\ ret = "none"
    /\ owners = [blk \in Blocks |-> IF blk[2] \in Reserved[blk[1]] THEN 1 ELSE 0]
    /\ synced = FALSE
    /\ faults = 0

At(pc) == op.pc = pc
Return(r) == op' = IdleOp /\ ret' = r
Goto(pc) == op' = [op EXCEPT !.pc = pc] /\ UNCHANGED ret
Ok == UNCHANGED faults
Fault == faults < MaxFaults /\ faults' = faults + 1

(***************************************************************************)
(* A transfer that fails has moved a prefix of the block's sectors: what is *)
(* behind it is the new content up to a sector boundary, the old from there.*)
(***************************************************************************)
Torn(old, new) ==
    {{b \in new : b < k} \cup {b \in old : b >= k} : k \in SectorCuts}

\* ext4_write_block_bitmap of buf to group g, completed or torn.
WriteBitmap(g, buf) == bitmap' = [bitmap EXCEPT ![g] = buf] /\ Ok
TearBitmap(g, buf) ==
    \E b \in Torn(bitmap[g], buf) : bitmap' = [bitmap EXCEPT ![g] = b] /\ Fault

\* A descriptor lies in one sector: a failing ext4_write_group_desc has
\* written the new count or not.
WriteGd(g, n) == gdfree' = [gdfree EXCEPT ![g] = n] /\ Ok
TearGd(g, n) ==
    (gdfree' = [gdfree EXCEPT ![g] = n] \/ UNCHANGED gdfree) /\ Fault
-------------------------------------------------------------------------------
(* ext4_new_blocks_in_group                                                 *)

NoGroup == GroupsCount      \* (uint32_t)-1: no preferred group

NewBlocks(goal_len, preferred_group) ==
    /\ At("idle")
    /\ op' = [IdleOp EXCEPT
                !.pc = "scan",
                !.goal = IF goal_len = 0 THEN 1 ELSE goal_len,
                !.start = IF preferred_group < GroupsCount THEN preferred_group
                                                           ELSE nf.group]
    /\ ret' = "none"
    /\ UNCHANGED <<disk, cache, nf, pending, batch, owners, synced, faults>>

\* The group under scan: start_group + groups_scanned, wrapped once.
CurGroup ==
    LET g == op.start + op.scanned
    IN  IF g >= GroupsCount THEN g - GroupsCount ELSE g

Continue == op' = [op EXCEPT !.pc = "scan", !.scanned = @ + 1] /\ UNCHANGED ret

\* Mutant: the pass is not advanced.
EndPass_SamePass ==
    /\ At("scan") /\ op.scanned = GroupsCount
    /\ IF op.goal > 1 /\ op.pass = 0
       THEN op' = [op EXCEPT !.scanned = 0] /\ UNCHANGED ret
       ELSE Return("zero")
    /\ UNCHANGED <<disk, cache, nf, pending, batch, owners, synced, faults>>

\* All groups scanned: the second pass accepts less than the goal; after it,
\* or when the goal is one block, there is no space.
EndPass ==
    /\ At("scan") /\ op.scanned = GroupsCount
    /\ IF op.goal > 1 /\ op.pass = 0
       THEN op' = [op EXCEPT !.pass = 1, !.scanned = 0] /\ UNCHANGED ret
       ELSE Return("zero")
    /\ UNCHANGED <<disk, cache, nf, pending, batch, owners, synced, faults>>

\* Next group: too short to hold a block, its descriptor unreadable, or read.
VisitGroup ==
    /\ At("scan") /\ op.scanned < GroupsCount
    /\ \/ GroupBlocks[CurGroup] <= 1 /\ Continue /\ Ok
       \/ GroupBlocks[CurGroup] > 1 /\ Continue /\ Fault
       \/ /\ GroupBlocks[CurGroup] > 1
          /\ op' = [op EXCEPT !.pc = "load", !.gd = gdfree[CurGroup]]
          /\ UNCHANGED ret /\ Ok
    /\ UNCHANGED <<disk, cache, nf, pending, batch, owners, synced>>

\* Mutant: the cached bitmap is taken for whatever group is asked for.
CacheHit_AnyGroup ==
    /\ At("load") /\ cache.valid
    /\ Goto("search")
    /\ UNCHANGED <<disk, cache, nf, pending, batch, owners, synced, faults>>

\* ext4_bmap_cache_load: hit, or flush what is dirty and read the bitmap.
CacheHit ==
    /\ At("load") /\ cache.valid /\ cache.group = CurGroup
    /\ Goto("search")
    /\ UNCHANGED <<disk, cache, nf, pending, batch, owners, synced, faults>>

CacheMiss == At("load") /\ ~(cache.valid /\ cache.group = CurGroup)

\* ext4_bmap_cache_flush does nothing for a clean or invalid cache.
NeedsFlush == cache.valid /\ cache.dirty

LoadFlush ==
    /\ CacheMiss /\ NeedsFlush
    /\ \/ /\ WriteBitmap(cache.group, cache.buf)
          /\ cache' = [cache EXCEPT !.dirty = FALSE]
          /\ UNCHANGED <<op, ret>>
       \/ TearBitmap(cache.group, cache.buf) /\ Continue /\ UNCHANGED cache
       \/ Fault /\ Continue /\ UNCHANGED <<bitmap, cache>>
    /\ UNCHANGED <<gdfree, sbfree, nf, pending, batch, owners, synced>>

\* The bitmap is read straight into the cache's buffer; group and valid are
\* set only when the read has succeeded.
LoadRead ==
    /\ CacheMiss /\ ~NeedsFlush
    /\ \/ /\ cache' = [valid |-> TRUE, dirty |-> FALSE, group |-> CurGroup,
                       buf |-> bitmap[CurGroup]]
          /\ Goto("search") /\ Ok
       \/ Continue /\ Fault /\ UNCHANGED cache
       \/ /\ cache.valid \in TornReads
          /\ \E b \in Torn(cache.buf, bitmap[CurGroup]) :
                cache' = [cache EXCEPT !.buf = b]
          /\ Continue /\ Fault
    /\ UNCHANGED <<disk, nf, pending, batch, owners, synced>>

\* Where the scan of group g starts: its cursor, if that is inside the group.
StartBit(g) ==
    IF nf.bit[g] >= 1 /\ nf.bit[g] < GroupBlocks[g] THEN nf.bit[g] ELSE 1

\* Mutant: the scan does not wrap to the bits before the cursor.
FindRun_NoWrap(g) ==
    ScanFreeRun(cache.buf, StartBit(g), GroupBlocks[g], op.goal,
                op.goal > 1 /\ op.pass = 0)

FindRun(g) ==
    NextFit(cache.buf, StartBit(g), GroupBlocks[g], op.goal, op.goal > 1 /\ op.pass = 0)

\* Mutant: the whole goal is marked, not only the run that was found.
Search_MarkGoal ==
    /\ At("search")
    /\ \/ FindRun(CurGroup) = {} /\ Continue /\ UNCHANGED cache
       \/ \E r \in FindRun(CurGroup) :
             /\ cache' = [cache EXCEPT !.dirty = TRUE,
                                       !.buf = @ \cup (r[1] .. r[1] + op.goal - 1)]
             /\ op' = [op EXCEPT !.pc = "flush", !.bit = r[1], !.len = r[2]]
             /\ UNCHANGED ret
    /\ UNCHANGED <<disk, nf, pending, batch, owners, synced, faults>>

\* ext4_bmap_mark_blocks
Search ==
    /\ At("search")
    /\ \/ FindRun(CurGroup) = {} /\ Continue /\ UNCHANGED cache
       \/ \E r \in FindRun(CurGroup) :
             /\ cache' = [cache EXCEPT !.dirty = TRUE,
                                       !.buf = @ \cup (r[1] .. r[1] + r[2] - 1)]
             /\ op' = [op EXCEPT !.pc = "flush", !.bit = r[1], !.len = r[2]]
             /\ UNCHANGED ret
    /\ UNCHANGED <<disk, nf, pending, batch, owners, synced, faults>>

\* Mutant: write-back instead of write-through: the marked bitmap stays dirty.
FlushMarked_WriteBack ==
    /\ At("flush")
    /\ Goto("gd")
    /\ UNCHANGED <<disk, cache, nf, pending, batch, owners, synced, faults>>

\* The marked bitmap is written through; on failure the marks stay in the
\* cache and the caller gets nothing.
FlushMarked ==
    /\ At("flush")
    /\ \/ /\ WriteBitmap(CurGroup, cache.buf)
          /\ cache' = [cache EXCEPT !.dirty = FALSE]
          /\ Goto("gd")
       \/ TearBitmap(CurGroup, cache.buf) /\ Return("zero") /\ UNCHANGED cache
       \/ Fault /\ Return("zero") /\ UNCHANGED <<bitmap, cache>>
    /\ UNCHANGED <<gdfree, sbfree, nf, pending, batch, owners, synced>>

\* The cursor moves behind the run, or to the next group at the group's end.
NextGoal(g, next_bit) ==
    IF next_bit >= GroupBlocks[g]
    THEN [group |-> IF g + 1 < GroupsCount THEN g + 1 ELSE 0,
          bit   |-> [nf.bit EXCEPT ![g] = 1]]
    ELSE [group |-> g, bit |-> [nf.bit EXCEPT ![g] = next_bit]]

\* Mutant: one block is counted per allocation, whatever its length.
CountDown_One == IF op.gd > 1 THEN op.gd - 1 ELSE 0

\* Mutant: the subtraction is not guarded against a count that is too low.
CountDown_NoClamp == op.gd - op.len

CountDown == IF op.gd > op.len THEN op.gd - op.len ELSE 0

AllocGd ==
    /\ At("gd")
    /\ \/ /\ WriteGd(CurGroup, CountDown)
          /\ nf' = NextGoal(CurGroup, op.bit + op.len)
          /\ pending' = pending + 1
          /\ Goto("async")
       \/ TearGd(CurGroup, CountDown) /\ Return("zero") /\ UNCHANGED <<nf, pending>>
    /\ UNCHANGED <<bitmap, sbfree, cache, batch, owners, synced>>

\* Mutant: a full batch resets the pending count and forgets to sync.
BatchedSync_Forgotten ==
    \/ pending < batch /\ Ok /\ UNCHANGED <<sbfree, pending, synced>>
    \/ pending >= batch /\ pending' = 0 /\ Ok /\ UNCHANGED <<sbfree, synced>>

\* The tail of an allocation or a free: when a batch is full the super block's
\* count is recomputed from the descriptors.  A failure is ignored and the
\* pending count reset all the same.
BatchedSync ==
    \/ pending < batch /\ Ok /\ UNCHANGED <<sbfree, pending, synced>>
    \/ /\ pending >= batch /\ pending' = 0
       /\ \/ sbfree' = Sum(gdfree) /\ synced' = TRUE /\ Ok
          \/ Fault /\ UNCHANGED synced
             /\ (sbfree' = Sum(gdfree) \/ UNCHANGED sbfree)

AllocRun == {CurGroup} \X (op.bit .. op.bit + op.len - 1)

\* The caller now holds the run.
AllocReturn ==
    /\ At("async")
    /\ BatchedSync
    /\ owners' = [blk \in Blocks |->
                    IF blk \in AllocRun THEN owners[blk] + 1 ELSE owners[blk]]
    /\ Return("block")
    /\ UNCHANGED <<bitmap, gdfree, cache, nf, batch>>
-------------------------------------------------------------------------------
(* ext4_free_block.  Every caller ignores the result, so the block has no   *)
(* holder from the call on.  It may be a block nobody holds: an extent that *)
(* was inserted twice is freed twice.                                       *)

FreeBlock(blk) ==
    /\ At("idle")
    /\ blk[2] \notin Reserved[blk[1]]
    /\ owners' = [owners EXCEPT ![blk] = 0]
    /\ op' = [IdleOp EXCEPT !.pc = "fbitmap", !.start = blk[1], !.bit = blk[2]]
    /\ ret' = "none"
    /\ UNCHANGED <<disk, cache, nf, pending, batch, synced, faults>>

\* The bitmap is read from the disk, not from the cache; a free bit is done.
FreeBitmap ==
    LET g == op.start
        freed == bitmap[g] \ {op.bit}
    IN  /\ At("fbitmap")
        /\ \/ op.bit \notin bitmap[g] /\ Return("ok") /\ Ok /\ UNCHANGED bitmap
           \/ op.bit \in bitmap[g] /\ WriteBitmap(g, freed) /\ Goto("fgd")
           \/ op.bit \in bitmap[g] /\ TearBitmap(g, freed) /\ Return("err")
           \/ Fault /\ Return("err") /\ UNCHANGED bitmap
        /\ UNCHANGED <<gdfree, sbfree, cache, nf, pending, batch, owners, synced>>

\* A failure here returns before the cache is invalidated.
FreeGd ==
    LET n == gdfree[op.start] + 1
    IN  /\ At("fgd")
        /\ \/ WriteGd(op.start, n) /\ pending' = pending + 1 /\ Goto("fsync")
           \/ TearGd(op.start, n) /\ Return("err") /\ UNCHANGED pending
        /\ UNCHANGED <<bitmap, sbfree, cache, nf, batch, owners, synced>>

\* Mutant: a free leaves the cache alone.
InvalidateCache_Never(g) == cache

InvalidateCache(g) ==
    IF cache.valid /\ cache.group = g
    THEN [cache EXCEPT !.valid = FALSE, !.dirty = FALSE] ELSE cache

FreeReturn ==
    /\ At("fsync")
    /\ BatchedSync
    /\ cache' = InvalidateCache(op.start)
    /\ Return("ok")
    /\ UNCHANGED <<bitmap, gdfree, nf, batch, owners>>
-------------------------------------------------------------------------------
(* ext4_balloc_flush, on its own (the fill and churn commands) or from      *)
(* ext4_kill_sb, which ignores its result and frees the in-memory state.    *)

Mounted == cache' = NoCache /\ nf' = NoGoal /\ pending' = 0

BallocFlush(um) ==
    /\ At("idle")
    /\ op' = [IdleOp EXCEPT !.pc = "bflush", !.um = um]
    /\ ret' = "none"
    /\ UNCHANGED <<disk, cache, nf, pending, batch, owners, synced, faults>>

FlushDone(r) ==
    /\ Return(r)
    /\ IF op.um THEN Mounted ELSE UNCHANGED <<nf, pending>> /\ cache' = cache

FlushCache ==
    /\ At("bflush")
    /\ \/ ~NeedsFlush /\ Ok /\ Goto("bsync") /\ UNCHANGED <<bitmap, cache, nf, pending>>
       \/ /\ NeedsFlush /\ WriteBitmap(cache.group, cache.buf)
          /\ cache' = [cache EXCEPT !.dirty = FALSE]
          /\ Goto("bsync") /\ UNCHANGED <<nf, pending>>
       \/ NeedsFlush /\ TearBitmap(cache.group, cache.buf) /\ FlushDone("err")
       \/ NeedsFlush /\ Fault /\ FlushDone("err") /\ UNCHANGED bitmap
    /\ UNCHANGED <<gdfree, sbfree, batch, owners, synced>>

FlushSync ==
    /\ At("bsync")
    /\ \/ pending = 0 /\ FlushDone("ok") /\ Ok /\ UNCHANGED <<sbfree, synced>>
       \/ /\ pending > 0 /\ sbfree' = Sum(gdfree) /\ synced' = TRUE /\ Ok
          /\ Return("ok") /\ pending' = 0
          /\ IF op.um THEN Mounted ELSE UNCHANGED <<cache, nf>>
       \/ /\ pending > 0 /\ Fault /\ UNCHANGED synced
          /\ (sbfree' = Sum(gdfree) \/ UNCHANGED sbfree)
          /\ FlushDone("err")
    /\ UNCHANGED <<bitmap, gdfree, batch, owners>>
-------------------------------------------------------------------------------
SetBatch(b) ==
    /\ At("idle")
    /\ batch' = IF b = 0 THEN 1 ELSE b
    /\ UNCHANGED <<disk, cache, nf, pending, op, ret, owners, synced, faults>>

\* The power goes, between calls or inside one; the next boot mounts what is
\* on the disk (ext4_fill_super).  A call under way hands nothing out.
PowerLoss ==
    /\ Fault
    /\ Mounted
    /\ batch' = 1
    /\ op' = IdleOp /\ ret' = "none"
    /\ UNCHANGED <<disk, owners, synced>>

Call ==
    \/ \E n \in Goals, g \in 0 .. NoGroup : NewBlocks(n, g)
    \/ \E blk \in Blocks : FreeBlock(blk)
    \/ \E um \in BOOLEAN : BallocFlush(um)
    \/ \E b \in Batches : SetBatch(b)

Step ==
    \/ EndPass \/ VisitGroup \/ CacheHit \/ LoadFlush \/ LoadRead \/ Search
    \/ FlushMarked \/ AllocGd \/ AllocReturn
    \/ FreeBitmap \/ FreeGd \/ FreeReturn
    \/ FlushCache \/ FlushSync

Next == Call \/ Step \/ PowerLoss

Spec == Init /\ [][Next]_vars

\* A call runs to its end: interrupts are off and every poll of the disk is
\* bounded.  Nothing forces a caller to make a call.
FairSpec == Spec /\ WF_vars(Step)
-------------------------------------------------------------------------------
\* No block has two holders: ext4_new_blocks_in_group never hands out a block
\* that a file, a directory or the metadata still uses, whatever accesses
\* failed and wherever the power went.
NoDoubleAllocation == \A blk \in Blocks : owners[blk] <= 1

\* A held block is marked in its group's bitmap on the disk, and in the cache
\* whenever that holds the group: the write-through cache and the disk bitmap
\* that ext4_free_block edits behind it never disagree about a held block.
OwnedMarked ==
    \A blk \in Blocks : owners[blk] > 0 =>
        /\ blk[2] \in bitmap[blk[1]]
        /\ cache.valid /\ cache.group = blk[1] => blk[2] \in cache.buf

\* What the proofs add to make the two facts above inductive.  The scan stays
\* inside the groups; the marked run is in the cache (and after its flush on
\* the disk) and has no holder until the call returns it; the block being
\* freed has no holder.
ScanInv ==
    /\ op.pc = "scan" => op.scanned <= GroupsCount
    /\ op.pc \in {"load", "search", "flush", "gd", "async"} => op.scanned < GroupsCount

CacheInv ==
    op.pc \in {"search", "flush", "gd", "async"} => cache.valid /\ cache.group = CurGroup

RunInv ==
    op.pc \in {"flush", "gd", "async"} =>
        \A b \in op.bit .. op.bit + op.len - 1 :
            /\ b \in cache.buf
            /\ op.pc # "flush" => b \in bitmap[CurGroup]
            /\ <<CurGroup, b>> \in Blocks => owners[<<CurGroup, b>>] = 0

FreeInv ==
    op.pc = "fbitmap" =>
        <<op.start, op.bit>> \in Blocks /\ owners[<<op.start, op.bit>>] = 0

SafetyInv ==
    NoDoubleAllocation /\ OwnedMarked /\ CacheInv /\ RunInv /\ FreeInv

\* Without failures no marked block is lost: between calls, every bit set in a
\* bitmap belongs to a holder.
NoLeak ==
    faults = 0 /\ At("idle") =>
        \A g \in Groups : \A b \in bitmap[g] : <<g, b>> \in Blocks /\ owners[<<g, b>>] > 0

\* Without failures a group descriptor's free count is the number of clear
\* bits of the group's bitmap whenever no call is under way.
GroupCountsExact ==
    faults = 0 /\ At("idle") =>
        \A g \in Groups : gdfree[g] = GroupBlocks[g] - Cardinality(bitmap[g])

MaxGoal == Max(Goals \cup {1})

\* Once written, the super block's free count is off by at most what the calls
\* of an unfinished batch moved; with nothing pending it is exact.
SuperCountLag ==
    faults = 0 /\ At("idle") /\ synced =>
        LET lag == sbfree - Sum(gdfree)
        IN  lag <= pending * MaxGoal /\ -lag <= pending * MaxGoal

\* Without failures an allocation gives up only on a full disk: no group has a
\* clear bit other than bit 0.  (The cursor's wrap and the second pass miss
\* nothing, and the cache hides no freed block.)
AllocFindsSpace ==
    faults = 0 /\ ret = "zero" =>
        \A g \in Groups : (1 .. GroupBlocks[g] - 1) \subseteq bitmap[g]

\* After a free the cache cannot conflict with the bitmap on the disk: between
\* calls a valid and clean cache holds what the disk holds.
CacheCoherent ==
    At("idle") /\ cache.valid /\ ~cache.dirty => cache.buf = bitmap[cache.group]

\* The same, of the histories without failures.
CacheCoherentNoFault == faults = 0 => CacheCoherent

\* The allocator implements a pool of blocks: through caches, cursors, batches,
\* failing writes and lost power, what its callers hold changes only by a run of
\* free blocks handed out when a call returns, or by a block given back.
Pool == INSTANCE BlockPool WITH
    Metadata <- {blk \in Blocks : blk[2] \in Reserved[blk[1]]},
    holders <- owners

PoolImplemented == Pool!Spec

\* Every call returns: the scan over two passes and all groups ends.
CallsReturn == op.pc # "idle" ~> op.pc = "idle"
===============================================================================
