------------------------------ MODULE FileData ------------------------------
(***************************************************************************)
(* The data of one regular file: the extent tree (fs/ext4/extents.c), the   *)
(* read, write, truncate and release paths above it (fs/ext4/file.c), and   *)
(* the release of the tree (fs/ext4/inode.c).                               *)
(*                                                                          *)
(* The root of the tree is part of the inode, which lives in memory while   *)
(* the file is open and is written back by close; the other nodes are       *)
(* blocks that every insertion writes at once.  A system call is one step,  *)
(* but for a truncating open, which the power may cut in two.  Positions    *)
(* and lengths count units of which a block holds BlockSize.                *)
(***************************************************************************)
EXTENDS Integers, SequencesExt, FiniteSetsExt, FreeRuns

CONSTANTS
    BlockSize,      \* units in a block
    FsBlocks,       \* blocks of the disk; block 0 is never allocated
    Used,           \* blocks that belong to others
    RootMax,        \* entries that fit into i_block
    NodeMax,        \* entries that fit into a block
    MaxDepth,       \* EXT4_EXT_MAX_DEPTH
    WalkBuffers,    \* MAX_MALLOC_BLOCKS of inode.c: nodes in memory when a tree is freed
    MaxLen,         \* EXT4_EXT_INIT_MAX_LEN
    MaxRun,         \* blocks of one transfer
    Goals,          \* values of ext4_set_prealloc_goal_len
    Fds,
    WriteLens,      \* lengths of writes
    ReadLens,       \* lengths of reads
    MaxSize,        \* bound on positions
    MaxGen,         \* bound on truncations
    MaxCrashes      \* bound on power losses

Blk == 1 .. FsBlocks - 1
LBlocks == 0 .. MaxSize \div BlockSize
Unmapped == 0

ASSUME FileDataAssumption ==
    /\ BlockSize \in Nat \ {0} /\ FsBlocks \in Nat /\ Used \subseteq Blk
    /\ RootMax \in Nat \ {0, 1} /\ NodeMax \in Nat \ {0, 1} /\ MaxLen \in Nat \ {0}
    /\ MaxDepth \in Nat /\ WalkBuffers \in Nat
    /\ Goals \subseteq Nat \ {0} /\ 1 \in Goals /\ MaxRun \in Nat \ {0}

VARIABLES
    s,          \* what the calls work on: the inode, the tree, the bitmap, the data
    dinode,     \* the inode on the disk
    goal,       \* ext4_prealloc_goal_len
    pos,        \* f_pos of each descriptor, Closed if it is not open
    ret,        \* how the last read ended
    pc,         \* "idle", or the descriptor whose truncating open is half done
    hist        \* ghost: what happened so far

vars == <<s, dinode, goal, pos, ret, pc, hist>>
Closed == -1

\* An entry of a leaf maps len blocks from lb on to blocks from pb on; one of an
\* index node says that the blocks from lb on are below the node in block pb.
Node(depth, ents) == [depth |-> depth, ents |-> ents]
NoTree == [depth |-> -1, ents |-> << >>]        \* no EXT4_EXT_MAGIC in i_block
Entry == [lb : Nat, len : Nat, pb : Blk]
NodeType == [depth : -1 .. MaxDepth, ents : Seq(Entry)]

\* What a unit of a block holds: unit o of the file as written after the g-th
\* truncation, zeros, or what an earlier owner of the block left.
Value(g, o) == <<g, o>>
Zero == <<-1, 0>>
Junk == <<-1, 1>>
JunkBlock == [u \in 0 .. BlockSize - 1 |-> Junk]

Inode == [root |-> NoTree, size |-> 0]
Init ==
    /\ s = [inode |-> Inode, dirty |-> FALSE,
            nodes |-> [b \in Blk |-> NoTree],
            data |-> [b \in Blk |-> JunkBlock],
            bm |-> Used, cursor |-> 1,
            map |-> [l \in LBlocks |-> Unmapped], nospace |-> FALSE]
    /\ dinode = Inode
    /\ goal = 1
    /\ pos = [f \in Fds |-> Closed]
    /\ ret = "none"
    /\ pc = "idle"
    /\ hist = [gen |-> 0, sparse |-> FALSE, forgot |-> FALSE, cut |-> FALSE, crashes |-> 0,
               lost |-> {}, dmap |-> [l \in LBlocks |-> Unmapped]]
-------------------------------------------------------------------------------
(* Blocks: ext4_new_blocks_in_group of a disk of one group, and             *)
(* ext4_free_block.  BlockAlloc has their inside.                           *)

Take(st, run) ==
    LET next == run[1] + run[2]
    IN  [st |-> [st EXCEPT !.bm = @ \cup (run[1] .. next - 1),
                           !.cursor = IF next >= FsBlocks THEN 1 ELSE next],
         pb |-> run[1], len |-> run[2]]

TakeAny(st, runs) ==
    IF runs = {} THEN [st |-> [st EXCEPT !.nospace = TRUE], pb |-> Unmapped, len |-> 0]
    ELSE Take(st, CHOOSE r \in runs : TRUE)

Alloc(st, n) ==
    LET full == NextFit(st.bm, st.cursor, FsBlocks, n, TRUE)
    IN  TakeAny(st, IF full # {} THEN full ELSE NextFit(st.bm, st.cursor, FsBlocks, n, FALSE))
-------------------------------------------------------------------------------
(* The extent tree.  A path is the sequence of nodes from the root, each    *)
(* with its block (0 for the root, which is in the inode).                  *)

\* Where an entry for lb goes: behind the last that does not start after it.
InsertPos(ents, lb) ==
    LET le == {i \in DOMAIN ents : ents[i].lb <= lb}
    IN  IF le = {} THEN 0 ELSE Max(le)

\* ext4_extents_read_path takes the last index entry that does not start after
\* lb, the first if there is none.
Chosen(ents, lb) ==
    IF InsertPos(ents, lb) = 0 THEN ents[1] ELSE ents[InsertPos(ents, lb)]

RECURSIVE Descend(_, _, _)
\* A node that is not one level lower than its parent, or an index node without an
\* entry, ends the descent in an error: there is no path.
Descend(st, path, lb) ==
    LET node == Last(path).node
        b == Chosen(node.ents, lb).pb
    IN  IF node.depth <= 0 THEN path
        ELSE IF node.ents = << >> \/ st.nodes[b].depth # node.depth - 1 THEN << >>
        ELSE Descend(st, Append(path, [blk |-> b, node |-> st.nodes[b]]), lb)

ReadPath(st, lb) == Descend(st, <<[blk |-> 0, node |-> st.inode.root]>>, lb)

\* ext4_extents_find: the first entry of the leaf that covers lb.
Covers(e, lb) == e.lb <= lb /\ lb < e.lb + e.len
Lookup(st, lb) ==
    IF st.inode.root.depth = -1 \/ ReadPath(st, lb) = << >> THEN Unmapped
    ELSE LET ents == Last(ReadPath(st, lb)).node.ents
             hit == {i \in DOMAIN ents : Covers(ents[i], lb)}
         IN  IF hit = {} THEN Unmapped
             ELSE ents[Min(hit)].pb + (lb - ents[Min(hit)].lb)

\* ext4_extents_write_path_node
Store(st, path, level, ents) ==
    LET n == Node(path[level].node.depth, ents)
    IN  IF path[level].blk = 0 THEN [st EXCEPT !.inode.root = n]
        ELSE [st EXCEPT !.nodes[path[level].blk] = n]

Capacity(path, level) == IF path[level].blk = 0 THEN RootMax ELSE NodeMax

\* Two extents that continue each other on the disk and in the file.
Joins(e, f) ==
    e.lb + e.len = f.lb /\ e.pb + e.len = f.pb /\ e.len + f.len <= MaxLen
Join(e, f) == [e EXCEPT !.len = @ + f.len]

\* Mutant: a full node takes one more entry.
InsertExtent_Overfull(ents, e, max) == InsertAt(ents, InsertPos(ents, e.lb) + 1, e)

\* ext4_extents_insert: merged with the neighbours, or put between them; the
\* empty sequence when there is no room for it.
InsertExtent(ents, e, max) ==
    LET i == InsertPos(ents, e.lb)
        left == i > 0 /\ Joins(ents[i], e)
        right == i < Len(ents) /\ Joins(e, ents[i + 1])
        both == left /\ i < Len(ents) /\ Joins(Join(ents[i], e), ents[i + 1])
    IN  IF both
        THEN RemoveAt([ents EXCEPT ![i] = Join(Join(@, e), ents[i + 1])], i + 1)
        ELSE IF left THEN [ents EXCEPT ![i] = Join(@, e)]
        ELSE IF right THEN [ents EXCEPT ![i + 1] = Join(e, @)]
        ELSE IF Len(ents) = max THEN << >>
        ELSE InsertAt(ents, i + 1, e)

\* Mutant: the right node gets what stays in the left one, too.
Halves_NotCut(ents, e) ==
    LET i == InsertPos(ents, e.lb)
        n == Len(ents)
    IN  IF i = n THEN [left |-> ents, right |-> <<e>>]
        ELSE [left |-> Append(SubSeq(ents, 1, i), e), right |-> ents]

\* A full node is split where the new entry goes: at its end the entry starts
\* the right node, anywhere else it ends the left one.
Halves(ents, e) ==
    LET i == InsertPos(ents, e.lb)
        n == Len(ents)
    IN  IF i = n THEN [left |-> ents, right |-> <<e>>]
        ELSE [left |-> Append(SubSeq(ents, 1, i), e), right |-> SubSeq(ents, i + 1, n)]

Fail(st) == [ok |-> FALSE, st |-> st, lb |-> 0, pb |-> Unmapped]

\* The right half goes to the new block, if there is one.
SplitOff(a, path, level, h) ==
    IF a.pb = Unmapped THEN Fail(a.st)
    ELSE [ok |-> TRUE, lb |-> h.right[1].lb, pb |-> a.pb,
          st |-> [Store(a.st, path, level, h.left)
                    EXCEPT !.nodes[a.pb] = Node(path[level].node.depth, h.right)]]

\* The root is cut before there is a block for its half.
CutRoot(st, path, level, h) ==
    IF path[level].blk = 0 THEN Store(st, path, level, h.left) ELSE st

\* Mutant: the parent gets the key of the new entry, wherever it went.
SplitNode_NewKey(st, path, level, e) ==
    LET h == Halves(path[level].node.ents, e)
    IN  [SplitOff(Alloc(CutRoot(st, path, level, h), 1), path, level, h) EXCEPT !.lb = e.lb]

\* ext4_extents_split_leaf and its like for an index node.
SplitNode(st, path, level, e) ==
    LET h == Halves(path[level].node.ents, e)
    IN  SplitOff(Alloc(CutRoot(st, path, level, h), 1), path, level, h)

\* ext4_extents_grow_indepth: the root moves into a block; the inode points to
\* it and to the node split off.
GrowInto(a, lb, pb) ==
    LET old == a.st.inode.root
        Idx(l, p) == [lb |-> l, len |-> 0, pb |-> p]
    IN  IF a.pb = Unmapped THEN Fail(a.st)
        ELSE [ok |-> TRUE, lb |-> 0, pb |-> Unmapped,
              st |-> [a.st EXCEPT !.nodes[a.pb] = old,
                        !.inode.root = Node(old.depth + 1,
                            <<Idx(old.ents[1].lb, a.pb), Idx(lb, pb)>>)]]

Grow(st, lb, pb) ==
    IF st.inode.root.depth >= MaxDepth THEN Fail(st) ELSE GrowInto(Alloc(st, 1), lb, pb)

RECURSIVE AddIndex(_, _, _, _, _)
\* ext4_extents_add_index: upwards from the level above the node split off.
AddIndex(st, path, level, lb, pb) ==
    LET ents == path[level].node.ents
        e == [lb |-> lb, len |-> 0, pb |-> pb]
        sp == SplitNode(st, path, level, e)
    IN  IF level = 0 THEN Grow(st, lb, pb)
        ELSE IF Len(ents) < Capacity(path, level)
        THEN [ok |-> TRUE, lb |-> 0, pb |-> Unmapped,
              st |-> Store(st, path, level, InsertAt(ents, InsertPos(ents, lb) + 1, e))]
        ELSE IF ~sp.ok THEN sp
        ELSE AddIndex(sp.st, path, level - 1, sp.lb, sp.pb)

\* An inode is dirty when new blocks are counted in i_blocks, which itself is
\* left out here.
Count(st, n) == [st EXCEPT !.dirty = @ \/ n > 0]

\* ext4_extents_alloc_new_extent counts all blocks but the first, which is left
\* to the caller.
Counted(a) == [a EXCEPT !.st = Count(@, a.len - 1)]
AllocExtent(st) == Counted(Alloc(st, goal))

\* The parents of a node that was split get the new one.
LinkUp(sp, path) ==
    IF sp.ok THEN AddIndex(sp.st, path, Len(path) - 1, sp.lb, sp.pb) ELSE sp

InsertLeaf(st, path, e) ==
    LET leaf == Len(path)
        ins == InsertExtent(path[leaf].node.ents, e, Capacity(path, leaf))
    IN  IF ins # << >>
        THEN [ok |-> TRUE, st |-> Store(st, path, leaf, ins), lb |-> 0, pb |-> e.pb]
        ELSE LinkUp(SplitNode(st, path, leaf, e), path)

\* What an insertion that succeeds adds to the map of the file.
Mapped(r, e) ==
    IF ~r.ok THEN r
    ELSE [r EXCEPT !.pb = e.pb,
                   !.st.map = [l \in LBlocks |->
                       IF @[l] = Unmapped /\ Covers(e, l) THEN e.pb + (l - e.lb) ELSE @[l]]]

\* ext4_extents_insert_mapped_block
InsertRun(a, path, lb) ==
    LET e == [lb |-> lb, len |-> IF a.len > MaxLen THEN MaxLen ELSE a.len, pb |-> a.pb]
    IN  IF a.pb = Unmapped THEN Fail(a.st) ELSE Mapped(InsertLeaf(a.st, path, e), e)
InsertMapped(st, path, lb) == InsertRun(AllocExtent(st), path, lb)

\* An inode without a tree gets an empty one (ext4_extents_init_root).
Rooted(st) ==
    IF st.inode.root.depth = -1 THEN [st EXCEPT !.inode.root = Node(0, << >>)] ELSE st

Created(r) == [ok |-> r.ok, st |-> r.st, pb |-> r.pb, new |-> r.ok]

\* ext4_extents_get_block with create set.  A block that was in the tree
\* already, or was preallocated with another, is not new.
GetRooted(st, lb) ==
    LET hit == Lookup(st, lb)
    IN  IF hit # Unmapped THEN [ok |-> TRUE, st |-> st, pb |-> hit, new |-> FALSE]
        ELSE IF ReadPath(st, lb) = << >> THEN Created(Fail(st))
        ELSE Created(InsertMapped(st, ReadPath(st, lb), lb))
GetBlock(st, lb) == GetRooted(Rooted(st), lb)

RECURSIVE TreeBlocks(_, _, _)
\* The blocks of the tree below a node, data and nodes, in the order in which
\* ext4_free_extent_tree_node frees them.  It holds a node in memory for each level
\* that it is down; what is below the last of the buffers it does not see.
TreeBlocks(nodes, node, buffers) ==
    LET Below(b) == IF buffers = 0 THEN << >> ELSE TreeBlocks(nodes, nodes[b], buffers - 1)
    IN  IF node.depth <= 0
        THEN FlattenSeq([i \in DOMAIN node.ents |->
                            [j \in 1 .. node.ents[i].len |-> node.ents[i].pb + j - 1]])
        ELSE FlattenSeq([i \in DOMAIN node.ents |->
                            Append(Below(node.ents[i].pb), node.ents[i].pb)])

\* The blocks of the whole tree.
TreeSeq(inode) == TreeBlocks(s.nodes, inode.root, MaxDepth)
-------------------------------------------------------------------------------
(* fs/ext4/file.c                                                           *)

Least(a, b) == IF a < b THEN a ELSE b

New(g) == IF g.new THEN 1 ELSE 0

\* Unit range [from, to) of the file, all within block lb, which is block pb.
PutData(st, pb, lb, from, to, base) ==
    [st EXCEPT !.data[pb] = [u \in 0 .. BlockSize - 1 |->
        LET o == lb * BlockSize + u
        IN  IF from <= o /\ o < to THEN Value(hist.gen, o) ELSE base[u]]]

\* Mutant: the run goes on wherever the next block of the file is.
Continues_AnyBlock(g, pb, run) == g.ok /\ pb + run.len \in Blk

\* Full blocks are written in one transfer as long as the next block of the
\* file is the next block of the disk.
Continues(g, pb, run) == g.ok /\ g.pb = pb + run.len

\* A block that breaks the run has been allocated all the same, and is not
\* counted as new by anyone.
Longer(g, pb, run) ==
    IF Continues(g, pb, run)
    THEN [run EXCEPT !.st = g.st, !.len = @ + 1, !.new = @ + New(g)]
    ELSE [run EXCEPT !.st = g.st, !.limit = run.len]

RECURSIVE Probe(_, _, _)
Probe(lb, pb, run) ==
    IF run.len >= run.limit THEN run
    ELSE Probe(lb, pb, Longer(GetBlock(run.st, lb + run.len), pb, run))

RECURSIVE PutRun(_, _, _, _)
PutRun(st, pb, lb, n) ==
    IF n = 0 THEN st
    ELSE PutRun(PutData(st, pb, lb, lb * BlockSize, (lb + 1) * BlockSize, st.data[pb]),
                pb + 1, lb + 1, n - 1)

\* The write w after done more units, which left the state st.
Advance(w, st, done) == [w EXCEPT !.st = st, !.p = @ + done, !.n = @ - done]

WriteWhole(w, run, pb) ==
    Advance(w, Count(PutRun(run.st, pb, w.p \div BlockSize, run.len), run.new),
            run.len * BlockSize)

\* One turn of the loop of ext4_file_write: g is the block at the position.
WriteTurn(w, g) ==
    LET lb == w.p \div BlockSize
        k == Least(BlockSize - (w.p % BlockSize), w.n)
        base == IF g.new THEN [u \in 0 .. BlockSize - 1 |-> Zero] ELSE g.st.data[g.pb]
    IN  IF ~g.ok THEN [w EXCEPT !.ok = FALSE, !.st = g.st]
        ELSE IF k = BlockSize
        THEN WriteWhole(w, Probe(lb, g.pb, [st |-> g.st, len |-> 1, new |-> New(g),
                                            limit |-> Least(w.n \div BlockSize, MaxRun)]), g.pb)
        ELSE Advance(w, Count(PutData(g.st, g.pb, lb, w.p, w.p + k, base), New(g)), k)

RECURSIVE WriteLoop(_)
\* The loop, with n units left to write from position p on.
WriteLoop(w) ==
    IF w.n = 0 \/ ~w.ok THEN w
    ELSE WriteLoop(WriteTurn(w, GetBlock(w.st, w.p \div BlockSize)))

Resized(st, end) ==
    IF end > st.inode.size THEN [st EXCEPT !.inode.size = end, !.dirty = TRUE] ELSE st

Idle == pc = "idle"
Open(f) == pos[f] # Closed

\* vfs_write and ext4_file_write.  After an error the position and the size
\* are what they were; the blocks stay in the tree.
Write(f, n) ==
    /\ Idle /\ Open(f) /\ pos[f] + n <= MaxSize
    /\ \E w \in {WriteLoop([ok |-> TRUE, st |-> s, p |-> pos[f], n |-> n])} :
          /\ s' = IF w.ok THEN Resized(w.st, pos[f] + n) ELSE w.st
          /\ pos' = IF w.ok THEN [pos EXCEPT ![f] = @ + n] ELSE pos
    /\ hist' = [hist EXCEPT !.sparse = @ \/ pos[f] > s.inode.size]
    /\ ret' = "none"
    /\ UNCHANGED <<dinode, goal, pc>>

\* ext4_extents_map_blocks of a block that is not mapped uses an extent pointer
\* nobody set: null ends the read, anything else is an error or a wild read.
MapUnset == {"short", "err", "wild"}

RECURSIVE ReadLoop(_, _)
\* ext4_file_read from p for n units, all below the size: how far it gets and
\* the ways in which it may end.
ReadLoop(p, n) ==
    LET lb == p \div BlockSize
        k == Least(BlockSize - (p % BlockSize), n)
    IN  IF n = 0 THEN [pos |-> p, ends |-> {"ok"}]
        ELSE IF Lookup(s, lb) # Unmapped THEN ReadLoop(p + k, n - k)
        ELSE IF ReadPath(s, lb) = << >> THEN [pos |-> p, ends |-> {"err"}]
        ELSE [pos |-> p, ends |-> IF k = BlockSize /\ s.inode.root.depth # -1
                                  THEN MapUnset ELSE {"short"}]

Read(f, n) ==
    /\ Idle /\ Open(f)
    /\ LET r == ReadLoop(pos[f], Least(n, s.inode.size - pos[f]))
       IN  IF pos[f] >= s.inode.size THEN ret' = "ok" /\ UNCHANGED pos
           ELSE \E end \in r.ends :
                   /\ ret' = end
                   /\ pos' = IF end \in {"ok", "short"} THEN [pos EXCEPT ![f] = r.pos] ELSE pos
    /\ UNCHANGED <<s, dinode, goal, pc, hist>>

\* Open without O_TRUNC.
OpenFile(f) ==
    /\ Idle /\ ~Open(f) /\ goal = 1
    /\ pos' = [pos EXCEPT ![f] = 0]
    /\ ret' = "none"
    /\ UNCHANGED <<s, dinode, goal, pc, hist>>

\* Mutant: the blocks of the tree's nodes stay allocated.
FreeTree_LeavesOnly(st) ==
    LET leaves == {l \in LBlocks : st.map[l] # Unmapped}
    IN  [st EXCEPT !.bm = @ \ {st.map[l] : l \in leaves}, !.inode = Inode, !.dirty = TRUE,
                   !.map = [l \in LBlocks |-> Unmapped]]

\* ext4_free_inode_data_blocks.  What the blocks hold is junk to their next owner.
FreeTree(st) ==
    LET freed == ToSet(TreeBlocks(st.nodes, st.inode.root, WalkBuffers))
    IN  [st EXCEPT !.bm = @ \ freed,
                   !.nodes = [b \in Blk |-> IF b \in freed THEN NoTree ELSE @[b]],
                   !.data = [b \in Blk |-> IF b \in freed THEN JunkBlock ELSE @[b]],
                   !.inode = Inode, !.dirty = TRUE,
                   !.map = [l \in LBlocks |-> Unmapped]]

\* The command that preallocates (fill) has the file for itself: it sets the
\* goal, opens with O_TRUNC, writes, closes and sets the goal back.
MayTruncate(f) == ~Open(f) /\ (goal > 1 => \A h \in Fds : ~Open(h))

\* Mutant: the truncated inode stays in memory until the file is closed.
OpenTruncated_Later ==
    /\ pc \in Fds
    /\ pos' = [pos EXCEPT ![pc] = 0]
    /\ pc' = "idle"
    /\ UNCHANGED <<s, dinode, goal, ret, hist>>

\* The blocks that freeing the tree leaves marked, though nothing leads to them any
\* more: the data of a tree with more levels than there are buffers.
Unseen == ToSet(TreeSeq(s.inode)) \ ToSet(TreeBlocks(s.nodes, s.inode.root, WalkBuffers))

\* ext4_file_open with O_TRUNC: the blocks are free on the disk before the
\* inode that names them is written.
OpenTruncate(f) ==
    /\ Idle /\ MayTruncate(f) /\ hist.gen < MaxGen
    /\ s' = FreeTree(s)
    /\ pc' = f
    /\ hist' = [hist EXCEPT !.gen = @ + 1, !.sparse = FALSE, !.lost = @ \cup Unseen]
    /\ ret' = "none"
    /\ UNCHANGED <<dinode, goal, pos>>

Saved == dinode' = s.inode /\ hist' = [hist EXCEPT !.dmap = s.map]
NotSaved ==
    /\ UNCHANGED dinode
    /\ hist' = [hist EXCEPT !.dmap = s.map, !.forgot = @ \/ s.inode # dinode]

OpenTruncated ==
    /\ pc \in Fds
    /\ Saved
    /\ s' = [s EXCEPT !.dirty = FALSE]
    /\ pos' = [pos EXCEPT ![pc] = 0]
    /\ pc' = "idle"
    /\ UNCHANGED <<goal, ret>>

\* Mutant: only the last of several closes saves, but each takes the mark off.
Release_LastOnly ==
    IF s.dirty /\ Cardinality({f \in Fds : Open(f)}) = 1 THEN Saved ELSE NotSaved

\* ext4_file_release
Release == IF s.dirty THEN Saved ELSE NotSaved

\* The last close drops the inode in memory; the next open reads it again.
Close(f) ==
    /\ Idle /\ Open(f)
    /\ Release
    /\ s' = IF \E h \in Fds \ {f} : Open(h) THEN [s EXCEPT !.dirty = FALSE]
            ELSE [s EXCEPT !.dirty = FALSE, !.inode = dinode']
    /\ pos' = [pos EXCEPT ![f] = Closed]
    /\ ret' = "none"
    /\ UNCHANGED <<goal, pc>>

SetGoal(n) ==
    /\ Idle /\ \A f \in Fds : ~Open(f)
    /\ goal' = n
    /\ UNCHANGED <<s, dinode, pos, ret, pc, hist>>

\* Off and on again: the inode is read from the disk.
PowerCycle ==
    /\ hist.crashes < MaxCrashes
    /\ s' = [s EXCEPT !.inode = dinode, !.dirty = FALSE, !.cursor = 1, !.map = hist.dmap]
    /\ pos' = [f \in Fds |-> Closed]
    /\ goal' = 1 /\ ret' = "none" /\ pc' = "idle"
    /\ hist' = [hist EXCEPT !.crashes = @ + 1, !.cut = @ \/ pc # "idle"]
    /\ UNCHANGED dinode

Next ==
    \/ \E f \in Fds, n \in WriteLens : Write(f, n)
    \/ \E f \in Fds, n \in ReadLens : Read(f, n)
    \/ \E f \in Fds : OpenFile(f) \/ OpenTruncate(f) \/ Close(f)
    \/ OpenTruncated
    \/ \E n \in Goals : SetGoal(n)
    \/ PowerCycle

Spec == Init /\ [][Next]_vars
-------------------------------------------------------------------------------
TypeOK ==
    /\ s.inode.root \in NodeType
    /\ \A b \in Blk : s.nodes[b] \in NodeType /\ Len(s.nodes[b].ents) <= NodeMax
    /\ Len(s.inode.root.ents) <= RootMax
    /\ s.inode.size \in Nat /\ s.dirty \in BOOLEAN
    /\ s.bm \subseteq Blk
    /\ s.map \in [LBlocks -> Blk \cup {Unmapped}]
    /\ pos \in [Fds -> Int]

\* What the code does not survive: the power going inside a truncating open, a
\* close that took a changed inode for clean, and, in a file with holes, a full
\* disk or a power loss, after which a node cut in its middle is not put together.
Damaged ==
    hist.cut \/ hist.forgot \/ (hist.sparse /\ (s.nospace \/ hist.crashes > 0))

\* The tree is the map that the calls built: every block of the file that was
\* ever given a disk block still has that one, and no other block has any,
\* through every split, every new level and every merge, through a full disk,
\* and through a power loss for what was saved.
MapExact ==
    ~Damaged =>
        \A l \in LBlocks : s.map[l] # Unmapped \/ hist.crashes = 0 => Lookup(s, l) = s.map[l]

Sound(inode) == IsInjective(TreeSeq(inode)) /\ ToSet(TreeSeq(inode)) \subseteq s.bm \ Used

\* No block is twice in the tree, as data or as a node, and all are marked in
\* use: in memory, and on the disk whenever the power may go between two calls
\* (inside a truncating open the blocks are free and the inode has them still).
BlocksOwnedOnce == ~hist.cut => Sound(s.inode) /\ (Idle => Sound(dinode))

\* As long as the disk was never full and the power never went, the blocks in
\* use are those of the tree: truncation gives back every node and every
\* preallocated block, but for the data of a tree deeper than the buffers of the
\* walk (lost), whose nodes it gives back.  (A write into a hole may leave the
\* inode clean, and close then forgets its blocks.)
NoLeak ==
    ~s.nospace /\ hist.crashes = 0 /\ ~hist.forgot =>
        s.bm = Used \cup ToSet(TreeSeq(s.inode)) \cup hist.lost

\* Below the size, a read finds what was written there since the last
\* truncation; in a file with holes it may find a hole or zeros.  It never finds
\* what an earlier owner of the block left.  In a file without holes no read
\* ends early or comes to the pointer that is never set (MapUnset).
ReadBack ==
    ~Damaged =>
        /\ hist.sparse \/ ret \in {"none", "ok"}
        /\ \A o \in 0 .. s.inode.size - 1 :
              LET b == Lookup(s, o \div BlockSize)
              IN  IF b = Unmapped THEN hist.sparse
                  ELSE s.data[b][o % BlockSize] \in
                          {Value(hist.gen, o)} \cup (IF hist.sparse THEN {Zero} ELSE {})

\* Close saves every change to the inode (I_DIRTY: the inode was changed and has
\* to be written back).
ChangesSaved == ~hist.forgot

\* It does for a file without holes and as long as the disk has room, whatever
\* the order in which blocks were allocated, preallocated, probed and counted.
ClosedSaved == hist.sparse \/ s.nospace \/ ChangesSaved
=============================================================================
