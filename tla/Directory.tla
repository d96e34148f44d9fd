------------------------------ MODULE Directory ------------------------------
(***************************************************************************)
(* The blocks of one directory (fs/ext4/dir.c) and its hash index           *)
(* (fs/ext4/htree.c): records that tile a block, the linear directory, its  *)
(* upgrade to an index when the first block is full, the split of a full    *)
(* leaf, the second level of the index.  A call is one step.                *)
(*                                                                          *)
(* Logical blocks are numbered from 0; the mapped ones are always a prefix. *)
(* Lengths count units of four bytes.                                       *)
(***************************************************************************)
EXTENDS Integers, SequencesExt, FiniteSetsExt, Functions

CONSTANTS
    Names,          \* file names
    Size,           \* Size[n]: EXT4_DIR_REC_LEN of name n; also of Dot and DotDot
    Hash,           \* Hash[n]: ext4_htree_name_hash32
    BlockLen,       \* length of a block
    RootMax,        \* limit of the index root
    NDirect,        \* 12: blocks that i_block maps by itself
    PerIndirect,    \* blocks that the indirect block maps
    DiskBlocks      \* blocks left on the disk

Dot == "."
DotDot == ".."
Hole == ""
Dots == {Dot, DotDot}

ASSUME DirectoryAssumption ==
    /\ Names \cap (Dots \cup {Hole}) = {}
    /\ Size \in [Names \cup Dots -> Nat \ {0}]
    /\ Hash \in [Names -> Nat]
    /\ BlockLen \in Nat /\ Size[Dot] + Size[DotDot] < BlockLen
    /\ \A n \in Names : Size[n] <= BlockLen
    /\ RootMax \in Nat \ {0} /\ NDirect \in Nat \ {0} /\ PerIndirect \in Nat
    /\ DiskBlocks \in Nat

VARIABLES
    d,          \* the directory: see Init
    names,      \* ghost: names whose addition succeeded and that were not removed
    broken,     \* ghost: an addition failed half way
    torn,       \* ghost: a record was written over a part of another
    mixed,      \* ghost: an index was built over more than one block
    twice       \* ghost: a name was added that the directory had

vars == <<d, names, broken, torn, mixed, twice>>

Rec(len, name) == [len |-> len, name |-> name]
DxEntry(hash, lblk) == [hash |-> hash, lblk |-> lblk]
Empty == <<Rec(BlockLen, Hole)>>

\* The block of a new directory (ext4_mkdir).
NewDirBlock ==
    <<Rec(Size[Dot], Dot), Rec(Size[DotDot], DotDot),
      Rec(BlockLen - Size[Dot] - Size[DotDot], Hole)>>

Init ==
    /\ d = [blks |-> <<NewDirBlock>>,   \* blks[l + 1]: the records of logical block l
            disk |-> 1,                 \* how many there were when the inode was written
            ind |-> FALSE,              \* the indirect block is allocated
            indexed |-> FALSE,          \* EXT4_INODE_FLAG_INDEX
            root |-> [limit |-> 0, ents |-> << >>],
            level |-> 0,                \* indirect_levels
            node |-> [limit |-> 0, ents |-> << >>],
            free |-> DiskBlocks]
    /\ names = {}
    /\ broken = FALSE /\ torn = FALSE /\ mixed = FALSE /\ twice = FALSE
-------------------------------------------------------------------------------
(* Records in a block.                                                      *)

UsedLen(r) == IF r.name = Hole THEN 0 ELSE Size[r.name]
Offset(recs, i) == FoldLeft(LAMBDA a, r : a + r.len, 0, SubSeq(recs, 1, i - 1))
First(S) == IF S = {} THEN 0 ELSE Min(S)

\* The linear directory: the first record with enough slack behind its name.
LinearFit(recs, name) == First({i \in DOMAIN recs : recs[i].len >= UsedLen(recs[i]) + Size[name]})

\* A name in a hole, and one in the end of a record that keeps the length len.
Fill(recs, i, name) == [recs EXCEPT ![i].name = name]
Divide(recs, i, len, name) ==
    InsertAt([recs EXCEPT ![i].len = len], i + 1, Rec(recs[i].len - len, name))

\* Mutant: the record in front keeps its length.
LinearPut_NotCut(recs, i, name) ==
    IF recs[i].name = Hole THEN Fill(recs, i, name)
    ELSE InsertAt(recs, i + 1, Rec(recs[i].len - UsedLen(recs[i]), name))

LinearPut(recs, i, name) ==
    IF recs[i].name = Hole THEN Fill(recs, i, name)
    ELSE Divide(recs, i, UsedLen(recs[i]), name)

\* ext4_htree_try_insert_leaf: the first hole, whatever its length, or the first
\* record with slack.  The record in front is cut to the length of the new one,
\* not to its own.  torn says that one of the two ran into another record.
TryInsertLeaf(recs, name) ==
    LET need == Size[name]
        i == First({j \in DOMAIN recs :
                      /\ Offset(recs, j) + need <= BlockLen
                      /\ recs[j].name = Hole \/ recs[j].len >= need + UsedLen(recs[j])})
        r == recs[i]
    IN  IF i = 0 THEN [ok |-> FALSE, recs |-> recs, torn |-> FALSE]
        ELSE IF r.name = Hole
        THEN [ok |-> TRUE, recs |-> Fill(recs, i, name), torn |-> r.len < need]
        ELSE [ok |-> TRUE, recs |-> Divide(recs, i, need, name),
              torn |-> need < UsedLen(r) \/ r.len - need < need]

\* The names of a block in the order of its records.
CollectOne(found, r) == IF r.name = Hole THEN found ELSE Append(found, r.name)
Collect(recs) == FoldLeft(CollectOne, << >>, recs)

NamesIn(recs) == {r.name : r \in ToSet(recs)} \ {Hole}

\* ext4_htree_pack_leaf; torn if the names do not fit into the block.
Packed(items) == [i \in DOMAIN items |-> Rec(Size[items[i]], items[i])]
PackLen(items) == Offset(Packed(items), Len(items) + 1)
PackLeaf(items) ==
    IF PackLen(items) < BlockLen
    THEN Append(Packed(items), Rec(BlockLen - PackLen(items), Hole)) ELSE Packed(items)

\* The exchange sorts of the leaf's items and of the leaves, by a hash each has.
Exchange(t, key, i, j) ==
    IF key[t[i]] > key[t[j]] THEN [t EXCEPT ![i] = t[j], ![j] = t[i]] ELSE t
SortPass(t, key, i) ==
    FoldLeft(LAMBDA u, k : Exchange(u, key, i, i + k), t, [k \in 1 .. Len(t) - i |-> k])
ExchangeSort(s, key) ==
    FoldLeft(LAMBDA t, i : SortPass(t, key, i), s, [i \in DOMAIN s |-> i])
-------------------------------------------------------------------------------
(* Blocks and the index.                                                    *)

\* A new block behind the last one: the first that i_block cannot map costs one
\* more block, the indirect block.
NextLblk(x) == Len(x.blks)
Cost(x) == IF NextLblk(x) >= NDirect /\ ~x.ind THEN 2 ELSE 1
CanMap(x) == x.free >= Cost(x) /\ NextLblk(x) < NDirect + PerIndirect
MapBlock(x, recs) ==
    [x EXCEPT !.blks = Append(@, recs), !.free = @ - Cost(x),
              !.ind = @ \/ NextLblk(x) >= NDirect]
WriteInode(x) == [x EXCEPT !.disk = Len(x.blks)]

\* ext4_htree_pick_leaf_lblock: the hash of entry 1 is not looked at, its place
\* holds limit and count.
PickLblock(ents, h) ==
    ents[Max({i \in DOMAIN ents : \A j \in 2 .. i : ents[j].hash <= h})].lblk

Target(x) == IF x.level = 1 THEN x.node ELSE x.root
PickLeaf(x, h) == PickLblock(Target(x).ents, h)

MaxHash(recs) ==
    LET hs == {Hash[n] : n \in NamesIn(recs)} IN IF hs = {} THEN 0 ELSE Max(hs)

No(x) == [ok |-> FALSE, d |-> x, torn |-> FALSE]

\* Mutant: the names that follow the dots in block 0 are not moved.
Moved_Dropped(recs) == [ok |-> TRUE, recs |-> Empty, torn |-> FALSE]

\* A name of block 0 moves to the new leaf.
MoveName(leaf, n) ==
    LET t == TryInsertLeaf(leaf.recs, n)
    IN  IF ~leaf.ok \/ n \in Dots THEN leaf ELSE [t EXCEPT !.torn = @ \/ leaf.torn]

Moved(recs) ==
    FoldLeft(MoveName, [ok |-> TRUE, recs |-> Empty, torn |-> FALSE], Collect(recs))

\* The new leaf's names are in leaf.  The index lists the leaves in the order of
\* their largest hashes.
UpgradeWith(x, leaf) ==
    LET y == MapBlock(x, leaf.recs)
        lblks == ExchangeSort([i \in 1 .. Len(y.blks) - 1 |-> i],
                              [l \in 1 .. Len(y.blks) - 1 |-> MaxHash(y.blks[l + 1])])
        ents == [i \in DOMAIN lblks |->
                    DxEntry(IF i = 1 THEN 0 ELSE MaxHash(y.blks[lblks[i - 1] + 1]) + 1, lblks[i])]
        root == <<Rec(Size[Dot], Dot), Rec(BlockLen - Size[Dot], DotDot)>>
    IN  IF ~leaf.ok \/ Len(ents) > RootMax
        THEN No([x EXCEPT !.ind = y.ind, !.free = @ - (Cost(x) - 1)])
        ELSE [ok |-> TRUE, torn |-> leaf.torn,
              d |-> WriteInode([y EXCEPT !.indexed = TRUE, !.blks[1] = root,
                                         !.root = [limit |-> RootMax, ents |-> ents]])]

\* ext4_dir_upgrade_to_htree.  When it fails the new block is given back, the
\* indirect block is not.
Upgrade(x) == IF CanMap(x) THEN UpgradeWith(x, Moved(x.blks[1])) ELSE No(x)

\* Mutant: the new leaf's entry goes in front of the old leaf's.
WithEntry_Before(ents, lblk, e) == InsertAt(ents, SelectInSeq(ents, LAMBDA f : f.lblk = lblk), e)

\* The entry of a new leaf, behind that of the leaf it was split from.
WithEntry(ents, lblk, e) == InsertAt(ents, SelectInSeq(ents, LAMBDA f : f.lblk = lblk) + 1, e)

\* A full root moves its entries to a node.  With entry 1 the node's limit and
\* count are overwritten by the root's: the last entry is beyond the count.
GrowIndex(x, lblk, e) ==
    LET y == MapBlock(x, Empty)
    IN  IF x.level = 1 \/ ~CanMap(x) THEN No(x)
        ELSE [ok |-> TRUE, torn |-> FALSE,
              d |-> [y EXCEPT !.level = 1,
                       !.node = [limit |-> x.root.limit,
                                 ents |-> SubSeq(WithEntry(x.root.ents, lblk, e), 1,
                                                 Len(x.root.ents))],
                       !.root.ents = <<DxEntry(0, NextLblk(x))>>]]

\* Mutant: the limit of the index is not looked at.
AddToIndex_NoLimit(x, lblk, e) ==
    LET ents == WithEntry(Target(x).ents, lblk, e)
    IN  [ok |-> TRUE, torn |-> FALSE,
         d |-> IF x.level = 1 THEN [x EXCEPT !.node.ents = ents]
                              ELSE [x EXCEPT !.root.ents = ents]]

AddToIndex(x, lblk, e) ==
    LET ents == WithEntry(Target(x).ents, lblk, e)
    IN  IF Len(ents) > Target(x).limit THEN GrowIndex(x, lblk, e)
        ELSE [ok |-> TRUE, torn |-> FALSE,
              d |-> IF x.level = 1 THEN [x EXCEPT !.node.ents = ents]
                                   ELSE [x EXCEPT !.root.ents = ents]]

SplitAt(items) ==
    LET mid == Len(items) \div 2
    IN  [left |-> SubSeq(items, 1, mid), right |-> SubSeq(items, mid + 1, Len(items))]

\* ext4_htree_split_leaf: the left half is on the disk before there is a block
\* for the right one, both before there is a place in the index.
SplitLeaf(x, lblk, name) ==
    LET items == ExchangeSort(Append(Collect(x.blks[lblk + 1]), name), Hash)
        h == SplitAt(items)
        cut == [x EXCEPT !.blks[lblk + 1] = PackLeaf(h.left)]
        both == MapBlock(cut, PackLeaf(h.right))
        r == AddToIndex(both, lblk, DxEntry(Hash[h.right[1]], NextLblk(cut)))
        over == PackLen(h.left) > BlockLen \/ PackLen(h.right) > BlockLen
    IN  IF Len(items) < 2 THEN No(x)
        ELSE IF ~CanMap(cut) THEN [No(cut) EXCEPT !.torn = PackLen(h.left) > BlockLen]
        ELSE IF ~r.ok THEN [r EXCEPT !.torn = over]
        ELSE [ok |-> TRUE, d |-> WriteInode(r.d), torn |-> over]

\* ext4_add_entry of an indexed directory.
AddIndexed(x, name) ==
    LET lblk == PickLeaf(x, Hash[name])
        t == TryInsertLeaf(x.blks[lblk + 1], name)
    IN  IF lblk >= Len(x.blks) THEN No(x)
        ELSE IF t.ok THEN [ok |-> TRUE, d |-> [x EXCEPT !.blks[lblk + 1] = t.recs],
                           torn |-> t.torn]
        ELSE SplitLeaf(x, lblk, name)

\* A full linear directory becomes indexed, and if it cannot, it gets one more
\* block.
AddUpgraded(up, name) ==
    LET more == WriteInode(MapBlock(up.d, LinearPut(Empty, 1, name)))
    IN  IF up.ok THEN [AddIndexed(up.d, name) EXCEPT !.torn = @ \/ up.torn]
        ELSE IF CanMap(up.d) THEN [ok |-> TRUE, d |-> more, torn |-> FALSE]
        ELSE No(up.d)

\* ext4_add_entry of a linear one: the first block with room.
AddLinear(x, name) ==
    LET b == First({i \in DOMAIN x.blks : LinearFit(x.blks[i], name) # 0})
    IN  IF b # 0
        THEN [ok |-> TRUE, torn |-> FALSE,
              d |-> [x EXCEPT !.blks[b] = LinearPut(@, LinearFit(@, name), name)]]
        ELSE AddUpgraded(Upgrade(x), name)

AddEntry(x, name) == IF x.indexed THEN AddIndexed(x, name) ELSE AddLinear(x, name)

\* ext4_dir_foreach: the names of all blocks but the dots.
Listing(x) == (UNION {NamesIn(recs) : recs \in ToSet(x.blks)}) \ Dots

\* ext4_find_entry: the leaf that the index leads to, else any block.
Find(x, name) == name \in Listing(x)

\* ext4_remove_entry in a block: merged with the record in front, a first record
\* becomes a hole.
Cut(recs, i) ==
    IF i = 1 THEN [recs EXCEPT ![1].name = Hole]
    ELSE RemoveAt([recs EXCEPT ![i - 1].len = @ + recs[i].len], i)

Where(recs, name) == First({i \in DOMAIN recs : recs[i].name = name})
-------------------------------------------------------------------------------
\* ext4_add_entry does not look for the name, nor does vfs_mkdir, its caller: the
\* directory may have it.  A directory with one name twice, or with a torn record,
\* is not followed any further than to the eviction of its inode.
AddName(name) ==
    /\ ~torn /\ ~twice
    /\ twice' = Find(d, name)
    /\ \E r \in {AddEntry(d, name)} :
          /\ d' = r.d
          /\ torn' = r.torn
          /\ names' = IF r.ok THEN names \cup {name} ELSE names
          /\ broken' = (broken \/ (~r.ok /\ Listing(r.d) # Listing(d)))
          /\ mixed' = (mixed \/ (~d.indexed /\ r.d.indexed /\ Len(d.blks) > 1))

RemoveEntry(name) ==
    /\ ~torn /\ ~twice /\ Find(d, name)
    /\ LET b == First({i \in DOMAIN d.blks : Where(d.blks[i], name) # 0})
       IN  d' = [d EXCEPT !.blks[b] = Cut(@, Where(@, name))]
    /\ names' = names \ {name}
    /\ UNCHANGED <<broken, torn, mixed, twice>>

\* The blocks that the inode on the disk maps.  The indirect block is written when
\* a block is mapped in it, i_block only with the inode.
KeptBlocks(x) == IF x.disk > NDirect THEN Len(x.blks) ELSE x.disk

\* The directory's inode leaves memory and is read again: blocks that only the
\* inode in memory mapped are gone.
Evict ==
    /\ d' = [d EXCEPT !.blks = SubSeq(@, 1, KeptBlocks(d)), !.disk = KeptBlocks(d),
                      !.ind = @ /\ d.disk > NDirect]
    /\ broken' = (broken \/ KeptBlocks(d) < Len(d.blks))
    /\ UNCHANGED <<names, torn, mixed, twice>>

Next ==
    \/ \E n \in Names : AddName(n)
    \/ \E n \in Names : RemoveEntry(n)
    \/ Evict

Spec == Init /\ [][Next]_vars
-------------------------------------------------------------------------------
TypeOK ==
    /\ \A i \in DOMAIN d.blks : \A j \in DOMAIN d.blks[i] :
          d.blks[i][j].len \in 1 .. BlockLen /\ d.blks[i][j].name \in Names \cup Dots \cup {Hole}
    /\ d.disk \in 1 .. Len(d.blks) /\ d.level \in {0, 1} /\ d.free \in 0 .. DiskBlocks
    /\ Len(d.blks) <= NDirect + PerIndirect
    /\ Len(d.root.ents) <= RootMax /\ Len(d.node.ents) <= d.node.limit
    /\ names \subseteq Names

\* The records of a block tile it: their lengths add up to the block's, and each
\* has room for its name, through insertions into linear blocks, merges,
\* repackings and insertions into leaves - up to the first one that runs into
\* another record, which happens in leaves with names of different lengths (torn).
RecordsTile ==
    ~torn => \A i \in DOMAIN d.blks :
        LET recs == d.blks[i]
        IN  /\ Offset(recs, Len(recs) + 1) = BlockLen
            /\ \A j \in DOMAIN recs : UsedLen(recs[j]) <= recs[j].len

\* As long as no name is added that is there, which mkdir does not check, and no
\* record is torn, the directory lists every name that was added and not removed,
\* once, and nothing else: no upgrade, split or second level of the index loses a
\* name.  A split on a full disk may lose names or keep that of the failed
\* addition (broken), but no step of the code's own lists a name twice.
ListingExact ==
    ~torn /\ ~twice =>
        /\ \A b, c \in DOMAIN d.blks : \A i \in DOMAIN d.blks[b], j \in DOMAIN d.blks[c] :
              d.blks[b][i].name \in Names /\ d.blks[b][i].name = d.blks[c][j].name
                => b = c /\ i = j
        /\ ~broken => Listing(d) = names

\* In an index of one level a name is in the leaf its hash leads to, unless it
\* shares its hash with another name, so a lookup need not scan the directory:
\* however the leaves were split, and names removed and added again.  An index
\* over several blocks (mixed) orders them by their largest hash although the
\* hashes of one may lie between those of another.
HashFindsName ==
    d.indexed /\ d.level = 0 /\ ~torn /\ ~broken /\ ~mixed =>
        \A n \in names :
            \/ \E m \in Names \ {n} : Hash[m] = Hash[n]
            \/ n \in NamesIn(d.blks[PickLeaf(d, Hash[n]) + 1])

\* The index lists every leaf of the directory: count and limit, which share
\* their place with the hash of entry 1, are never overwritten by an entry.
IndexListsLeaves ==
    d.indexed /\ ~torn /\ ~twice /\ ~broken =>
        LET index == {0} \cup (IF d.level = 1 THEN {d.root.ents[1].lblk} ELSE {})
        IN  (0 .. Len(d.blks) - 1) \ index = {e.lblk : e \in ToSet(Target(d).ents)}
==============================================================================
