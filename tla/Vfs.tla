--------------------------------- MODULE Vfs ---------------------------------
(***************************************************************************)
(* The VFS layer of MiniExt4: the dentry cache (fs/dcache.c), path walking  *)
(* (fs/namei.c), the descriptor table (fs/open.c), the working directory    *)
(* and the path calls (fs/dir.c), the pool of in-memory inodes (fs/inode.c) *)
(* and what ext4's inode operations do to all of these (fs/ext4/inode.c).   *)
(*                                                                          *)
(* A system call runs with interrupts off, so a call is one step; inside it *)
(* the references are taken and dropped one by one, in the code's order.    *)
(* The disk is reduced to the entries of each directory and the kind of     *)
(* each inode.                                                              *)
(***************************************************************************)
EXTENDS Integers, FiniteSets, SequencesExt

CONSTANTS
    NDentries,      \* DCACHE_MAX_DENTRIES
    NInodes,        \* VFS_MAX_INODES
    NFds,           \* MAX_FD
    Names,          \* file names
    NewInos,        \* inode numbers besides the root's
    OpenPaths,      \* paths opened without O_CREAT
    CreatePaths,    \* paths opened with O_CREAT
    MkdirPaths,     \* paths given to mkdir
    OtherPaths,     \* paths given to chdir, unlink, rmdir and stat
    FsFails,        \* an operation of ext4 may fail (no space, disk error)
    MaxRefs         \* bound on d_count, which calls that leak would exceed

Null == 0
RootIno == 2
Dot == "."
DotDot == ".."
Inos == {RootIno} \cup NewInos
Dentries == 1 .. NDentries
Inodes == 1 .. NInodes
Fds == 1 .. NFds
Components == Names \cup {Dot, DotDot}

\* A path: absolute or relative, and its components; "/" and "" have none.
Path == [abs : BOOLEAN, comps : Seq(Components)]

ASSUME VfsAssumption ==
    /\ NDentries \in Nat \ {0} /\ NInodes \in Nat \ {0} /\ NFds \in Nat
    /\ NewInos \subseteq Nat \ {Null, RootIno} /\ Names \cap {Dot, DotDot} = {}
    /\ (OpenPaths \cup CreatePaths \cup MkdirPaths \cup OtherPaths) \subseteq Path
    /\ FsFails \in BOOLEAN /\ MaxRefs \in Nat

VARIABLES
    mem,        \* the pools: mem.d[slot] of dentries, mem.i[slot] of inodes
    cwd,        \* vfs_cwd
    fds,        \* global_fd_table and fd_used
    disk,       \* disk.dir[ino]: a directory's entries; disk.kind[ino]
    astray      \* ghost: the last call left what the code does not survive (Lost)

vars == <<mem, cwd, fds, disk, astray>>
-------------------------------------------------------------------------------
FreeDentry == [used |-> FALSE, count |-> 0, parent |-> Null, name |-> Dot,
               inode |-> Null, listed |-> FALSE]
FreeInode == [used |-> FALSE, count |-> 0, ino |-> Null, kind |-> "free"]
FreeFd == [used |-> FALSE, dentry |-> Null, inode |-> Null]
Hole == [name |-> Dot, ino |-> Null]

Root == 1       \* sb->s_root, the first dentry allocated

TypeOK ==
    /\ mem.d \in [Dentries -> [used : BOOLEAN, count : Nat, parent : Dentries \cup {Null},
                               name : Components, inode : Inodes \cup {Null},
                               listed : BOOLEAN]]
    /\ mem.i \in [Inodes -> [used : BOOLEAN, count : Nat, ino : Inos \cup {Null},
                             kind : {"free", "dir", "file"}]]
    /\ cwd \in Dentries \cup {Null}
    /\ fds \in [Fds -> [used : BOOLEAN, dentry : Dentries \cup {Null},
                        inode : Inodes \cup {Null}]]
    /\ disk.kind \in [Inos -> {"free", "dir", "file"}]
    /\ disk.dir \in [Inos -> Seq({Hole} \cup [name : Components, ino : Inos])]
    /\ astray \in BOOLEAN

\* After mkfs and mount: the root dentry is its own parent.
Init ==
    /\ mem = [d |-> [x \in Dentries |->
                        IF x = Root THEN [FreeDentry EXCEPT !.used = TRUE, !.count = 1,
                                                            !.parent = Root, !.inode = 1]
                                    ELSE FreeDentry],
              i |-> [x \in Inodes |->
                        IF x = 1 THEN [used |-> TRUE, count |-> 2, ino |-> RootIno,
                                       kind |-> "dir"]
                                 ELSE FreeInode]]
    /\ cwd = Null
    /\ fds = [x \in Fds |-> FreeFd]
    /\ disk = [dir |-> [x \in Inos |-> << >>],
               kind |-> [x \in Inos |-> IF x = RootIno THEN "dir" ELSE "free"]]
    /\ astray = FALSE
-------------------------------------------------------------------------------
(* fs/dcache.c and fs/inode.c.  s is a value of mem.                        *)

LowestFree(pool) ==
    LET free == {x \in DOMAIN pool : ~pool[x].used}
    IN  IF free = {} THEN Null ELSE Min(free)

Dget(s, x) == [s EXCEPT !.d[x].count = @ + 1]

\* Mutant: the reference of the allocation is counted as a user's.
Iput_KeepsLast(i, n) ==
    IF n = Null THEN i
    ELSE IF i[n].count <= 1 THEN [i EXCEPT ![n] = FreeInode]
    ELSE [i EXCEPT ![n].count = @ - 1]

\* The simplified iput of dput: the inode goes when only the reference of its
\* allocation is left.
Iput(i, n) ==
    IF n = Null THEN i
    ELSE IF i[n].count <= 2 THEN [i EXCEPT ![n] = FreeInode]
    ELSE [i EXCEPT ![n].count = @ - 1]

\* At zero the dentry leaves its parent's list and its inode, its slot is free
\* and the reference to its parent is to be dropped in turn.
Released(s, x) == [d |-> [s.d EXCEPT ![x] = FreeDentry], i |-> Iput(s.i, s.d[x].inode)]
DputOne(w) ==
    LET e == w.s.d[w.d]
    IN  IF w.d = Null THEN w
        ELSE IF e.count > 1 THEN [s |-> [w.s EXCEPT !.d[w.d].count = @ - 1], d |-> Null]
        ELSE [s |-> Released(w.s, w.d),
              d |-> IF e.parent = w.d THEN Null ELSE e.parent]

\* dput calls itself for the parent; no chain of parents is longer than the pool.
Dput(s, x) ==
    LET climb[n \in 0 .. NDentries] ==
            IF n = 0 THEN [s |-> s, d |-> x] ELSE DputOne(climb[n - 1])
    IN  climb[NDentries].s

\* d_alloc: the new dentry holds a reference to its parent.
DAlloc(s, parent, name) ==
    LET x == LowestFree(s.d)
    IN  [d |-> x,
         s |-> IF x = Null THEN s
               ELSE Dget([s EXCEPT !.d[x] = [FreeDentry EXCEPT
                            !.used = TRUE, !.count = 1, !.parent = parent, !.name = name]],
                         parent)]

\* Mutant: the cache always misses.
DLookup_Miss(s, parent, name) == {}

\* d_lookup; OneObjectPerInode says there is at most one.
DLookup(s, parent, name) ==
    {x \in Dentries : /\ s.d[x].listed
                      /\ s.d[x].parent = parent
                      /\ s.d[x].name = name}

\* vfs_alloc_inode and d_instantiate: a new in-memory inode, one reference of
\* its allocation and one of the dentry, which becomes visible to d_lookup.
\* With the pool empty the dentry stays negative; what else happens then, in a
\* lookup, is not modelled (Starves).
Instantiate(s, x, ino, kind) ==
    LET n == LowestFree(s.i)
    IN  IF n = Null THEN s
        ELSE [s EXCEPT !.i[n] = [used |-> TRUE, count |-> 2, ino |-> ino, kind |-> kind],
                       !.d[x].inode = n, !.d[x].listed = TRUE]

\* ext4_destroy_inode
DestroyInode(s, n) == [s EXCEPT !.i[n] = FreeInode]

\* Mutants: the removed dentry keeps its inode, or its place in the list.
Detach_KeepsInode(s, x) == [s EXCEPT !.d[x].listed = FALSE]
Detach_StaysListed(s, x) == [s EXCEPT !.d[x].inode = Null]

\* ext4_unlink and ext4_rmdir take the dentry out of the cache at once.
Detach(s, x) == [s EXCEPT !.d[x].inode = Null, !.d[x].listed = FALSE]
-------------------------------------------------------------------------------
(* The directories on the disk, scanned in the order of their slots.        *)

FindSlot(dir, name) ==
    LET hit == {k \in DOMAIN disk.dir[dir] : disk.dir[dir][k].name = name}
    IN  IF hit = {} THEN Null ELSE Min(hit)

\* ext4_add_entry: the first hole, else the end.  Nothing looks for the name.
AddEntry(dir, name, ino) ==
    LET seq == disk.dir[dir]
        holes == {k \in DOMAIN seq : seq[k] = Hole}
        e == [name |-> name, ino |-> ino]
    IN  IF holes = {} THEN Append(seq, e) ELSE [seq EXCEPT ![Min(holes)] = e]

\* ext4_remove_entry: the first entry of that name.
RemoveEntry(dir, name) == [disk.dir[dir] EXCEPT ![FindSlot(dir, name)] = Hole]

EmptyDir(dir) == \A k \in DOMAIN disk.dir[dir] : disk.dir[dir][k] = Hole

InoOf(s, x) == s.i[s.d[x].inode].ino
KindOf(s, x) == s.i[s.d[x].inode].kind
Positive(s, x) == x # Null /\ s.d[x].inode # Null
-------------------------------------------------------------------------------
(* fs/namei.c: vfs_path_lookup.  A walk is [s, d]: the memory so far and    *)
(* the dentry reached, on which it holds a reference; Null when it failed.  *)

\* ext4_lookup fills the dentry from the disk.  It leaves it negative when there
\* is no such name, and also when the directory or the inode cannot be read.
Ext4Lookup(s, dir, x, name, unread) ==
    LET k == FindSlot(dir, name)
    IN  IF unread \/ k = Null THEN s
        ELSE LET ino == disk.dir[dir][k].ino IN Instantiate(s, x, ino, disk.kind[ino])

\* Mutant: the reference on the directory is not dropped when a name in it
\* is not found.
WalkChild_MissLeaks(w, name, unread) ==
    LET hit == DLookup(w.s, w.d, name)
        new == DAlloc(w.s, w.d, name)
        x == IF hit # {} THEN CHOOSE y \in hit : TRUE ELSE new.d
        s == IF hit # {} THEN Dget(w.s, x)
             ELSE IF x = Null THEN new.s
             ELSE Ext4Lookup(new.s, InoOf(w.s, w.d), x, name, unread)
    IN  IF x = Null THEN [s |-> Dput(s, w.d), d |-> Null]
        ELSE IF ~Positive(s, x) THEN [s |-> Dput(s, x), d |-> Null]
        ELSE [s |-> Dput(s, w.d), d |-> x]

\* One component below a directory: the cache, else a new dentry that ext4
\* fills; either way the reference moves from the directory to the child.
WalkChild(w, name, unread) ==
    LET hit == DLookup(w.s, w.d, name)
        new == DAlloc(w.s, w.d, name)
        x == IF hit # {} THEN CHOOSE y \in hit : TRUE ELSE new.d
        s == IF hit # {} THEN Dget(w.s, x)
             ELSE IF x = Null THEN new.s
             ELSE Ext4Lookup(new.s, InoOf(w.s, w.d), x, name, unread)
    IN  IF x = Null THEN [s |-> Dput(s, w.d), d |-> Null]
        ELSE IF ~Positive(s, x) THEN [s |-> Dput(Dput(s, x), w.d), d |-> Null]
        ELSE [s |-> Dput(s, w.d), d |-> x]

IsDir(s, x) == Positive(s, x) /\ KindOf(s, x) = "dir"

Walk(w, name, unread) ==
    IF w.d = Null \/ name = Dot THEN w
    ELSE IF name = DotDot
    THEN LET p == w.s.d[w.d].parent
         IN  IF p = Null THEN w ELSE [s |-> Dput(Dget(w.s, p), w.d), d |-> p]
    ELSE IF ~IsDir(w.s, w.d) THEN [s |-> Dput(w.s, w.d), d |-> Null]
    ELSE WalkChild(w, name, unread)

\* The component at which the disk cannot be read is miss; 0 if it always can.
PathLookup(s, start, comps, miss) ==
    LET at[n \in 0 .. Len(comps)] ==
            IF n = 0 THEN [s |-> Dget(s, start), d |-> start]
                     ELSE Walk(at[n - 1], comps[n], n = miss)
    IN  IF Positive(s, start) THEN at[Len(comps)] ELSE [s |-> s, d |-> Null]

Misses(comps) == IF FsFails THEN 0 .. Len(comps) ELSE {0}

\* A lookup that finds the name and no free in-memory inode: ext4_iget writes
\* through the null pointer it got.
Starves(w, name) ==
    /\ w.d # Null /\ name \in Names /\ IsDir(w.s, w.d)
    /\ DLookup(w.s, w.d, name) = {} /\ DAlloc(w.s, w.d, name).d # Null
    /\ FindSlot(InoOf(w.s, w.d), name) # Null /\ LowestFree(w.s.i) = Null

Starved(s, start, comps, miss) ==
    \E n \in DOMAIN comps :
        n # miss /\ Starves(PathLookup(s, start, SubSeq(comps, 1, n - 1), miss), comps[n])
-------------------------------------------------------------------------------
(* fs/open.c and fs/dir.c                                                   *)

\* vfs_get_cwd_dentry: the first call of all takes a reference on the root.
Cwd == IF cwd = Null THEN Root ELSE cwd
Mem == IF cwd = Null THEN Dget(mem, Root) ELSE mem

StartOf(p) == IF p.abs THEN Root ELSE Cwd
Resolve(p, miss) == PathLookup(Mem, StartOf(p), p.comps, miss)
ResolveStarves(p, miss) == Starved(Mem, StartOf(p), p.comps, miss)

FreeInos == {ino \in NewInos : disk.kind[ino] = "free"}

\* Inode numbers the file system may hand out; Null when it fails.
Allocatable == FreeInos \cup (IF FsFails \/ FreeInos = {} THEN {Null} ELSE {})

\* How the writes of a creation end: all done, or the inode is not written, which
\* nobody looks at, or the entry is, although the write of it is denied.
WriteEnds == {"done"} \cup (IF FsFails THEN {"unwritten", "denied"} ELSE {})

\* Mutant: inode number 0 is not taken for a failure.
Made_Unchecked(s, ino) == LowestFree(s.i) # Null

\* ext4_create and ext4_mkdir for dentry x in directory dir.  On failure the
\* inode is given back and x stays negative.
Made(s, ino) == ino # Null /\ LowestFree(s.i) # Null
MakeDisk(s, dir, name, ino, kind) ==
    IF Made(s, ino)
    THEN [dir |-> [disk.dir EXCEPT ![dir] = AddEntry(dir, name, ino), ![ino] = << >>],
          kind |-> [disk.kind EXCEPT ![ino] = kind]]
    ELSE disk
MakeMem(s, x, ino, kind) == IF Made(s, ino) THEN Instantiate(s, x, ino, kind) ELSE s

\* The directory has the name already; every directory has the dots.
HasName(dir, name) == name \in {Dot, DotDot} \/ FindSlot(dir, name) # Null

\* The disk after a creation below w.d.  The directories do not survive an entry
\* whose inode is free, nor a second one of a name: neither ext4_add_entry nor its
\* callers look for it.
Make(s, w, name, ino, kind, end, starved) ==
    LET dir == InoOf(w.s, w.d)
        botched == Made(s, ino) /\ (end # "done" \/ HasName(dir, name))
    IN  /\ disk' = MakeDisk(s, dir, name, ino, IF end = "done" THEN kind ELSE "free")
        /\ astray' = (starved \/ botched)

NextFd == LowestFree(fds)

\* The end of vfs_open: the descriptor takes over the reference on x.
OpenFd(s, x) ==
    /\ mem' = s
    /\ fds' = [fds EXCEPT ![NextFd] = [used |-> TRUE, dentry |-> x, inode |-> s.d[x].inode]]
NoFd(s) == mem' = s /\ UNCHANGED fds

\* "/" and "" name the root and the working directory themselves: no lookup
\* takes a reference for the descriptor.
OpenTarget(p, miss) ==
    IF p.comps = << >> THEN [s |-> Mem, d |-> StartOf(p)] ELSE Resolve(p, miss)

Open(p) ==
    /\ NextFd # Null
    /\ \E miss \in Misses(p.comps) :
          /\ \E t \in {OpenTarget(p, miss)} :
                IF Positive(t.s, t.d) THEN OpenFd(t.s, t.d) ELSE NoFd(t.s)
          /\ astray' = ResolveStarves(p, miss)
    /\ cwd' = Cwd
    /\ UNCHANGED disk

\* O_CREAT: a target that is not found is created in the directory that the
\* path without its last component leads to.  The reference that lookup
\* returns with is never dropped.
CreateParent(s, p, miss) ==
    IF Len(p.comps) = 1 THEN [s |-> s, d |-> StartOf(p)]
    ELSE PathLookup(s, StartOf(p), Front(p.comps), miss)
ParentStarves(s, p, miss) ==
    Len(p.comps) > 1 /\ Starved(s, StartOf(p), Front(p.comps), miss)

CreateIn(w, name, starved) ==
    LET x == DAlloc(w.s, w.d, name)
    IN  IF ~IsDir(w.s, w.d) \/ x.d = Null
        THEN NoFd(w.s) /\ astray' = starved /\ UNCHANGED disk
        ELSE \E ino \in Allocatable, end \in WriteEnds :
                /\ Make(x.s, w, name, ino, "file", end, starved)
                /\ IF Made(x.s, ino) /\ end # "denied"
                   THEN OpenFd(MakeMem(x.s, x.d, ino, "file"), x.d)
                   ELSE NoFd(Dput(x.s, x.d))

OpenCreate(p) ==
    /\ NextFd # Null
    /\ \E miss \in Misses(p.comps), again \in Misses(Front(p.comps)) :
          \E t \in {OpenTarget(p, miss)} :
             IF Positive(t.s, t.d) THEN OpenFd(t.s, t.d) /\ UNCHANGED <<disk, astray>>
             ELSE \E w \in {CreateParent(t.s, p, again)} :
                     CreateIn(w, Last(p.comps),
                              ResolveStarves(p, miss) \/ ParentStarves(t.s, p, again))
    /\ cwd' = Cwd

Close(f) ==
    /\ fds[f].used
    /\ mem' = Dput(mem, fds[f].dentry)
    /\ fds' = [fds EXCEPT ![f] = FreeFd]
    /\ UNCHANGED <<cwd, disk, astray>>

\* vfs_mkdir never looks the name up.  With no dentry left it returns without
\* dropping the reference on a parent it looked up.
Mkdir(p) ==
    /\ Len(p.comps) > 0
    /\ \E miss \in Misses(Front(p.comps)) : \E w \in {CreateParent(Mem, p, miss)} :
          LET name == Last(p.comps)
              x == DAlloc(w.s, w.d, name)
              Parent(s) == IF Len(p.comps) > 1 THEN Dput(s, w.d) ELSE s
              starved == ParentStarves(Mem, p, miss)
          IN  IF IsDir(w.s, w.d) /\ x.d # Null
              THEN \E ino \in Allocatable, end \in WriteEnds :
                      /\ Make(x.s, w, name, ino, "dir", end, starved)
                      /\ mem' = Parent(Dput(IF end = "denied" THEN x.s
                                            ELSE MakeMem(x.s, x.d, ino, "dir"), x.d))
              ELSE /\ mem' = IF Positive(w.s, w.d) /\ ~IsDir(w.s, w.d) THEN Parent(w.s) ELSE w.s
                   /\ astray' = starved
                   /\ UNCHANGED disk
    /\ cwd' = Cwd
    /\ UNCHANGED fds

\* Mutant: the reference of the lookup is dropped and none is taken.
ChdirTo_NotHeld(s, x) ==
    IF x = Cwd THEN IF x # Root THEN Dput(s, x) ELSE s
    ELSE LET s1 == Dput(s, Cwd) IN IF x # Root THEN Dput(s1, x) ELSE s1

\* The new directory is held, the old one dropped, and the reference of the
\* lookup dropped unless the target is the root, whichever way it was reached.
ChdirTo(s, x) ==
    IF x = Cwd THEN IF x # Root THEN Dput(s, x) ELSE s
    ELSE LET s1 == Dput(Dget(s, x), Cwd) IN IF x # Root THEN Dput(s1, x) ELSE s1

Chdir(p) ==
    /\ p.abs \/ p.comps # << >>
    /\ \E miss \in Misses(p.comps) :
          /\ \E t \in {IF p.abs /\ p.comps = << >> THEN [s |-> Mem, d |-> Root]
                                                    ELSE Resolve(p, miss)} :
                IF IsDir(t.s, t.d)
                THEN mem' = ChdirTo(t.s, t.d) /\ cwd' = t.d
                ELSE /\ mem' = IF t.d = Null THEN t.s ELSE Dput(t.s, t.d)
                     /\ cwd' = Cwd
          /\ astray' = ResolveStarves(p, miss)
    /\ UNCHANGED <<fds, disk>>

\* The common part of unlink and rmdir: the entry goes, the dentry leaves the
\* cache, the inode is freed on the disk and in memory whoever still uses it.
\* A disk error after the entry is gone leaves the in-memory inode behind.  When
\* the entry is gone although the write of it is denied, the dentry stays and
\* contradicts the disk.
Reclaim(t, lost) ==
    LET s == t.s
        dir == InoOf(s, s.d[t.d].parent)
        name == s.d[t.d].name
        ino == InoOf(s, t.d)
        gone == Detach(s, t.d)
        Disk(kind) == [dir |-> [disk.dir EXCEPT ![dir] = RemoveEntry(dir, name)],
                       kind |-> [disk.kind EXCEPT ![ino] = kind]]
    IN  \/ /\ FindSlot(dir, name) # Null
           /\ disk' = Disk("free")
           /\ mem' = Dput(DestroyInode(gone, s.d[t.d].inode), t.d)
           /\ astray' = lost
        \/ /\ FsFails /\ FindSlot(dir, name) # Null
           /\ disk' \in {Disk("free"), Disk(disk.kind[ino])}
           /\ mem' = Dput(gone, t.d)
           /\ astray' = lost
        \/ /\ FsFails \/ FindSlot(dir, name) = Null
           /\ mem' = Dput(s, t.d) /\ astray' = FALSE /\ UNCHANGED disk
        \/ /\ FsFails /\ FindSlot(dir, name) # Null
           /\ disk' = Disk(disk.kind[ino])
           /\ mem' = Dput(s, t.d)
           /\ astray' = TRUE

\* A path call ends without having changed anything.
Missed(s, starved) == mem' = s /\ astray' = starved /\ UNCHANGED disk
LetGo(t, starved) == Missed(IF t.d = Null THEN t.s ELSE Dput(t.s, t.d), starved)

Unlink(p) ==
    /\ p.abs \/ p.comps # << >>
    /\ \E miss \in Misses(p.comps) : \E t \in {Resolve(p, miss)} :
          IF ~Positive(t.s, t.d) THEN Missed(t.s, ResolveStarves(p, miss))
          ELSE IF IsDir(t.s, t.d) THEN LetGo(t, FALSE)
          ELSE Reclaim(t, FALSE)
    /\ cwd' = Cwd
    /\ UNCHANGED fds

\* Mutant: the working directory may be removed.
RmdirBusy_RootOnly(x) == x = Root

RmdirBusy(x) == x \in {Root, Cwd}

\* A scan of the directory that fails counts no names, and rmdir goes on.
Rmdir(p) ==
    /\ p.abs \/ p.comps # << >>
    /\ \E miss \in Misses(p.comps) : \E t \in {Resolve(p, miss)} :
          IF ~IsDir(t.s, t.d) \/ RmdirBusy(t.d) THEN LetGo(t, ResolveStarves(p, miss))
          ELSE \/ EmptyDir(InoOf(t.s, t.d)) /\ Reclaim(t, FALSE)
               \/ ~EmptyDir(InoOf(t.s, t.d)) /\ LetGo(t, FALSE)
               \/ ~EmptyDir(InoOf(t.s, t.d)) /\ FsFails /\ Reclaim(t, TRUE)
    /\ cwd' = Cwd
    /\ UNCHANGED fds

Stat(p) ==
    /\ \E miss \in Misses(p.comps) : LetGo(Resolve(p, miss), ResolveStarves(p, miss))
    /\ cwd' = Cwd
    /\ UNCHANGED fds

Bounded == \A x \in Dentries : mem'.d[x].count <= MaxRefs

Call ==
    \/ \E p \in OpenPaths : Open(p) /\ Bounded
    \/ \E p \in CreatePaths : OpenCreate(p) /\ Bounded
    \/ \E p \in MkdirPaths : Mkdir(p) /\ Bounded
    \/ \E p \in OtherPaths : Chdir(p) /\ Bounded
    \/ \E p \in OtherPaths : Unlink(p)
    \/ \E p \in OtherPaths : Rmdir(p)
    \/ \E p \in OtherPaths : Stat(p)
    \/ \E f \in Fds : Close(f)

\* What follows a call that left the cache or the directories in a state the code
\* does not survive is not modelled.
Lost == astray /\ UNCHANGED vars

Next == (~astray /\ Call) \/ Lost

Spec == Init /\ [][Next]_vars
-------------------------------------------------------------------------------
\* The holders of a dentry: the mount (of the root), the working directory,
\* open descriptors and child dentries.
Holders(x) ==
    (IF x = Root THEN 1 ELSE 0) + (IF x = cwd THEN 1 ELSE 0)
    + Cardinality({f \in Fds : fds[f].used /\ fds[f].dentry = x})
    + Cardinality({y \in Dentries \ {Root} : mem.d[y].used /\ mem.d[y].parent = x})

\* A dentry that somebody holds is never freed: d_parent, f_path_dentry, vfs_cwd
\* and s_root never point to a free slot of the pool, whatever calls were made.
HeldDentriesLive == \A x \in Dentries : Holders(x) > 0 => mem.d[x].used

\* A child dentry's reference keeps d_parent alive (d_alloc).
ParentsLive ==
    \A x \in Dentries : mem.d[x].used => mem.d[mem.d[x].parent].used

\* Every call balances the references it takes: between calls d_count is the
\* number of holders, so a dentry nobody holds is back in the pool.
RefsExact == \A x \in Dentries : mem.d[x].count = Holders(x)

\* The cache never answers for the disk with something else than the disk, unless
\* a call went astray: a dentry d_lookup can return stands for an entry of its
\* directory, with the inode and the kind that the disk has for it.
DcacheCoherent ==
    ~astray => \A x \in Dentries : mem.d[x].listed =>
        LET dir == InoOf(mem, mem.d[x].parent)
        IN  /\ Positive(mem, x) /\ Positive(mem, mem.d[x].parent)
            /\ [name |-> mem.d[x].name, ino |-> InoOf(mem, x)] \in ToSet(disk.dir[dir])
            /\ disk.kind[InoOf(mem, x)] = KindOf(mem, x)

\* An inode has one in-memory object at most: no two dentries hold copies of
\* one inode's size and block map that would overwrite each other, and no two
\* cached dentries have the same name in the same directory; unless a call went
\* astray.
OneObjectPerInode ==
    ~astray => \A x, y \in Dentries :
        x # y /\ Positive(mem, x) /\ Positive(mem, y) =>
            /\ mem.d[x].inode # mem.d[y].inode
            /\ InoOf(mem, x) # InoOf(mem, y)
            /\ mem.d[x].parent # mem.d[y].parent \/ mem.d[x].name # mem.d[y].name

\* The inode pool loses no slot: an in-memory inode is in use exactly when some
\* dentry in use refers to it.
InodeSlotsExact ==
    \A n \in Inodes :
        mem.i[n].used <=> \E x \in Dentries : mem.d[x].used /\ mem.d[x].inode = n

\* Until the file is removed, an open descriptor's f_inode is the live inode of
\* its dentry: nobody else's dput or lookup takes it away or replaces it.
FdInodeLive ==
    \A f \in Fds : fds[f].used /\ Positive(mem, fds[f].dentry) =>
        /\ fds[f].inode = mem.d[fds[f].dentry].inode
        /\ mem.i[fds[f].inode].used

\* The working directory stays usable, unless a call went astray: it and every
\* directory above it are live directories of the disk (up is the set of them,
\* closed under d_parent).
CwdUsable ==
    cwd # Null /\ ~astray =>
        \E up \in SUBSET Dentries :
            /\ cwd \in up
            /\ \A x \in up : /\ mem.d[x].parent \in up
                             /\ IsDir(mem, x) /\ disk.kind[InoOf(mem, x)] = "dir"
===============================================================================
