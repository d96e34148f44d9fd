------------------------------ MODULE NameTree ------------------------------
(***************************************************************************)
(* What the name space promises: a tree of names that changes by one name   *)
(* at a time.  A call of create, mkdir, unlink or rmdir takes effect at one *)
(* instant or not at all, whatever it writes before and after and wherever  *)
(* the power goes; a directory is removed only when it is empty.  Nothing   *)
(* is promised any more once the tree has gone astray.                      *)
(***************************************************************************)
EXTENDS Integers

CONSTANTS Inos, RootIno, Names

VARIABLES
    tree,       \* the entries: directory, name, inode and its kind
    astray      \* an entry has been made or removed that should not be

Leaf == [dir : Inos, name : Names, ino : Inos, kind : {"file", "dir"}]

IsDir(i) == i = RootIno \/ \E e \in tree : e.ino = i /\ e.kind = "dir"

Init == tree = {} /\ astray = FALSE

\* A fresh inode gets a name that its directory does not have yet.
Link(e) ==
    /\ IsDir(e.dir)
    /\ e.ino # RootIno
    /\ \A f \in tree : f.ino # e.ino /\ <<f.dir, f.name>> # <<e.dir, e.name>>
    /\ tree' = tree \cup {e}

Unlink(e) ==
    /\ \A f \in tree : f.dir # e.ino
    /\ tree' = tree \ {e}

Next ==
    \/ astray' = TRUE
    \/ /\ astray = FALSE /\ astray' = FALSE
       /\ \/ \E e \in Leaf : Link(e)
          \/ \E e \in tree : Unlink(e)

Spec == Init /\ [][Next]_<<tree, astray>>
===============================================================================
