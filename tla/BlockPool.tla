------------------------------ MODULE BlockPool ------------------------------
(***************************************************************************)
(* What the block allocator promises its callers: a pool of blocks, each    *)
(* <<group, bit>>, and how many holders each of them has.  A call hands out *)
(* a run of neighbouring blocks of one group that nobody holds, or nothing; *)
(* a block that is given back is free at once.  The blocks of the metadata  *)
(* never change hands.                                                      *)
(***************************************************************************)
EXTENDS Integers

CONSTANTS Blocks, Metadata

VARIABLE holders    \* of each block

Init == holders = [blk \in Blocks |-> IF blk \in Metadata THEN 1 ELSE 0]

\* The blocks from first to last, of one group.
Alloc(first, last) ==
    LET run == {first[1]} \X (first[2] .. last[2])
    IN  /\ first[1] = last[1] /\ first[2] <= last[2]
        /\ run \subseteq Blocks
        /\ \A blk \in run : holders[blk] = 0
        /\ holders' = [blk \in Blocks |-> IF blk \in run THEN 1 ELSE holders[blk]]

Free(blk) ==
    /\ blk \notin Metadata
    /\ holders[blk] = 1
    /\ holders' = [holders EXCEPT ![blk] = 0]

Next ==
    \/ \E first, last \in Blocks : Alloc(first, last)
    \/ \E blk \in Blocks : Free(blk)

Spec == Init /\ [][Next]_holders
===============================================================================
