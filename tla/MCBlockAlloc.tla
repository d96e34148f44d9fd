---------------------------- MODULE MCBlockAlloc ----------------------------
(* Small instances of BlockAlloc: a full group, a short one and, with three *)
(* groups, a last group of one block, which the scan must skip; the first   *)
(* block of each is metadata; a sector boundary lies inside a bitmap.       *)
EXTENDS BlockAlloc

CONSTANTS Size0, Size1      \* blocks of the first two groups

MCGroupBlocks == [g \in Groups |-> IF g = 0 THEN Size0 ELSE IF g = 1 THEN Size1 ELSE 1]
MCReserved == [g \in Groups |-> {0}]
MCSectorCuts == {0, 2, Size0}
=============================================================================
