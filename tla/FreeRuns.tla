------------------------------ MODULE FreeRuns ------------------------------
(***************************************************************************)
(* The search for free blocks in one bitmap (fs/ext4/balloc.c): runs of     *)
(* clear bits, next fit.  A bitmap is the set of its set bits.              *)
(***************************************************************************)
EXTENDS Integers

FreeRun(buf, lo, hi, s, n) ==
    s >= lo /\ s + n <= hi /\ \A b \in s .. s + n - 1 : b \notin buf

\* ext4_bmap_scan_free_run over [lo, hi): the first run that reaches the goal,
\* else the first of the longest runs; at most one <<start_bit, alloc_len>>.
ScanFreeRun(buf, lo, hi, goal, must_full) ==
    {r \in (lo .. hi) \X (1 .. goal) :
        /\ FreeRun(buf, lo, hi, r[1], r[2])
        /\ must_full => r[2] = goal
        /\ \A q \in (lo .. hi) \X (1 .. goal) :
              FreeRun(buf, lo, hi, q[1], q[2]) =>
                 q[2] < r[2] \/ (q[2] = r[2] /\ r[1] <= q[1])}

\* From the cursor to the end of the group, then from bit 1 to the cursor.
\* Bit 0 is never scanned.
NextFit(buf, start, size, goal, must_full) ==
    LET hi == ScanFreeRun(buf, start, size, goal, must_full)
    IN  IF hi = {} /\ start > 1
        THEN ScanFreeRun(buf, 1, start, goal, must_full)
        ELSE hi
=============================================================================
