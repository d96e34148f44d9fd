-------------------------- MODULE BlockAllocProofs --------------------------
(***************************************************************************)
(* Proofs about BlockAlloc for every geometry, every set of goals and every *)
(* number of failures: its types, that no block gets two holders, and that *)
(* it implements BlockPool, if a failing read spoils no valid buffer; and   *)
(* that its books balance until an access fails.                           *)
(***************************************************************************)
EXTENDS BlockAlloc, SumProofs, FiniteSetTheorems, TLAPS

\* What it is to be a block of a group: Blocks holds the pairs of a group and
\* a bit inside it, and nothing else.
LEMMA BlocksArePairs ==
    /\ \A g, b : <<g, b>> \in Blocks <=> g \in Groups /\ b \in Bits(g)
    /\ \A blk \in Blocks : blk = <<blk[1], blk[2]>> /\ blk[1] \in Groups /\ blk[2] \in Bits(blk[1])
  BY DEF Blocks

\* The group of a scan is a group: start_group + groups_scanned wraps once.
LEMMA CurGroupIsGroup ==
  ASSUME op.start \in Groups, op.scanned \in Nat, op.scanned < GroupsCount
  PROVE  CurGroup \in Groups
  BY GeometryAssumption DEF CurGroup, Groups

\* A torn transfer keeps every bit that is set both in the old and in the new
\* content: a failing bitmap write cannot lose a bit both sides have.
LEMMA TornKeeps ==
  ASSUME NEW old \in SUBSET Nat, NEW new \in SUBSET Nat, NEW t \in Torn(old, new)
  PROVE  t \in SUBSET Nat /\ old \cap new \subseteq t
<1>1. PICK k \in SectorCuts : t = {b \in new : b < k} \cup {b \in old : b >= k}
  BY DEF Torn
<1>2. k \in Nat
  BY TuningAssumption
<1>3. \A b \in t : b \in Nat
  BY <1>1
<1>4. \A b \in Nat : b < k \/ b >= k
  BY <1>2
<1>5. \A b \in old \cap new : b \in t
  BY <1>1, <1>4
<1> QED BY <1>3, <1>5

-----------------------------------------------------------------------------
(* What the ways to leave a step do to the call record.                     *)

SameArgs == /\ op'.start = op.start /\ op'.bit = op.bit /\ op'.len = op.len
            /\ op'.gd = op.gd /\ op'.um = op.um /\ op'.goal = op.goal

\* The fields of the call record have their types.
LEMMA OpFields ==
  ASSUME op \in OpType
  PROVE  /\ op.pc \in PCs /\ op.goal \in Nat /\ op.start \in Groups
         /\ op.pass \in {0, 1} /\ op.scanned \in Nat /\ op.bit \in Nat
         /\ op.len \in Nat /\ op.gd \in Nat /\ op.um \in BOOLEAN
  BY DEF OpType

\* A call that returns leaves the idle record.
LEMMA ReturnEffect ==
  ASSUME NEW r, Return(r)
  PROVE  op' \in OpType /\ op'.pc = "idle" /\ op'.scanned = 0 /\ ret' = r
<1>1. 0 \in Groups
  BY GeometryAssumption DEF Groups
<1>2. IdleOp \in OpType
  BY <1>1 DEF IdleOp, OpType, PCs
<1> QED BY <1>2 DEF Return, IdleOp

\* A step to another point of the call changes nothing else.
LEMMA GotoEffect ==
  ASSUME op \in OpType, NEW p \in PCs, Goto(p)
  PROVE  op' \in OpType /\ op'.pc = p /\ op'.scanned = op.scanned /\ SameArgs
         /\ ret' = ret
  BY DEF OpType, Goto, SameArgs

\* Going on to the next group counts it.
LEMMA ContinueEffect ==
  ASSUME op \in OpType, Continue
  PROVE  op' \in OpType /\ op'.pc = "scan" /\ op'.scanned = op.scanned + 1
         /\ ret' = ret
<1>1. op.scanned + 1 \in Nat
  BY DEF OpType
<1> QED BY <1>1 DEF OpType, Continue, PCs

\* A bitmap write, completed or torn, leaves bitmaps behind.
LEMMA BitmapTypes ==
  ASSUME bitmap \in [Groups -> SUBSET Nat], NEW g \in Groups, NEW buf \in SUBSET Nat,
         WriteBitmap(g, buf) \/ TearBitmap(g, buf)
  PROVE  bitmap' \in [Groups -> SUBSET Nat]
<1>1. CASE WriteBitmap(g, buf)
  BY <1>1 DEF WriteBitmap
<1>2. CASE TearBitmap(g, buf)
  <2>1. PICK t \in Torn(bitmap[g], buf) : bitmap' = [bitmap EXCEPT ![g] = t]
    BY <1>2 DEF TearBitmap
  <2>2. t \in SUBSET Nat
    BY TornKeeps
  <2> QED BY <2>1, <2>2
<1> QED BY <1>1, <1>2

-----------------------------------------------------------------------------
(* Types.                                                                   *)

\* What mkfs writes has the types: a group's free count is a natural number.
LEMMA InitTypes == Init => TypeOK /\ ScanInv
<1> SUFFICES ASSUME Init PROVE TypeOK /\ ScanInv
  OBVIOUS
<1>1. \A g \in Groups : GroupBlocks[g] - Cardinality(Reserved[g]) \in Nat
  <2> SUFFICES ASSUME NEW g \in Groups
               PROVE  GroupBlocks[g] - Cardinality(Reserved[g]) \in Nat
    OBVIOUS
  <2> DEFINE n == GroupBlocks[g]
  <2>1. n \in Nat \ {0} /\ Reserved[g] \subseteq 0 .. n - 1
    BY GeometryAssumption DEF Bits
  <2>2. 0 \in Int /\ n - 1 \in Int
    BY <2>1
  <2>3. IsFiniteSet(0 .. n - 1)
        /\ Cardinality(0 .. n - 1) = IF 0 > n - 1 THEN 0 ELSE n - 1 - 0 + 1
    BY <2>2, FS_Interval, Zenon
  <2>4. IsFiniteSet(Reserved[g])
        /\ Cardinality(Reserved[g]) <= Cardinality(0 .. n - 1)
    BY <2>1, <2>3, FS_Subset, Zenon
  <2>5. Cardinality(Reserved[g]) \in Nat
    BY <2>4, FS_CardinalityType
  <2> QED BY <2>1, <2>3, <2>4, <2>5
<1>2. gdfree \in [Groups -> Nat]
  BY <1>1 DEF Init
<1>3. 0 \in Groups
  BY GeometryAssumption DEF Groups
<1>4. op \in OpType /\ op.pc = "idle"
  BY <1>3 DEF Init, OpType, IdleOp, PCs
<1>5. cache \in CacheType /\ nf \in GoalType
  BY <1>3 DEF Init, CacheType, NoCache, GoalType, NoGoal
<1>6. owners \in [Blocks -> Nat]
  BY DEF Init
<1>7. bitmap \in [Groups -> SUBSET Nat]
  BY GeometryAssumption DEF Init
<1>8. pending \in Nat /\ batch \in Nat /\ synced \in BOOLEAN /\ faults \in Nat
      /\ ret \in {"none", "zero", "block", "ok", "err"}
  BY DEF Init
<1> QED
  BY <1>2, <1>4, <1>5, <1>6, <1>7, <1>8 DEF TypeOK, ScanInv

\* A mount starts from an empty cache and fresh cursors.
LEMMA MountedTypes ==
  ASSUME Mounted
  PROVE  cache' \in CacheType /\ nf' \in GoalType /\ pending' \in Nat /\ ~cache'.valid
<1>1. 0 \in Groups
  BY GeometryAssumption DEF Groups
<1> QED BY <1>1 DEF Mounted, NoCache, NoGoal, CacheType, GoalType

\* One step keeps the types and the scan inside the groups.
LEMMA StepTypes == TypeOK /\ ScanInv /\ [Next]_vars => TypeOK' /\ ScanInv'
<1> SUFFICES ASSUME TypeOK, ScanInv, [Next]_vars PROVE TypeOK' /\ ScanInv'
  OBVIOUS
<1>0. 0 \in Groups /\ GroupsCount \in Nat \ {0}
  BY GeometryAssumption DEF Groups
<1>t. op \in OpType /\ cache \in CacheType /\ nf \in GoalType
      /\ bitmap \in [Groups -> SUBSET Nat] /\ gdfree \in [Groups -> Nat]
      /\ pending \in Nat /\ faults \in Nat /\ owners \in [Blocks -> Nat]
  BY DEF TypeOK
<1>f. /\ op.pc \in PCs /\ op.goal \in Nat /\ op.start \in Groups
      /\ op.pass \in {0, 1} /\ op.scanned \in Nat /\ op.bit \in Nat
      /\ op.len \in Nat /\ op.gd \in Nat /\ op.um \in BOOLEAN
  BY <1>t, OpFields
<1>k. cache.group \in Groups /\ cache.buf \in SUBSET Nat
  BY <1>t DEF CacheType
<1>c. op.pc \in {"load", "search", "flush", "gd", "async"} => CurGroup \in Groups
  BY <1>f, CurGroupIsGroup DEF ScanInv
<1>p. "idle" \in PCs /\ "search" \in PCs /\ "gd" \in PCs /\ "async" \in PCs
      /\ "fgd" \in PCs /\ "fsync" \in PCs /\ "bsync" \in PCs
      /\ "scan" \in PCs /\ "load" \in PCs /\ "flush" \in PCs
      /\ "fbitmap" \in PCs /\ "bflush" \in PCs
  BY DEF PCs
<1>r. \A r : Return(r) => op' \in OpType /\ op'.pc = "idle" /\ ret' = r
  BY ReturnEffect
<1>g. \A p \in PCs : Goto(p) => op' \in OpType /\ op'.pc = p /\ op'.scanned = op.scanned /\ ret' = ret
  BY <1>t, GotoEffect
<1>n. Continue => op' \in OpType /\ op'.pc = "scan" /\ op'.scanned = op.scanned + 1 /\ ret' = ret
  BY <1>t, ContinueEffect
<1>o. Ok \/ Fault => faults' \in Nat
  BY <1>t DEF Ok, Fault
<1>d. cache' = [cache EXCEPT !.dirty = FALSE] => cache' \in CacheType
  BY <1>t DEF CacheType
<1>b. \A g \in Groups : \A buf \in SUBSET Nat :
        WriteBitmap(g, buf) \/ TearBitmap(g, buf) =>
            bitmap' \in [Groups -> SUBSET Nat] /\ faults' \in Nat
  <2> TAKE g \in Groups
  <2> TAKE buf \in SUBSET Nat
  <2> HAVE WriteBitmap(g, buf) \/ TearBitmap(g, buf)
  <2>1. Ok \/ Fault
    BY DEF WriteBitmap, TearBitmap
  <2> QED BY <1>t, <1>o, <2>1, BitmapTypes
<1>e. \A g \in Groups : \A n \in Nat :
        WriteGd(g, n) \/ TearGd(g, n) =>
            gdfree' \in [Groups -> Nat] /\ faults' \in Nat
  BY <1>t, <1>o DEF WriteGd, TearGd
<1>1. ASSUME NEW n \in Goals, NEW g \in 0 .. NoGroup, NewBlocks(n, g)
      PROVE  TypeOK' /\ ScanInv'
  <2>1. nf.group \in Groups
    BY <1>t DEF GoalType
  <2>2. /\ (IF n = 0 THEN 1 ELSE n) \in Nat
        /\ (IF g < GroupsCount THEN g ELSE nf.group) \in Groups
    BY <1>1, <1>0, <2>1, TuningAssumption DEF Groups, NoGroup
  <2>3. op' \in OpType /\ op'.pc = "scan" /\ op'.scanned = 0
    BY <1>1, <1>0, <1>p, <2>2 DEF NewBlocks, IdleOp, OpType
  <2> QED BY <1>1, <1>0, <2>3 DEF NewBlocks, disk, TypeOK, ScanInv
<1>2. ASSUME NEW blk \in Blocks, FreeBlock(blk)
      PROVE  TypeOK' /\ ScanInv'
  <2>1. blk[1] \in Groups /\ blk[2] \in Nat
    BY <1>2, BlocksArePairs DEF Bits
  <2>2. op' \in OpType /\ op'.pc = "fbitmap"
    BY <1>2, <1>0, <1>p, <2>1 DEF FreeBlock, IdleOp, OpType
  <2>3. owners' \in [Blocks -> Nat]
    BY <1>2, <1>t DEF FreeBlock
  <2> QED BY <1>2, <2>2, <2>3 DEF FreeBlock, disk, TypeOK, ScanInv
<1>3. ASSUME NEW um \in BOOLEAN, BallocFlush(um)
      PROVE  TypeOK' /\ ScanInv'
  <2>1. op' \in OpType /\ op'.pc = "bflush"
    BY <1>3, <1>0, <1>p DEF BallocFlush, IdleOp, OpType
  <2> QED BY <1>3, <2>1 DEF BallocFlush, disk, TypeOK, ScanInv
<1>4. ASSUME NEW b \in Batches, SetBatch(b)
      PROVE  TypeOK' /\ ScanInv'
  <2>1. batch' \in Nat
    BY <1>4, TuningAssumption DEF SetBatch
  <2> QED BY <1>4, <2>1 DEF SetBatch, disk, TypeOK, ScanInv
<1>5. CASE EndPass
  <2>1. CASE op.goal > 1 /\ op.pass = 0
    <3>1. op' = [op EXCEPT !.pass = 1, !.scanned = 0] /\ op.pc = "scan" /\ ret' = ret
      BY <1>5, <2>1 DEF EndPass, At
    <3>2. op' \in OpType /\ op'.pc = "scan" /\ op'.scanned = 0
      BY <1>t, <3>1 DEF OpType
    <3> QED BY <1>5, <1>0, <3>1, <3>2 DEF EndPass, disk, TypeOK, ScanInv
  <2>2. CASE ~(op.goal > 1 /\ op.pass = 0)
    <3>1. Return("zero")
      BY <1>5, <2>2 DEF EndPass
    <3> QED BY <1>5, <1>r, <3>1 DEF EndPass, disk, TypeOK, ScanInv
  <2> QED BY <2>1, <2>2
<1>6. CASE VisitGroup
  <2>1. CurGroup \in Groups /\ op.scanned < GroupsCount
    BY <1>6, <1>f, CurGroupIsGroup DEF VisitGroup
  <2>2. faults' \in Nat
    BY <1>6, <1>o DEF VisitGroup
  <2>3. CASE Continue
    BY <1>6, <1>n, <1>f, <1>0, <2>1, <2>2, <2>3 DEF VisitGroup, disk, TypeOK, ScanInv
  <2>4. CASE op' = [op EXCEPT !.pc = "load", !.gd = gdfree[CurGroup]] /\ UNCHANGED ret
    <3>1. gdfree[CurGroup] \in Nat
      BY <1>t, <2>1
    <3>2. op' \in OpType /\ op'.pc = "load" /\ op'.scanned = op.scanned
      BY <1>t, <1>p, <2>4, <3>1 DEF OpType
    <3> QED BY <1>6, <2>1, <2>2, <2>4, <3>2 DEF VisitGroup, disk, TypeOK, ScanInv
  <2> QED BY <1>6, <2>3, <2>4 DEF VisitGroup
<1>7. CASE CacheHit
  BY <1>7, <1>g, <1>p DEF CacheHit, At, disk, TypeOK, ScanInv
<1>8. CASE LoadFlush
  <2>1. op.pc = "load"
    BY <1>8 DEF LoadFlush, CacheMiss, At
  <2>2. bitmap' \in [Groups -> SUBSET Nat] /\ faults' \in Nat
    BY <1>8, <1>t, <1>k, <1>b, <1>o DEF LoadFlush
  <2>3. cache' \in CacheType
    BY <1>8, <1>t, <1>d DEF LoadFlush
  <2>4. Continue \/ UNCHANGED <<op, ret>>
    BY <1>8 DEF LoadFlush
  <2> QED BY <1>8, <1>n, <1>f, <1>0, <2>1, <2>2, <2>3, <2>4 DEF LoadFlush, TypeOK, ScanInv
<1>9. CASE LoadRead
  <2>1. CurGroup \in Groups /\ op.pc = "load"
    BY <1>9, <1>c DEF LoadRead, CacheMiss, At
  <2>2. cache' \in CacheType
    <3>1. bitmap[CurGroup] \in SUBSET Nat
      BY <1>t, <2>1
    <3>2. CASE cache' = [valid |-> TRUE, dirty |-> FALSE, group |-> CurGroup,
                         buf |-> bitmap[CurGroup]]
      BY <2>1, <3>1, <3>2 DEF CacheType
    <3>3. ASSUME NEW b \in Torn(cache.buf, bitmap[CurGroup]),
                 cache' = [cache EXCEPT !.buf = b]
          PROVE  cache' \in CacheType
      <4>1. b \in SUBSET Nat
        BY <1>k, <3>1, TornKeeps
      <4> QED BY <1>t, <3>3, <4>1 DEF CacheType
    <3> QED BY <1>9, <1>t, <3>2, <3>3 DEF LoadRead
  <2>3. faults' \in Nat
    BY <1>9, <1>o DEF LoadRead
  <2>4. Continue \/ Goto("search")
    BY <1>9 DEF LoadRead
  <2> QED BY <1>9, <1>n, <1>g, <1>p, <1>f, <1>0, <2>1, <2>2, <2>3, <2>4
          DEF LoadRead, disk, TypeOK, ScanInv
<1>10. CASE Search
  <2>0. op.pc = "search" /\ CurGroup \in Groups
    BY <1>10, <1>c DEF Search, At
  <2>u. UNCHANGED <<disk, nf, pending, batch, owners, synced, faults>>
    BY <1>10 DEF Search
  <2>1. CASE Continue /\ UNCHANGED cache
    BY <1>n, <1>f, <1>0, <2>0, <2>u, <2>1 DEF disk, TypeOK, ScanInv
  <2>2. ASSUME NEW r \in FindRun(CurGroup),
               cache' = [cache EXCEPT !.dirty = TRUE,
                                      !.buf = @ \cup (r[1] .. r[1] + r[2] - 1)],
               op' = [op EXCEPT !.pc = "flush", !.bit = r[1], !.len = r[2]],
               UNCHANGED ret
        PROVE  TypeOK' /\ ScanInv'
    <3>1. nf.bit[CurGroup] \in Nat /\ GroupBlocks[CurGroup] \in Nat
      BY <1>t, <2>0, GeometryAssumption DEF GoalType
    <3>2. StartBit(CurGroup) \in Nat
      BY <3>1 DEF StartBit
    <3>3. r[1] \in Nat /\ r[2] \in Nat
      BY <1>f, <2>2, <3>1, <3>2 DEF FindRun, NextFit, ScanFreeRun
    <3>4. cache.buf \cup (r[1] .. r[1] + r[2] - 1) \in SUBSET Nat
      BY <1>k, <3>3
    <3>5. cache' \in CacheType
      BY <1>t, <2>2, <3>4 DEF CacheType
    <3>6. op' \in OpType /\ op'.pc = "flush" /\ op'.scanned = op.scanned
      BY <1>t, <1>p, <2>2, <3>3 DEF OpType
    <3> QED BY <2>0, <2>u, <2>2, <3>5, <3>6 DEF disk, TypeOK, ScanInv
  <2> QED BY <1>10, <2>1, <2>2 DEF Search
<1>11. CASE FlushMarked
  <2>0. op.pc = "flush" /\ CurGroup \in Groups
    BY <1>11, <1>c DEF FlushMarked, At
  <2>1. bitmap' \in [Groups -> SUBSET Nat] /\ faults' \in Nat
    BY <1>11, <1>t, <1>k, <1>b, <1>o, <2>0 DEF FlushMarked
  <2>2. cache' \in CacheType
    BY <1>11, <1>t, <1>d DEF FlushMarked
  <2>3. Goto("gd") \/ Return("zero")
    BY <1>11 DEF FlushMarked
  <2> QED BY <1>11, <1>g, <1>r, <1>p, <2>0, <2>1, <2>2, <2>3 DEF FlushMarked, TypeOK, ScanInv
<1>12. CASE AllocGd
  <2>0. op.pc = "gd" /\ CurGroup \in Groups
    BY <1>12, <1>c DEF AllocGd, At
  <2>1. CountDown \in Nat
    BY <1>f DEF CountDown
  <2>2. NextGoal(CurGroup, op.bit + op.len) \in GoalType
    <3>1. op.bit + op.len \in Nat /\ nf.bit \in [Groups -> Nat]
          /\ (IF CurGroup + 1 < GroupsCount THEN CurGroup + 1 ELSE 0) \in Groups
      <4>1. op.bit + op.len \in Nat
        BY <1>f
      <4>2. nf.bit \in [Groups -> Nat]
        BY <1>t DEF GoalType
      <4>3. (IF CurGroup + 1 < GroupsCount THEN CurGroup + 1 ELSE 0) \in Groups
        BY <1>0, <2>0 DEF Groups
      <4> QED BY <4>1, <4>2, <4>3
    <3>2. ASSUME NEW n \in Nat
          PROVE  [nf.bit EXCEPT ![CurGroup] = n] \in [Groups -> Nat]
      BY <2>0, <3>1, <3>2
    <3> QED BY <2>0, <3>1, <3>2 DEF NextGoal, GoalType
  <2>3. gdfree' \in [Groups -> Nat] /\ faults' \in Nat
    BY <1>12, <1>e, <2>0, <2>1 DEF AllocGd
  <2>4. nf' \in GoalType /\ pending' \in Nat
    BY <1>12, <1>t, <2>2 DEF AllocGd
  <2>5. Goto("async") \/ Return("zero")
    BY <1>12 DEF AllocGd
  <2> QED BY <1>12, <1>g, <1>r, <1>p, <2>0, <2>3, <2>4, <2>5 DEF AllocGd, TypeOK, ScanInv
<1>s. BatchedSync => pending' \in Nat /\ faults' \in Nat /\ synced' \in BOOLEAN
  <2>1. synced \in BOOLEAN
    BY DEF TypeOK
  <2>2. BatchedSync => Ok \/ Fault
    BY DEF BatchedSync
  <2>3. BatchedSync => pending' = 0 \/ pending' = pending
    BY DEF BatchedSync
  <2>4. BatchedSync => synced' = TRUE \/ synced' = synced
    BY DEF BatchedSync
  <2>5. BatchedSync => pending' \in Nat /\ faults' \in Nat
    BY <1>t, <1>o, <2>2, <2>3
  <2>6. BatchedSync => synced' \in BOOLEAN
    BY <2>1, <2>4, Zenon
  <2> QED BY <2>5, <2>6
<1>13. CASE AllocReturn
  <2>1. owners' \in [Blocks -> Nat]
    BY <1>13, <1>t DEF AllocReturn
  <2> QED BY <1>13, <1>r, <1>s, <2>1 DEF AllocReturn, TypeOK, ScanInv
<1>14. CASE FreeBitmap
  <2>0. bitmap[op.start] \ {op.bit} \in SUBSET Nat
    BY <1>t, <1>f
  <2>1. bitmap' \in [Groups -> SUBSET Nat] /\ faults' \in Nat
    BY <1>14, <1>t, <1>f, <1>b, <1>o, <2>0 DEF FreeBitmap
  <2>2. Goto("fgd") \/ Return("ok") \/ Return("err")
    BY <1>14 DEF FreeBitmap
  <2> QED BY <1>14, <1>g, <1>r, <1>p, <2>1, <2>2 DEF FreeBitmap, TypeOK, ScanInv
<1>15. CASE FreeGd
  <2>1. gdfree[op.start] + 1 \in Nat
    BY <1>t, <1>f
  <2>2. gdfree' \in [Groups -> Nat] /\ faults' \in Nat
    BY <1>15, <1>e, <1>f, <2>1 DEF FreeGd
  <2>3. Goto("fsync") \/ Return("err")
    BY <1>15 DEF FreeGd
  <2>4. pending' \in Nat
    BY <1>15, <1>t DEF FreeGd
  <2> QED BY <1>15, <1>g, <1>r, <1>p, <2>2, <2>3, <2>4 DEF FreeGd, TypeOK, ScanInv
<1>16. CASE FreeReturn
  <2>1. cache' \in CacheType
    BY <1>16, <1>t DEF FreeReturn, InvalidateCache, CacheType
  <2> QED BY <1>16, <1>r, <1>s, <2>1 DEF FreeReturn, TypeOK, ScanInv
<1>m. ASSUME NEW r, FlushDone(r)
      PROVE  /\ op' \in OpType /\ op'.pc = "idle" /\ ret' = r
             /\ cache' \in CacheType /\ nf' \in GoalType /\ pending' \in Nat
  BY <1>m, <1>t, <1>r, MountedTypes DEF FlushDone
<1>17. CASE FlushCache
  <2>1. bitmap' \in [Groups -> SUBSET Nat] /\ faults' \in Nat
    BY <1>17, <1>t, <1>k, <1>b, <1>o DEF FlushCache
  <2>2. \/ FlushDone("err")
        \/ Goto("bsync") /\ UNCHANGED <<nf, pending>> /\ cache' \in CacheType
    BY <1>17, <1>t, <1>d DEF FlushCache
  <2> QED BY <1>17, <1>g, <1>m, <1>p, <1>t, <2>1, <2>2 DEF FlushCache, TypeOK, ScanInv
<1>18. CASE FlushSync
  <2>1. faults' \in Nat /\ synced' \in BOOLEAN
    BY <1>18, <1>o DEF FlushSync, TypeOK
  <2>2. /\ op' \in OpType /\ op'.pc = "idle" /\ ret' \in {"ok", "err"}
        /\ cache' \in CacheType /\ nf' \in GoalType /\ pending' \in Nat
    BY <1>18, <1>m, <1>r, <1>t, MountedTypes DEF FlushSync
  <2> QED BY <1>18, <2>1, <2>2 DEF FlushSync, TypeOK, ScanInv
<1>19. CASE PowerLoss
  <2>1. op' \in OpType /\ op'.pc = "idle"
    BY <1>19, <1>0, <1>p DEF PowerLoss, OpType, IdleOp
  <2> QED BY <1>19, <1>o, <2>1, MountedTypes DEF PowerLoss, disk, TypeOK, ScanInv
<1>20. CASE UNCHANGED vars
  BY <1>20 DEF vars, TypeOK, ScanInv
<1> QED
  BY <1>1, <1>2, <1>3, <1>4, <1>5, <1>6, <1>7, <1>8, <1>9, <1>10, <1>11, <1>12,
     <1>13, <1>14, <1>15, <1>16, <1>17, <1>18, <1>19, <1>20 DEF Next, Call, Step

\* Type correctness of the allocator, and its scan never leaves the groups.
THEOREM TypeCorrect == Spec => [](TypeOK /\ ScanInv)
  BY InitTypes, StepTypes, PTL DEF Spec

-----------------------------------------------------------------------------
(* No block gets two holders.                                               *)

HeldOnDisk == \A blk \in Blocks : owners[blk] > 0 => blk[2] \in bitmap[blk[1]]
HeldInCache == \A blk \in Blocks : owners[blk] > 0 /\ cache.valid /\ cache.group = blk[1]
                                        => blk[2] \in cache.buf
Quiet == op.pc \notin {"search", "flush", "gd", "async", "fbitmap"}

\* OwnedMarked in its two halves.
LEMMA MarkedParts == OwnedMarked <=> HeldOnDisk /\ HeldInCache
  BY DEF OwnedMarked, HeldOnDisk, HeldInCache

\* Where a step leaves the call outside the stretch that relies on the cache,
\* only the marks of the held blocks are left to show.
LEMMA QuietSafety ==
  ASSUME SafetyInv, owners' = owners, Quiet', HeldOnDisk', HeldInCache'
  PROVE  SafetyInv'
<1>1. NoDoubleAllocation'
  BY DEF SafetyInv, NoDoubleAllocation
<1>2. OwnedMarked'
  BY DEF OwnedMarked, HeldOnDisk, HeldInCache
<1>3. CacheInv' /\ RunInv' /\ FreeInv'
  BY DEF Quiet, CacheInv, RunInv, FreeInv
<1> QED BY <1>1, <1>2, <1>3 DEF SafetyInv

\* Writing a buffer that has the bits of the held blocks of its group keeps
\* every held block marked on the disk, also when the write is torn.
LEMMA WriteKeepsHeld ==
  ASSUME TypeOK, HeldOnDisk, owners' = owners, NEW g \in Groups, NEW buf \in SUBSET Nat,
         \A b : <<g, b>> \in Blocks /\ owners[<<g, b>>] > 0 => b \in buf,
         WriteBitmap(g, buf) \/ TearBitmap(g, buf)
  PROVE  HeldOnDisk'
<1>1. bitmap \in [Groups -> SUBSET Nat]
  BY DEF TypeOK
<1>2. PICK t \in SUBSET Nat : bitmap' = [bitmap EXCEPT ![g] = t] /\ bitmap[g] \cap buf \subseteq t
  <2>1. CASE WriteBitmap(g, buf)
    BY <2>1 DEF WriteBitmap
  <2>2. CASE TearBitmap(g, buf)
    <3>1. PICK t \in Torn(bitmap[g], buf) : bitmap' = [bitmap EXCEPT ![g] = t]
      BY <2>2 DEF TearBitmap
    <3>2. t \in SUBSET Nat /\ bitmap[g] \cap buf \subseteq t
      BY <1>1, TornKeeps
    <3> QED BY <3>1, <3>2
  <2> QED BY <2>1, <2>2
<1> SUFFICES ASSUME NEW blk \in Blocks, owners[blk] > 0
             PROVE  blk[2] \in bitmap'[blk[1]]
  BY DEF HeldOnDisk
<1>3. blk = <<blk[1], blk[2]>> /\ blk[1] \in Groups /\ blk[2] \in bitmap[blk[1]]
  BY BlocksArePairs DEF HeldOnDisk
<1>4. CASE blk[1] = g
  <2>1. blk[2] \in buf
    BY <1>3, <1>4
  <2> QED BY <1>1, <1>2, <1>3, <1>4, <2>1
<1>5. CASE blk[1] # g
  BY <1>1, <1>2, <1>3, <1>5
<1> QED BY <1>4, <1>5

\* The file system mkfs makes: the metadata blocks are held and marked.
LEMMA InitSafety == Init => SafetyInv
<1> SUFFICES ASSUME Init PROVE SafetyInv
  OBVIOUS
<1>1. op.pc = "idle" /\ ~cache.valid
  BY DEF Init, IdleOp, NoCache
<1>2. CacheInv /\ RunInv /\ FreeInv
  BY <1>1 DEF CacheInv, RunInv, FreeInv
<1>3. NoDoubleAllocation
  BY DEF Init, NoDoubleAllocation
<1>4. OwnedMarked
  BY <1>1 DEF Init, OwnedMarked
<1> QED BY <1>2, <1>3, <1>4 DEF SafetyInv

\* One step keeps every block at one holder at most, if failing reads leave
\* a valid cache alone.
LEMMA StepSafety ==
  ASSUME TRUE \notin TornReads, TypeOK, TypeOK', ScanInv, SafetyInv, [Next]_vars
  PROVE  SafetyInv'
<1>t. op \in OpType /\ cache \in CacheType /\ bitmap \in [Groups -> SUBSET Nat]
      /\ owners \in [Blocks -> Nat]
  BY DEF TypeOK
<1>f. /\ op.start \in Groups /\ op.scanned \in Nat /\ op.bit \in Nat /\ op.len \in Nat
      /\ op.goal \in Nat
  BY <1>t, OpFields
<1>k. cache.group \in Groups /\ cache.buf \in SUBSET Nat
  BY <1>t DEF CacheType
<1>h. HeldOnDisk /\ HeldInCache
  BY MarkedParts DEF SafetyInv
<1>c. op.pc \in {"load", "search", "flush", "gd", "async"} => CurGroup \in Groups
  BY <1>f, CurGroupIsGroup DEF ScanInv
<1>r. \A r : Return(r) => Quiet'
  BY ReturnEffect DEF Quiet
<1>n. Continue => Quiet'
  BY <1>t, ContinueEffect DEF Quiet
<1>p. "search" \in PCs /\ "gd" \in PCs /\ "async" \in PCs
      /\ "fgd" \in PCs /\ "fsync" \in PCs /\ "bsync" \in PCs
  BY DEF PCs
<1>g. /\ Goto("fgd") => Quiet'
      /\ Goto("fsync") => Quiet'
      /\ Goto("bsync") => Quiet'
  BY <1>t, <1>p, GotoEffect DEF Quiet
<1>q. ASSUME UNCHANGED <<bitmap, cache, owners>>, Quiet' PROVE SafetyInv'
  <2>1. HeldOnDisk' /\ HeldInCache'
    BY <1>h, <1>q DEF HeldOnDisk, HeldInCache
  <2> QED BY <1>q, <2>1, QuietSafety
<1>i. ASSUME UNCHANGED <<bitmap, owners>>, Quiet', ~cache'.valid PROVE SafetyInv'
  <2>1. HeldOnDisk' /\ HeldInCache'
    BY <1>h, <1>i DEF HeldOnDisk, HeldInCache
  <2> QED BY <1>i, <2>1, QuietSafety
\* The cache's buffer has the bits of the held blocks of its group.
<1>b. ASSUME cache.valid
      PROVE  \A b : <<cache.group, b>> \in Blocks /\ owners[<<cache.group, b>>] > 0
                       => b \in cache.buf
  BY <1>b, <1>h, BlocksArePairs DEF HeldInCache
\* Cleaning the cache does not matter to the marks.
<1>d. ASSUME cache' = [cache EXCEPT !.dirty = FALSE] \/ cache' = cache, owners' = owners
      PROVE  /\ HeldInCache'
             /\ cache'.valid = cache.valid /\ cache'.group = cache.group
             /\ cache'.buf = cache.buf
  <2>1. cache'.valid = cache.valid /\ cache'.group = cache.group /\ cache'.buf = cache.buf
    BY <1>d, <1>t DEF CacheType
  <2> QED BY <1>h, <1>d, <2>1 DEF HeldInCache
<1>1. ASSUME NEW n \in Goals, NEW g \in 0 .. NoGroup, NewBlocks(n, g)
      PROVE  SafetyInv'
  <2>1. Quiet'
    BY <1>1 DEF NewBlocks, IdleOp, Quiet
  <2> QED BY <1>1, <1>q, <2>1 DEF NewBlocks, disk
<1>2. ASSUME NEW blk \in Blocks, FreeBlock(blk)
      PROVE  SafetyInv'
  <2>1. op'.pc = "fbitmap" /\ op'.start = blk[1] /\ op'.bit = blk[2]
    BY <1>2 DEF FreeBlock, IdleOp
  <2>2. \A x \in Blocks : owners'[x] = IF x = blk THEN 0 ELSE owners[x]
    BY <1>2, <1>t DEF FreeBlock
  <2>3. UNCHANGED <<bitmap, cache>>
    BY <1>2 DEF FreeBlock, disk
  <2>4. NoDoubleAllocation'
    BY <2>2 DEF NoDoubleAllocation, SafetyInv
  <2>5. OwnedMarked'
    BY <2>2, <2>3 DEF OwnedMarked, SafetyInv
  <2>6. CacheInv' /\ RunInv'
    BY <2>1 DEF CacheInv, RunInv
  <2>7. FreeInv'
    BY <2>1, <2>2, BlocksArePairs DEF FreeInv
  <2> QED BY <2>4, <2>5, <2>6, <2>7 DEF SafetyInv
<1>3. ASSUME NEW um \in BOOLEAN, BallocFlush(um)
      PROVE  SafetyInv'
  <2>1. Quiet'
    BY <1>3 DEF BallocFlush, IdleOp, Quiet
  <2> QED BY <1>3, <1>q, <2>1 DEF BallocFlush, disk
<1>4. ASSUME NEW b \in Batches, SetBatch(b)
      PROVE  SafetyInv'
  <2>1. Quiet'
    BY <1>4 DEF SetBatch, At, Quiet
  <2> QED BY <1>4, <1>q, <2>1 DEF SetBatch, disk
<1>5. CASE EndPass
  <2>1. CASE Return("zero")
    BY <1>5, <1>q, <1>r, <2>1 DEF EndPass, disk
  <2>2. CASE op' = [op EXCEPT !.pass = 1, !.scanned = 0]
    <3>1. op.pc = "scan"
      BY <1>5 DEF EndPass, At
    <3>2. Quiet'
      BY <1>t, <2>2, <3>1 DEF OpType, Quiet
    <3> QED BY <1>5, <1>q, <3>2 DEF EndPass, disk
  <2> QED BY <1>5, <2>1, <2>2 DEF EndPass
<1>6. CASE VisitGroup
  <2>1. CASE op' = [op EXCEPT !.pc = "load", !.gd = gdfree[CurGroup]]
    <3>1. Quiet'
      BY <1>t, <2>1 DEF OpType, Quiet
    <3> QED BY <1>6, <1>q, <3>1 DEF VisitGroup, disk
  <2> QED BY <1>6, <1>n, <1>q, <2>1 DEF VisitGroup, disk
<1>l. ASSUME op.pc = "load", Goto("search"), owners' = owners, HeldOnDisk', HeldInCache',
             cache'.valid, cache'.group = CurGroup
      PROVE  SafetyInv'
  <2>1. op'.pc = "search" /\ op'.scanned = op.scanned /\ op'.start = op.start
    BY <1>l, <1>t, <1>p, GotoEffect DEF SameArgs
  <2>2. CurGroup' = CurGroup
    BY <2>1 DEF CurGroup
  <2>3. CacheInv' /\ RunInv' /\ FreeInv'
    BY <1>l, <2>1, <2>2 DEF CacheInv, RunInv, FreeInv
  <2>4. NoDoubleAllocation' /\ OwnedMarked'
    BY <1>l DEF SafetyInv, NoDoubleAllocation, OwnedMarked, HeldOnDisk, HeldInCache
  <2> QED BY <2>3, <2>4 DEF SafetyInv
<1>7. CASE CacheHit
  <2>1. HeldOnDisk' /\ HeldInCache'
    BY <1>7, <1>h DEF CacheHit, disk, HeldOnDisk, HeldInCache
  <2> QED BY <1>7, <1>l, <2>1 DEF CacheHit, At
<1>8. CASE LoadFlush
  <2>1. cache.valid /\ owners' = owners /\ op.pc = "load"
    BY <1>8 DEF LoadFlush, NeedsFlush, CacheMiss, At
  <2>2. Quiet'
    BY <1>8, <1>n, <2>1 DEF LoadFlush, Quiet
  <2>3. HeldOnDisk'
    <3>1. CASE UNCHANGED bitmap
      BY <1>h, <2>1, <3>1 DEF HeldOnDisk
    <3>2. CASE WriteBitmap(cache.group, cache.buf) \/ TearBitmap(cache.group, cache.buf)
      BY <1>h, <1>k, <1>b, <2>1, <3>2, WriteKeepsHeld
    <3> QED BY <1>8, <3>1, <3>2 DEF LoadFlush
  <2>4. HeldInCache'
    BY <1>8, <1>d, <2>1 DEF LoadFlush
  <2> QED BY <2>1, <2>2, <2>3, <2>4, QuietSafety
<1>9. CASE LoadRead
  <2>1. UNCHANGED <<bitmap, owners>> /\ op.pc = "load"
    BY <1>9 DEF LoadRead, disk, CacheMiss, At
  <2>2. CASE Continue /\ UNCHANGED cache
    BY <1>n, <1>q, <2>1, <2>2
  <2>3. CASE /\ cache' = [valid |-> TRUE, dirty |-> FALSE, group |-> CurGroup,
                          buf |-> bitmap[CurGroup]]
             /\ Goto("search")
    <3>1. cache'.valid /\ cache'.group = CurGroup /\ cache'.buf = bitmap[CurGroup]
      BY <2>3
    <3>2. HeldOnDisk' /\ HeldInCache'
      BY <1>h, <2>1, <3>1 DEF HeldOnDisk, HeldInCache
    <3> QED BY <1>l, <2>1, <2>3, <3>1, <3>2
  <2>4. ASSUME NEW b \in Torn(cache.buf, bitmap[CurGroup]), cache.valid \in TornReads,
               cache' = [cache EXCEPT !.buf = b], Continue
        PROVE  SafetyInv'
    <3>1. cache.valid = FALSE
      BY <1>t, <2>4 DEF CacheType
    <3>2. cache'.valid = FALSE
      BY <1>t, <2>4, <3>1 DEF CacheType
    <3> QED BY <1>i, <1>n, <2>1, <2>4, <3>2
  <2> QED BY <1>9, <2>2, <2>3, <2>4 DEF LoadRead
<1>10. CASE Search
  <2>0. op.pc = "search" /\ CurGroup \in Groups /\ UNCHANGED <<bitmap, owners>>
        /\ cache.valid /\ cache.group = CurGroup
    BY <1>10, <1>c DEF Search, At, disk, SafetyInv, CacheInv
  <2>1. CASE Continue /\ UNCHANGED cache
    BY <1>n, <1>q, <2>0, <2>1
  <2>2. ASSUME NEW r \in FindRun(CurGroup),
               cache' = [cache EXCEPT !.dirty = TRUE,
                                      !.buf = @ \cup (r[1] .. r[1] + r[2] - 1)],
               op' = [op EXCEPT !.pc = "flush", !.bit = r[1], !.len = r[2]]
        PROVE  SafetyInv'
    <3>1. \A b \in r[1] .. r[1] + r[2] - 1 : b \notin cache.buf
      BY <2>2 DEF FindRun, NextFit, ScanFreeRun, FreeRun
    <3>2. /\ op'.pc = "flush" /\ op'.bit = r[1] /\ op'.len = r[2]
          /\ op'.start = op.start /\ op'.scanned = op.scanned
      BY <1>t, <2>2 DEF OpType
    <3>3. CurGroup' = CurGroup
      BY <3>2 DEF CurGroup
    <3>4. /\ cache'.valid = cache.valid /\ cache'.group = cache.group
          /\ cache'.buf = cache.buf \cup (r[1] .. r[1] + r[2] - 1)
      BY <1>t, <2>2 DEF CacheType
    <3>5. ASSUME NEW b \in r[1] .. r[1] + r[2] - 1, <<CurGroup, b>> \in Blocks
          PROVE  owners[<<CurGroup, b>>] = 0
      <4>1. owners[<<CurGroup, b>>] \in Nat
        BY <1>t, <3>5
      <4>2. ~(owners[<<CurGroup, b>>] > 0)
        BY <1>b, <2>0, <3>1, <3>5
      <4> QED BY <4>1, <4>2
    <3>6. RunInv'
      BY <2>0, <3>2, <3>3, <3>4, <3>5 DEF RunInv
    <3>7. CacheInv' /\ FreeInv'
      BY <2>0, <3>2, <3>3, <3>4 DEF CacheInv, FreeInv
    <3>8. OwnedMarked' /\ NoDoubleAllocation'
      BY <2>0, <3>4 DEF OwnedMarked, NoDoubleAllocation, SafetyInv
    <3> QED BY <3>6, <3>7, <3>8 DEF SafetyInv
  <2> QED BY <1>10, <2>1, <2>2 DEF Search
<1>11. CASE FlushMarked
  <2>0. op.pc = "flush" /\ CurGroup \in Groups /\ owners' = owners
        /\ cache.valid /\ cache.group = CurGroup
    BY <1>11, <1>c DEF FlushMarked, At, SafetyInv, CacheInv
  <2>1. HeldOnDisk'
    <3>1. CASE UNCHANGED bitmap
      BY <1>h, <2>0, <3>1 DEF HeldOnDisk
    <3>2. CASE WriteBitmap(CurGroup, cache.buf) \/ TearBitmap(CurGroup, cache.buf)
      BY <1>h, <1>k, <1>b, <2>0, <3>2, WriteKeepsHeld
    <3> QED BY <1>11, <3>1, <3>2 DEF FlushMarked
  <2>2. /\ HeldInCache' /\ cache'.valid = cache.valid
        /\ cache'.group = cache.group /\ cache'.buf = cache.buf
    BY <1>11, <1>d, <2>0 DEF FlushMarked
  <2>3. CASE Return("zero")
    BY <1>r, <2>0, <2>1, <2>2, <2>3, QuietSafety
  <2>4. CASE WriteBitmap(CurGroup, cache.buf) /\ Goto("gd")
    <3>1. /\ op'.pc = "gd" /\ op'.scanned = op.scanned /\ op'.start = op.start
          /\ op'.bit = op.bit /\ op'.len = op.len
      BY <2>4, <1>t, <1>p, GotoEffect DEF SameArgs
    <3>2. CurGroup' = CurGroup
      BY <3>1 DEF CurGroup
    <3>3. bitmap'[CurGroup] = cache.buf
      BY <1>t, <2>0, <2>4 DEF WriteBitmap
    <3>4. RunInv'
      BY <2>0, <2>2, <3>1, <3>2, <3>3 DEF RunInv, SafetyInv
    <3>5. CacheInv' /\ FreeInv'
      BY <2>0, <2>2, <3>1, <3>2 DEF CacheInv, FreeInv
    <3>6. NoDoubleAllocation' /\ OwnedMarked'
      BY <2>0, <2>1, <2>2 DEF SafetyInv, NoDoubleAllocation, OwnedMarked, HeldOnDisk, HeldInCache
    <3> QED BY <3>4, <3>5, <3>6 DEF SafetyInv
  <2> QED BY <1>11, <2>3, <2>4 DEF FlushMarked
<1>12. CASE AllocGd
  <2>0. UNCHANGED <<bitmap, cache, owners>> /\ op.pc = "gd"
    BY <1>12 DEF AllocGd, At
  <2>1. CASE Return("zero")
    BY <1>r, <1>q, <2>0, <2>1
  <2>2. CASE Goto("async")
    <3>1. /\ op'.pc = "async" /\ op'.scanned = op.scanned /\ op'.start = op.start
          /\ op'.bit = op.bit /\ op'.len = op.len
      BY <2>2, <1>t, <1>p, GotoEffect DEF SameArgs
    <3>2. CurGroup' = CurGroup
      BY <3>1 DEF CurGroup
    <3>3. RunInv'
      BY <2>0, <3>1, <3>2 DEF RunInv, SafetyInv
    <3>4. CacheInv' /\ FreeInv'
      BY <2>0, <3>1, <3>2 DEF CacheInv, FreeInv, SafetyInv
    <3>5. NoDoubleAllocation' /\ OwnedMarked'
      BY <2>0 DEF SafetyInv, NoDoubleAllocation, OwnedMarked
    <3> QED BY <3>3, <3>4, <3>5 DEF SafetyInv
  <2> QED BY <1>12, <2>1, <2>2 DEF AllocGd
<1>13. CASE AllocReturn
  <2>0. UNCHANGED <<bitmap, cache>> /\ op.pc = "async" /\ CurGroup \in Groups /\ Quiet'
        /\ cache.group = CurGroup
    BY <1>13, <1>c, <1>r DEF AllocReturn, At, SafetyInv, CacheInv
  <2>1. \A blk \in Blocks :
          owners'[blk] = IF blk \in AllocRun THEN owners[blk] + 1 ELSE owners[blk]
    BY <1>13 DEF AllocReturn
  <2>2. ASSUME NEW blk \in Blocks, blk \in AllocRun
        PROVE  /\ owners[blk] = 0 /\ blk[1] = CurGroup
               /\ blk[2] \in cache.buf /\ blk[2] \in bitmap[CurGroup]
    <3>1. blk = <<CurGroup, blk[2]>> /\ blk[2] \in op.bit .. op.bit + op.len - 1
          /\ blk[1] = CurGroup
      BY <2>2, BlocksArePairs DEF AllocRun
    <3> QED BY <2>0, <2>2, <3>1 DEF SafetyInv, RunInv
  <2>3. NoDoubleAllocation'
    BY <2>1, <2>2 DEF SafetyInv, NoDoubleAllocation
  <2>4. OwnedMarked'
    BY <2>0, <2>1, <2>2 DEF SafetyInv, OwnedMarked
  <2>5. CacheInv' /\ RunInv' /\ FreeInv'
    BY <2>0 DEF Quiet, CacheInv, RunInv, FreeInv
  <2> QED BY <2>3, <2>4, <2>5 DEF SafetyInv
<1>14. CASE FreeBitmap
  <2> DEFINE freed == bitmap[op.start] \ {op.bit}
  <2>0. UNCHANGED <<cache, owners>> /\ op.pc = "fbitmap" /\ Quiet'
    BY <1>14, <1>r, <1>g DEF FreeBitmap, At
  <2>1. HeldInCache'
    BY <1>h, <2>0 DEF HeldInCache
  <2>2. \A b : <<op.start, b>> \in Blocks /\ owners[<<op.start, b>>] > 0 => b \in freed
    BY <1>h, <2>0 DEF SafetyInv, FreeInv, HeldOnDisk
  <2>3. freed \in SUBSET Nat
    BY <1>t, <1>f
  <2>4. HeldOnDisk'
    <3>1. CASE UNCHANGED bitmap
      BY <1>h, <2>0, <3>1 DEF HeldOnDisk
    <3>2. CASE WriteBitmap(op.start, freed) \/ TearBitmap(op.start, freed)
      BY <1>h, <1>f, <2>0, <2>2, <2>3, <3>2, WriteKeepsHeld
    <3> QED BY <1>14, <3>1, <3>2 DEF FreeBitmap
  <2> QED BY <2>0, <2>1, <2>4, QuietSafety
<1>15. CASE FreeGd
  BY <1>15, <1>q, <1>r, <1>g DEF FreeGd
<1>16. CASE FreeReturn
  <2>1. UNCHANGED <<bitmap, owners>> /\ Quiet'
    BY <1>16, <1>r DEF FreeReturn
  <2>2. cache' = cache \/ ~cache'.valid
    BY <1>16, <1>t DEF FreeReturn, InvalidateCache, CacheType
  <2> QED BY <1>q, <1>i, <2>1, <2>2
<1>m. \A r : FlushDone(r) => Quiet' /\ (cache' = cache \/ ~cache'.valid)
  BY <1>r, MountedTypes DEF FlushDone
<1>17. CASE FlushCache
  <2>1. owners' = owners /\ Quiet'
    BY <1>17, <1>g, <1>m DEF FlushCache
  <2>2. HeldInCache'
    <3>1. CASE cache' = cache \/ cache' = [cache EXCEPT !.dirty = FALSE]
      BY <1>d, <2>1, <3>1
    <3>2. CASE ~cache'.valid
      BY <3>2 DEF HeldInCache
    <3> QED BY <1>17, <1>m, <3>1, <3>2 DEF FlushCache
  <2>3. HeldOnDisk'
    <3>1. CASE UNCHANGED bitmap
      BY <1>h, <2>1, <3>1 DEF HeldOnDisk
    <3>2. CASE /\ cache.valid
               /\ WriteBitmap(cache.group, cache.buf) \/ TearBitmap(cache.group, cache.buf)
      BY <1>h, <1>k, <1>b, <2>1, <3>2, WriteKeepsHeld
    <3> QED BY <1>17, <3>1, <3>2 DEF FlushCache, NeedsFlush
  <2> QED BY <2>1, <2>2, <2>3, QuietSafety
<1>18. CASE FlushSync
  <2>1. UNCHANGED <<bitmap, owners>> /\ Quiet'
    BY <1>18, <1>r, <1>m DEF FlushSync
  <2>2. cache' = cache \/ ~cache'.valid
    BY <1>18, <1>m, MountedTypes DEF FlushSync
  <2> QED BY <1>q, <1>i, <2>1, <2>2
<1>19. CASE PowerLoss
  <2>1. Quiet'
    BY <1>19 DEF PowerLoss, IdleOp, Quiet
  <2> QED BY <1>19, <1>i, <2>1, MountedTypes DEF PowerLoss, disk
<1>20. CASE UNCHANGED vars
  BY <1>20 DEF vars, SafetyInv, NoDoubleAllocation, OwnedMarked, CacheInv, RunInv, FreeInv,
               CurGroup
<1> QED
  BY <1>1, <1>2, <1>3, <1>4, <1>5, <1>6, <1>7, <1>8, <1>9, <1>10, <1>11, <1>12,
     <1>13, <1>14, <1>15, <1>16, <1>17, <1>18, <1>19, <1>20 DEF Next, Call, Step

\* Whatever accesses fail and wherever the power goes, no block is ever handed
\* out while somebody holds it, as long as a failing read does not touch the
\* buffer of a valid cache (ext4_bmap_cache_load reads straight into it).
THEOREM NoDoubleAllocationHolds ==
  ASSUME TRUE \notin TornReads
  PROVE  Spec => []NoDoubleAllocation
<1>1. TypeOK /\ TypeOK' /\ ScanInv /\ SafetyInv /\ [Next]_vars => SafetyInv'
  BY StepSafety
<1>2. SafetyInv => NoDoubleAllocation
  BY DEF SafetyInv
<1> QED BY <1>1, <1>2, InitSafety, TypeCorrect, PTL DEF Spec

\* Under the same assumption every held block stays marked in use on the disk
\* and in the cache: a power loss at any point forgets no allocation.
THEOREM OwnedMarkedHolds ==
  ASSUME TRUE \notin TornReads
  PROVE  Spec => []OwnedMarked
<1>1. TypeOK /\ TypeOK' /\ ScanInv /\ SafetyInv /\ [Next]_vars => SafetyInv'
  BY StepSafety
<1>2. SafetyInv => OwnedMarked
  BY DEF SafetyInv
<1> QED BY <1>1, <1>2, InitSafety, TypeCorrect, PTL DEF Spec

-----------------------------------------------------------------------------
(* The allocator implements BlockPool: what its callers hold changes only   *)
(* by a run of free blocks handed out or by a block given back.             *)

\* What ext4_bmap_scan_free_run finds lies in the range it was given, is not
\* empty, is not longer than the goal, and has no bit set.
LEMMA ScanFits ==
  ASSUME NEW buf, NEW lo \in Nat, NEW hi \in Nat, NEW goal \in Nat, NEW must_full,
         NEW r \in ScanFreeRun(buf, lo, hi, goal, must_full)
  PROVE  /\ r[1] \in Nat /\ r[2] \in Nat /\ r[2] >= 1 /\ r[2] <= goal
         /\ lo <= r[1] /\ r[1] + r[2] <= hi
         /\ \A b \in r[1] .. r[1] + r[2] - 1 : b \notin buf
  BY DEF ScanFreeRun, FreeRun

\* The same of the search that wraps at the cursor: the run lies between bit 1
\* and the end of the group.
LEMMA NextFitFits ==
  ASSUME NEW buf, NEW start \in Nat, NEW size \in Nat, NEW goal \in Nat, NEW must_full,
         start >= 1, start = 1 \/ start <= size,
         NEW r \in NextFit(buf, start, size, goal, must_full)
  PROVE  /\ r[1] \in Nat /\ r[2] \in Nat /\ r[2] >= 1 /\ r[2] <= goal
         /\ 1 <= r[1] /\ r[1] + r[2] <= size
         /\ \A b \in r[1] .. r[1] + r[2] - 1 : b \notin buf
<1>1. CASE r \in ScanFreeRun(buf, start, size, goal, must_full)
  <2>1. /\ r[1] \in Nat /\ r[2] \in Nat /\ r[2] >= 1 /\ r[2] <= goal
        /\ start <= r[1] /\ r[1] + r[2] <= size
        /\ \A b \in r[1] .. r[1] + r[2] - 1 : b \notin buf
    BY <1>1, ScanFits
  <2> QED BY <2>1
<1>2. CASE start > 1 /\ r \in ScanFreeRun(buf, 1, start, goal, must_full)
  <2>1. 1 \in Nat
    OBVIOUS
  <2>2. /\ r[1] \in Nat /\ r[2] \in Nat /\ r[2] >= 1 /\ r[2] <= goal
        /\ 1 <= r[1] /\ r[1] + r[2] <= start
        /\ \A b \in r[1] .. r[1] + r[2] - 1 : b \notin buf
    BY <1>2, <2>1, ScanFits
  <2> QED BY <1>2, <2>2
<1> QED BY <1>1, <1>2 DEF NextFit

\* The cursor ext4_new_blocks_in_group starts from lies inside its group.
LEMMA StartBitInside ==
  ASSUME TypeOK, NEW g \in Groups
  PROVE  /\ StartBit(g) \in Nat /\ StartBit(g) >= 1
         /\ StartBit(g) = 1 \/ StartBit(g) <= GroupBlocks[g]
<1>1. nf.bit[g] \in Nat /\ GroupBlocks[g] \in Nat
  BY GeometryAssumption DEF TypeOK, GoalType
<1> QED BY <1>1 DEF StartBit

-----------------------------------------------------------------------------
\* From the moment its bits are marked to the moment it is handed out, the run
\* of an allocation is not empty and lies inside its group, past bit 0.
RunBounds ==
    op.pc \in {"flush", "gd", "async"} =>
        op.len >= 1 /\ op.bit >= 1 /\ op.bit + op.len <= GroupBlocks[CurGroup]

\* One step keeps the run of an allocation inside its group.
LEMMA StepBounds ==
  ASSUME TypeOK, ScanInv, RunBounds, [Next]_vars
  PROVE  RunBounds'
<1>t. op \in OpType
  BY DEF TypeOK
<1>f. /\ op.start \in Groups /\ op.scanned \in Nat /\ op.goal \in Nat
  BY <1>t, OpFields
<1>i. ASSUME op'.pc \notin {"flush", "gd", "async"} PROVE RunBounds'
  BY <1>i DEF RunBounds
<1>r. \A r : Return(r) => op'.pc = "idle"
  BY ReturnEffect
<1>n. Continue => op'.pc = "scan"
  BY <1>t, ContinueEffect
<1>p. {"search", "gd", "async", "fgd", "fsync", "bsync"} \subseteq PCs
  BY DEF PCs
<1>g. \A p \in PCs : Goto(p) => op'.pc = p /\ op'.scanned = op.scanned /\ SameArgs
  BY <1>t, GotoEffect
<1>1. ASSUME Call \/ PowerLoss PROVE RunBounds'
  <2>1. ASSUME NEW n, NEW g, NewBlocks(n, g) PROVE op'.pc = "scan"
    BY <2>1 DEF NewBlocks, IdleOp
  <2>2. ASSUME NEW blk, FreeBlock(blk) PROVE op'.pc = "fbitmap"
    BY <2>2 DEF FreeBlock, IdleOp
  <2>3. ASSUME NEW um, BallocFlush(um) PROVE op'.pc = "bflush"
    BY <2>3 DEF BallocFlush, IdleOp
  <2>4. ASSUME NEW b, SetBatch(b) PROVE op'.pc = "idle"
    BY <2>4 DEF SetBatch, At
  <2>5. PowerLoss => op'.pc = "idle"
    BY DEF PowerLoss, IdleOp
  <2>6. op'.pc \in {"scan", "fbitmap", "bflush", "idle"}
    BY <1>1, <2>1, <2>2, <2>3, <2>4, <2>5 DEF Call
  <2> QED BY <1>i, <2>6
<1>2. CASE EndPass \/ VisitGroup
  <2>1. op'.pc \in {"idle", "scan", "load"}
    <3>1. CASE Return("zero") \/ Continue
      BY <1>r, <1>n, <3>1
    <3>2. CASE op' = [op EXCEPT !.pass = 1, !.scanned = 0] /\ op.pc = "scan"
      BY <1>t, <3>2 DEF OpType
    <3>3. CASE op' = [op EXCEPT !.pc = "load", !.gd = gdfree[CurGroup]]
      BY <1>t, <3>3 DEF OpType
    <3> QED BY <1>2, <3>1, <3>2, <3>3 DEF EndPass, VisitGroup, At
  <2> QED BY <1>i, <2>1
<1>3. CASE CacheHit \/ LoadFlush \/ LoadRead
  <2>1. Goto("search") \/ Continue \/ (op' = op /\ op.pc = "load")
    BY <1>3 DEF CacheHit, LoadFlush, LoadRead, CacheMiss, At
  <2> QED BY <1>i, <1>g, <1>n, <1>p, <2>1
<1>4. CASE Search
  <2>1. CASE Continue
    BY <1>i, <1>n, <2>1
  <2>2. ASSUME NEW r \in FindRun(CurGroup),
               op' = [op EXCEPT !.pc = "flush", !.bit = r[1], !.len = r[2]]
        PROVE  RunBounds'
    <3>1. CurGroup \in Groups
      BY <1>4, <1>f, CurGroupIsGroup DEF Search, At, ScanInv
    <3>2. GroupBlocks[CurGroup] \in Nat
      BY <3>1, GeometryAssumption
    <3>3. r[2] >= 1 /\ 1 <= r[1] /\ r[1] + r[2] <= GroupBlocks[CurGroup]
      BY <1>f, <2>2, <3>1, <3>2, StartBitInside, NextFitFits DEF FindRun
    <3>4. /\ op'.bit = r[1] /\ op'.len = r[2]
          /\ op'.start = op.start /\ op'.scanned = op.scanned
      BY <1>t, <2>2 DEF OpType
    <3>5. CurGroup' = CurGroup
      BY <3>4 DEF CurGroup
    <3> QED BY <3>3, <3>4, <3>5 DEF RunBounds
  <2> QED BY <1>4, <2>1, <2>2 DEF Search
<1>5. CASE FlushMarked \/ AllocGd
  <2>1. CASE Return("zero")
    BY <1>i, <1>r, <2>1
  <2>2. CASE Goto("gd") \/ Goto("async")
    <3>1. op'.scanned = op.scanned /\ SameArgs
      BY <1>g, <1>p, <2>2
    <3>2. CurGroup' = CurGroup
      BY <3>1 DEF CurGroup, SameArgs
    <3>3. op.pc \in {"flush", "gd"}
      BY <1>5 DEF FlushMarked, AllocGd, At
    <3> QED BY <3>1, <3>2, <3>3 DEF RunBounds, SameArgs
  <2> QED BY <1>5, <2>1, <2>2 DEF FlushMarked, AllocGd
<1>6. CASE AllocReturn \/ FreeBitmap \/ FreeGd \/ FreeReturn \/ FlushCache \/ FlushSync
  <2>1. \/ \E r : Return(r)
        \/ Goto("fgd") \/ Goto("fsync") \/ Goto("bsync")
    BY <1>6 DEF AllocReturn, FreeBitmap, FreeGd, FreeReturn, FlushCache, FlushSync, FlushDone
  <2> QED BY <1>i, <1>r, <1>g, <1>p, <2>1
<1>7. CASE UNCHANGED vars
  BY <1>7 DEF vars, RunBounds, CurGroup
<1> QED
  BY <1>1, <1>2, <1>3, <1>4, <1>5, <1>6, <1>7 DEF Next, Step

-----------------------------------------------------------------------------
\* A step of the allocator is a step of the pool or leaves the holders alone.
LEMMA StepPool ==
  ASSUME TypeOK, ScanInv, SafetyInv, RunBounds, [Next]_vars
  PROVE  [Pool!Next]_owners
<1>t. op \in OpType /\ owners \in [Blocks -> Nat]
  BY DEF TypeOK
<1>f. op.start \in Groups /\ op.scanned \in Nat /\ op.bit \in Nat /\ op.len \in Nat
  BY <1>t, OpFields
\* The run is handed out when the allocation returns.
<1>1. CASE AllocReturn
  <2> DEFINE first == <<CurGroup, op.bit>>
             last == <<CurGroup, op.bit + op.len - 1>>
  <2>0. CurGroup \in Groups /\ op.pc = "async"
    BY <1>1, <1>f, CurGroupIsGroup DEF AllocReturn, At, ScanInv
  <2>1. op.len >= 1 /\ op.bit >= 1 /\ op.bit + op.len <= GroupBlocks[CurGroup]
    BY <2>0 DEF RunBounds
  <2>2. \A b \in op.bit .. op.bit + op.len - 1 : b \in Bits(CurGroup)
    BY <1>f, <2>0, <2>1, GeometryAssumption DEF Bits
  <2>3. AllocRun \subseteq Blocks
    BY <2>0, <2>2, BlocksArePairs DEF AllocRun
  <2>4. first \in Blocks /\ last \in Blocks
    BY <1>f, <2>0, <2>1, <2>2, BlocksArePairs
  <2>5. \A blk \in AllocRun : owners[blk] = 0
    BY <2>0, <2>3 DEF AllocRun, SafetyInv, RunInv
  <2>6. owners' = [blk \in Blocks |-> IF blk \in AllocRun THEN 1 ELSE owners[blk]]
    BY <1>1, <2>5 DEF AllocReturn
  <2>7. Pool!Alloc(first, last)
    BY <1>f, <2>1, <2>3, <2>5, <2>6 DEF Pool!Alloc, AllocRun
  <2> QED BY <2>4, <2>7 DEF Pool!Next
\* A block is given back when the call that frees it begins; a block without a
\* holder may be freed once more.
<1>2. ASSUME NEW blk \in Blocks, FreeBlock(blk)
      PROVE  [Pool!Next]_owners
  <2>1. owners' = [owners EXCEPT ![blk] = 0] /\ blk[2] \notin Reserved[blk[1]]
    BY <1>2 DEF FreeBlock
  <2>2. owners[blk] \in Nat /\ owners[blk] <= 1
    BY <1>t DEF SafetyInv, NoDoubleAllocation
  <2>3. CASE owners[blk] = 0
    BY <1>t, <2>1, <2>3
  <2>4. CASE owners[blk] = 1
    BY <2>1, <2>4 DEF Pool!Next, Pool!Free
  <2> QED BY <2>2, <2>3, <2>4
<1>3. ASSUME ~AllocReturn, ~(\E blk \in Blocks : FreeBlock(blk))
      PROVE  owners' = owners
  BY <1>3 DEF Next, Call, Step, vars, NewBlocks, BallocFlush, SetBatch, EndPass, VisitGroup,
              CacheHit, LoadFlush, LoadRead, Search, FlushMarked, AllocGd, FreeBitmap,
              FreeGd, FreeReturn, FlushCache, FlushSync, PowerLoss
<1> QED BY <1>1, <1>2, <1>3

\* The file system mkfs makes is a pool whose metadata is held.
LEMMA InitPool == Init => Pool!Init
  BY DEF Init, Pool!Init

\* The allocator implements the pool of blocks its callers rely on, as long as a
\* failing read does not touch the buffer of a valid cache: through the cache, the
\* cursors, the batches, failing writes and lost power, a caller only ever gets a
\* run of blocks of one group nobody holds, and loses one only by giving it back.
THEOREM PoolIsImplemented ==
  ASSUME TRUE \notin TornReads
  PROVE  Spec => PoolImplemented
<1>1. TypeOK /\ TypeOK' /\ ScanInv /\ SafetyInv /\ [Next]_vars => SafetyInv'
  BY StepSafety
<1>2. Init => RunBounds
  BY DEF Init, IdleOp, RunBounds
<1>3. TypeOK /\ ScanInv /\ RunBounds /\ [Next]_vars => RunBounds'
  BY StepBounds
<1>4. TypeOK /\ ScanInv /\ SafetyInv /\ RunBounds /\ [Next]_vars => [Pool!Next]_owners
  BY StepPool
<1>5. Spec => Pool!Init /\ [][Pool!Next]_owners
  BY <1>1, <1>2, <1>3, <1>4, InitPool, InitSafety, TypeCorrect, PTL DEF Spec
<1> QED BY <1>5 DEF PoolImplemented, Pool!Spec
-----------------------------------------------------------------------------
(***************************************************************************)
(* The books balance as long as no access fails: the cache agrees with the  *)
(* disk, no marked block is lost, the descriptors' counts are the clear     *)
(* bits, the super block's count lags by at most what is pending, and an    *)
(* allocation gives up only on a full disk.  For every geometry, every      *)
(* finite set of goals and every batch size.                                *)
(***************************************************************************)
Run == op.bit .. op.bit + op.len - 1
MustFull == op.goal > 1 /\ op.pass = 0
ScanGroup(k) == IF op.start + k >= GroupsCount THEN op.start + k - GroupsCount ELSE op.start + k
Full(g) == 1 .. GroupBlocks[g] - 1 \subseteq bitmap[g]

(***************************************************************************)
(* The inductive invariant of the histories without failures.               *)
(***************************************************************************)
\* The cache is dirty only between the marking of a run and its flush, ...
CleanInv == cache.valid /\ cache.dirty => op.pc = "flush"

\* ... holds the marked run on top of the disk's bits until then, and a group
\* that a free has changed on the disk only until the free invalidates it.
CoherentInv ==
    cache.valid =>
        /\ op.pc \notin {"flush", "fgd", "fsync"} => cache.buf = bitmap[cache.group]
        /\ op.pc = "flush" => cache.buf = bitmap[cache.group] \cup Run
        /\ op.pc \in {"fgd", "fsync"} /\ cache.group # op.start =>
              cache.buf = bitmap[cache.group]

\* The run that was found is free on the disk until it is flushed.
FreshInv == op.pc = "flush" => \A b \in Run : b \notin bitmap[CurGroup]

CacheBooks == CleanInv /\ CacheInv /\ CoherentInv /\ FreshInv

\* A marked bit lies inside its group and belongs to a holder, to the call that
\* will return it, or to the call that is about to clear it.
InUse(g, b) ==
    \/ owners[<<g, b>>] > 0
    \/ op.pc = "fbitmap" /\ g = op.start /\ b = op.bit
    \/ op.pc \in {"gd", "async"} /\ g = CurGroup /\ b \in Run

LeakInv == \A g \in Groups : \A b \in bitmap[g] : b \in Bits(g) /\ InUse(g, b)

\* What the descriptor of group g is ahead of its bitmap by, inside a call.
Owed(g) ==
    IF op.pc = "gd" /\ g = CurGroup THEN op.len
    ELSE IF op.pc = "fgd" /\ g = op.start THEN -1 ELSE 0

CountInv ==
    \A g \in Groups : gdfree[g] = GroupBlocks[g] - Cardinality(bitmap[g]) + Owed(g)

\* The descriptor an allocation read when it visited the group is not stale.
GdInv == op.pc \in {"load", "search", "flush", "gd"} => op.gd = gdfree[CurGroup]

GoalInv ==
    /\ op.goal >= 1 /\ op.goal <= MaxGoal
    /\ op.pc \in {"flush", "gd"} => op.len <= op.goal

\* The super block's count is behind by at most a goal for each pending update.
LagInv ==
    /\ sbfree \in Int
    /\ synced =>
         LET lag == sbfree - Sum(gdfree)
         IN  lag <= pending * MaxGoal /\ -lag <= pending * MaxGoal

\* A scan that takes what it finds has left only full groups behind.
ScannedInv ==
    op.pc \in {"scan", "load", "search"} /\ ~MustFull =>
        \A k \in 0 .. op.scanned - 1 : Full(ScanGroup(k))

\* Inside a call nothing has been returned; a call that found nothing left a
\* full disk behind.
FoundInv ==
    /\ op.pc # "idle" => ret = "none"
    /\ ret = "zero" => \A g \in Groups : Full(g)
-----------------------------------------------------------------------------
(* The search misses nothing.                                               *)

\* ext4_bmap_scan_free_run that may take less than the goal comes back empty
\* only from a range without a clear bit.
LEMMA ScanFinds ==
  ASSUME NEW buf, NEW lo \in Nat, NEW hi \in Nat, NEW goal \in Nat, goal >= 1,
         NEW must_full, ~must_full, ScanFreeRun(buf, lo, hi, goal, must_full) = {}
  PROVE  \A b \in lo .. hi - 1 : b \in buf
<1> SUFFICES ASSUME NEW b \in lo .. hi - 1, b \notin buf PROVE FALSE
  OBVIOUS
<1> DEFINE Lens == {n \in 1 .. goal : \E s \in lo .. hi : FreeRun(buf, lo, hi, s, n)}
<1>1. b \in lo .. hi /\ FreeRun(buf, lo, hi, b, 1)
  BY DEF FreeRun
<1>2. 1 \in Lens
  BY <1>1
<1>3. Lens \in SUBSET Nat /\ IsFiniteSet(Lens)
  <2>1. Lens \in SUBSET Nat /\ \A n \in Lens : n <= goal
    OBVIOUS
  <2> HIDE DEF Lens
  <2> QED BY <2>1, FS_BoundedSetOfNaturals
<1> DEFINE len == Max(Lens)
<1>4. len \in Lens /\ \A n \in Lens : n <= len
  <2> HIDE DEF Lens
  <2> QED BY <1>2, <1>3, GreatestNumber
<1> HIDE DEF len
<1> DEFINE Starts == {s \in lo .. hi : FreeRun(buf, lo, hi, s, len)}
<1>5. Starts \in SUBSET Nat /\ Starts # {}
  BY <1>4
<1>6. PICK s \in Starts : \A q \in Starts : s <= q
  <2> HIDE DEF Starts
  <2> QED BY <1>5, LeastNumber
<1> DEFINE r == <<s, len>>
<1>7. r \in (lo .. hi) \X (1 .. goal) /\ FreeRun(buf, lo, hi, r[1], r[2])
  BY <1>4, <1>6
<1>8. ASSUME NEW q \in (lo .. hi) \X (1 .. goal), FreeRun(buf, lo, hi, q[1], q[2])
      PROVE  q[2] < r[2] \/ (q[2] = r[2] /\ r[1] <= q[1])
  <2>1. q[1] \in lo .. hi /\ q[2] \in 1 .. goal
    OBVIOUS
  <2>2. q[2] \in Lens
    BY <1>8, <2>1
  <2>3. q[2] <= len /\ len \in Nat /\ q[2] \in Nat
    BY <1>3, <1>4, <2>1, <2>2
  <2>4. CASE q[2] = len
    <3>1. q[1] \in Starts
      BY <1>8, <2>1, <2>4
    <3> QED BY <1>6, <2>4, <3>1
  <2> QED BY <2>3, <2>4
<1>9. r \in ScanFreeRun(buf, lo, hi, goal, must_full)
  BY <1>7, <1>8 DEF ScanFreeRun
<1> QED BY <1>9

\* The search that wraps at the cursor comes back empty only from a group whose
\* bits past bit 0 are all set: the two stretches leave no bit out.
LEMMA NextFitFinds ==
  ASSUME NEW buf, NEW start \in Nat, NEW size \in Nat, NEW goal \in Nat, NEW must_full,
         start >= 1, goal >= 1, ~must_full,
         NextFit(buf, start, size, goal, must_full) = {}
  PROVE  1 .. size - 1 \subseteq buf
<1>1. ScanFreeRun(buf, start, size, goal, must_full) = {}
  BY DEF NextFit
<1>2. \A b \in start .. size - 1 : b \in buf
  BY <1>1, ScanFinds
<1>3. CASE start = 1
  BY <1>2, <1>3
<1>4. CASE start > 1
  <2>1. ScanFreeRun(buf, 1, start, goal, must_full) = {}
    BY <1>1, <1>4 DEF NextFit
  <2>2. 1 \in Nat
    OBVIOUS
  <2>3. \A b \in 1 .. start - 1 : b \in buf
    BY <2>1, <2>2, ScanFinds
  <2> QED BY <1>2, <2>3
<1> QED BY <1>3, <1>4
-----------------------------------------------------------------------------
(* What each step does when no access fails.                                *)

SameRun == /\ op'.bit = op.bit /\ op'.len = op.len /\ op'.goal = op.goal
           /\ op'.start = op.start /\ op'.scanned = op.scanned /\ op'.pass = op.pass
           /\ CurGroup' = CurGroup /\ ret' = ret
Books == <<sbfree, pending, synced>>
Held == <<bitmap, gdfree, cache, owners>>
Synced == \/ UNCHANGED Books
          \/ sbfree' = Sum(gdfree) /\ pending' = 0 /\ synced'
Back(r) == op'.pc = "idle" /\ op'.goal = 1 /\ ret' = r

\* A call begins that changes nothing yet; nothing happens; a group is read.
CleanLook ==
    /\ UNCHANGED Held /\ UNCHANGED Books
    /\ \/ /\ op.pc = "idle" /\ op'.pc \in {"scan", "bflush"} /\ op'.scanned = 0
          /\ op'.goal \in (Goals \cup {1}) \ {0} /\ ret' = "none"
       \/ op' = op /\ ret' = ret
       \/ op.pc = "bflush" /\ op'.pc = "bsync" /\ SameRun
       \/ op.pc = "fbitmap" /\ Back("ok") /\ op.bit \notin bitmap[op.start]

CleanScan ==
    /\ UNCHANGED Held /\ UNCHANGED Books
    /\ \/ /\ op.pc = "scan" /\ op'.pc = "scan" /\ op'.scanned = 0 /\ op'.goal = op.goal
          /\ ret' = ret
       \/ op.pc = "scan" /\ op.scanned = GroupsCount /\ ~MustFull /\ Back("zero")
       \/ /\ \/ op.pc = "scan" /\ op.scanned < GroupsCount /\ GroupBlocks[CurGroup] <= 1
             \/ op.pc = "search" /\ FindRun(CurGroup) = {}
          /\ op'.pc = "scan" /\ op'.scanned = op.scanned + 1 /\ op'.start = op.start
          /\ op'.goal = op.goal /\ op'.pass = op.pass /\ ret' = ret
       \/ op.pc = "scan" /\ op'.pc = "load" /\ SameRun /\ op.scanned < GroupsCount
          /\ op'.gd = gdfree[CurGroup]
       \/ op.pc = "load" /\ op'.pc = "search" /\ SameRun /\ op'.gd = op.gd
          /\ cache.valid /\ cache.group = CurGroup

CleanRead ==
    /\ op.pc = "load" /\ op'.pc = "search" /\ SameRun /\ op'.gd = op.gd
    /\ UNCHANGED <<bitmap, gdfree, owners>> /\ UNCHANGED Books
    /\ cache'.valid /\ ~cache'.dirty /\ cache'.group = CurGroup
    /\ cache'.buf = bitmap[CurGroup]

CleanMark ==
    /\ op.pc = "search" /\ op'.pc = "flush" /\ op'.gd = op.gd
    /\ op'.goal = op.goal /\ CurGroup' = CurGroup /\ ret' = ret
    /\ op'.len <= op.goal
    /\ \A b \in Run' : b \notin cache.buf
    /\ UNCHANGED <<bitmap, gdfree, owners>> /\ UNCHANGED Books
    /\ cache'.valid = cache.valid /\ cache'.group = cache.group
    /\ cache'.buf = cache.buf \cup Run'

CleanWrite ==
    /\ op.pc = "flush" /\ op'.pc = "gd" /\ SameRun /\ op'.gd = op.gd
    /\ UNCHANGED <<gdfree, owners>> /\ UNCHANGED Books
    /\ bitmap' = [bitmap EXCEPT ![CurGroup] = cache.buf]
    /\ cache'.valid = cache.valid /\ ~cache'.dirty /\ cache'.group = cache.group
    /\ cache'.buf = cache.buf

CleanCount ==
    /\ op.pc = "gd" /\ op'.pc = "async" /\ SameRun
    /\ UNCHANGED <<bitmap, cache, owners, sbfree, synced>>
    /\ gdfree' = [gdfree EXCEPT ![CurGroup] = CountDown]
    /\ pending' = pending + 1

CleanHand ==
    /\ op.pc = "async" /\ Back("block") /\ Synced
    /\ UNCHANGED <<bitmap, gdfree, cache>>
    /\ owners' = [blk \in Blocks |->
                    IF blk \in AllocRun THEN owners[blk] + 1 ELSE owners[blk]]

CleanFree ==
    \E blk \in Blocks :
        /\ op.pc = "idle" /\ op'.pc = "fbitmap" /\ op'.start = blk[1] /\ op'.bit = blk[2]
        /\ op'.goal = 1 /\ ret' = "none"
        /\ owners' = [owners EXCEPT ![blk] = 0]
        /\ UNCHANGED <<bitmap, gdfree, cache>> /\ UNCHANGED Books

CleanClear ==
    /\ op.pc = "fbitmap" /\ op'.pc = "fgd" /\ SameRun /\ op.bit \in bitmap[op.start]
    /\ bitmap' = [bitmap EXCEPT ![op.start] = @ \ {op.bit}]
    /\ UNCHANGED <<gdfree, cache, owners>> /\ UNCHANGED Books

CleanFreeCount ==
    /\ op.pc = "fgd" /\ op'.pc = "fsync" /\ SameRun
    /\ gdfree' = [gdfree EXCEPT ![op.start] = @ + 1] /\ pending' = pending + 1
    /\ UNCHANGED <<bitmap, cache, owners, sbfree, synced>>

CleanFreed ==
    /\ op.pc = "fsync" /\ Back("ok") /\ Synced
    /\ UNCHANGED <<bitmap, gdfree, owners>>
    /\ \/ cache' = cache /\ ~(cache.valid /\ cache.group = op.start)
       \/ ~cache'.valid

CleanFlushed ==
    /\ op.pc = "bsync" /\ Back("ok") /\ Synced
    /\ UNCHANGED <<bitmap, gdfree, owners>>
    /\ cache' = cache \/ ~cache'.valid

CleanStep ==
    \/ CleanLook \/ CleanScan \/ CleanRead \/ CleanMark \/ CleanWrite \/ CleanCount
    \/ CleanHand \/ CleanFree \/ CleanClear \/ CleanFreeCount \/ CleanFreed \/ CleanFlushed

\* A step after which no access has failed is one of the above: a failure is
\* counted, and a clean cache needs no flush before a read.
LEMMA StepIsClean ==
  ASSUME TypeOK, ScanInv, CleanInv, CacheInv, [Next]_vars, faults' = 0
  PROVE  CleanStep
<1>t. op \in OpType /\ cache \in CacheType /\ faults \in Nat /\ pending \in Nat
  BY DEF TypeOK
<1>f. /\ op.pc \in PCs /\ op.goal \in Nat /\ op.start \in Groups
      /\ op.pass \in {0, 1} /\ op.scanned \in Nat /\ op.bit \in Nat
      /\ op.len \in Nat /\ op.gd \in Nat /\ op.um \in BOOLEAN
  BY <1>t, OpFields
<1>z. ~Fault
  BY <1>t DEF Fault
<1>b. \A r : Return(r) => Back(r)
  BY DEF Return, IdleOp, Back
<1>g. \A p : Goto(p) => op'.pc = p /\ SameRun /\ op'.gd = op.gd
  BY <1>t DEF Goto, OpType, SameRun, CurGroup
<1>n. Continue => /\ op'.pc = "scan" /\ op'.scanned = op.scanned + 1
                  /\ op'.start = op.start
                  /\ op'.goal = op.goal /\ op'.pass = op.pass /\ ret' = ret
  BY <1>t DEF Continue, OpType
<1>s. BatchedSync => Synced
  BY <1>z DEF BatchedSync, Synced, Books
<1>m. Mounted => ~cache'.valid /\ pending' = 0
  BY DEF Mounted, NoCache
<1>1. ASSUME NEW n \in Goals, NEW g \in 0 .. NoGroup, NewBlocks(n, g) PROVE CleanLook
  <2>1. op'.goal = IF n = 0 THEN 1 ELSE n
    BY <1>1 DEF NewBlocks, IdleOp
  <2>2. op'.goal \in (Goals \cup {1}) \ {0}
    BY <2>1, TuningAssumption
  <2>3. op.pc = "idle" /\ op'.pc = "scan" /\ op'.scanned = 0 /\ ret' = "none"
    BY <1>1 DEF NewBlocks, IdleOp, At
  <2>4. UNCHANGED Held /\ UNCHANGED Books
    BY <1>1 DEF NewBlocks, Held, Books, disk
  <2> QED BY <2>2, <2>3, <2>4 DEF CleanLook
<1>2. ASSUME NEW blk \in Blocks, FreeBlock(blk) PROVE CleanFree
  BY <1>2 DEF FreeBlock, IdleOp, CleanFree, At, Books, disk
<1>3. ASSUME NEW um \in BOOLEAN, BallocFlush(um) PROVE CleanLook
  BY <1>3 DEF BallocFlush, IdleOp, CleanLook, At, Books, Held, disk
<1>4. ASSUME NEW b \in Batches, SetBatch(b) PROVE CleanLook
  BY <1>4 DEF SetBatch, CleanLook, Books, Held, disk
<1>5. ASSUME EndPass PROVE CleanScan
  <2>1. UNCHANGED Held /\ UNCHANGED Books /\ op.pc = "scan" /\ op.scanned = GroupsCount
    BY <1>5 DEF EndPass, Held, Books, disk, At
  <2>2. CASE MustFull
    <3>1. op' = [op EXCEPT !.pass = 1, !.scanned = 0] /\ ret' = ret
      BY <1>5, <2>2 DEF EndPass, MustFull
    <3>2. op'.pc = "scan" /\ op'.scanned = 0 /\ op'.goal = op.goal
      BY <1>t, <2>1, <3>1 DEF OpType
    <3> QED BY <2>1, <3>1, <3>2 DEF CleanScan
  <2>3. CASE ~MustFull
    <3>1. Back("zero")
      BY <1>5, <1>b, <2>3 DEF EndPass, MustFull
    <3> QED BY <2>1, <2>3, <3>1 DEF CleanScan
  <2> QED BY <2>2, <2>3
<1>6. ASSUME VisitGroup PROVE CleanScan
  <2>1. UNCHANGED Held /\ UNCHANGED Books /\ op.pc = "scan" /\ op.scanned < GroupsCount
    BY <1>6 DEF VisitGroup, Held, Books, disk, At
  <2>2. CASE GroupBlocks[CurGroup] <= 1 /\ Continue
    BY <1>n, <2>1, <2>2 DEF CleanScan
  <2>3. CASE op' = [op EXCEPT !.pc = "load", !.gd = gdfree[CurGroup]] /\ UNCHANGED ret
    <3>1. op'.pc = "load" /\ SameRun /\ op'.gd = gdfree[CurGroup]
      BY <1>t, <2>3 DEF OpType, SameRun, CurGroup
    <3> QED BY <2>1, <3>1 DEF CleanScan
  <2> QED BY <1>6, <1>z, <2>2, <2>3 DEF VisitGroup
<1>7. ASSUME CacheHit PROVE CleanScan
  <2>1. op'.pc = "search" /\ SameRun /\ op'.gd = op.gd
    BY <1>7, <1>g DEF CacheHit
  <2> QED BY <1>7, <2>1 DEF CacheHit, CleanScan, At, Books, Held, disk
<1>8. ~LoadFlush
  BY DEF LoadFlush, CacheMiss, NeedsFlush, At, CleanInv
<1>9. ASSUME LoadRead PROVE CleanRead
  <2>1. op'.pc = "search" /\ SameRun /\ op'.gd = op.gd
    BY <1>9, <1>g, <1>z DEF LoadRead
  <2> QED BY <1>9, <1>z, <2>1 DEF LoadRead, CacheMiss, CleanRead, At, Books, disk
<1>10. ASSUME Search PROVE CleanScan \/ CleanMark
  <2>0. op.pc = "search" /\ UNCHANGED <<bitmap, gdfree, owners>> /\ UNCHANGED Books
    BY <1>10 DEF Search, At, disk, Books
  <2>1. CASE FindRun(CurGroup) = {} /\ Continue /\ UNCHANGED cache
    BY <1>n, <2>0, <2>1 DEF CleanScan, Held
  <2>2. ASSUME NEW r \in FindRun(CurGroup),
               cache' = [cache EXCEPT !.dirty = TRUE,
                                      !.buf = @ \cup (r[1] .. r[1] + r[2] - 1)],
               op' = [op EXCEPT !.pc = "flush", !.bit = r[1], !.len = r[2]],
               UNCHANGED ret
        PROVE  CleanMark
    <3>1. CurGroup \in Groups
      BY <1>f, <2>0, CurGroupIsGroup DEF ScanInv
    <3>2. GroupBlocks[CurGroup] \in Nat
      BY <3>1, GeometryAssumption
    <3>3. r[2] <= op.goal /\ \A b \in r[1] .. r[1] + r[2] - 1 : b \notin cache.buf
      BY <1>f, <2>2, <3>1, <3>2, StartBitInside, NextFitFits DEF FindRun
    <3>4. /\ op'.pc = "flush" /\ op'.bit = r[1] /\ op'.len = r[2] /\ op'.gd = op.gd
          /\ op'.start = op.start /\ op'.scanned = op.scanned /\ op'.goal = op.goal
      BY <1>t, <2>2 DEF OpType
    <3>5. CurGroup' = CurGroup /\ Run' = r[1] .. r[1] + r[2] - 1
      BY <3>4 DEF CurGroup, Run
    <3>6. /\ cache'.valid = cache.valid /\ cache'.group = cache.group
          /\ cache'.buf = cache.buf \cup (r[1] .. r[1] + r[2] - 1)
      BY <1>t, <2>2 DEF CacheType
    <3> QED BY <2>0, <2>2, <3>3, <3>4, <3>5, <3>6 DEF CleanMark
  <2> QED BY <1>10, <2>1, <2>2 DEF Search
<1>11. ASSUME FlushMarked PROVE CleanWrite
  <2>1. /\ op'.pc = "gd" /\ SameRun /\ op'.gd = op.gd
        /\ bitmap' = [bitmap EXCEPT ![CurGroup] = cache.buf]
        /\ cache' = [cache EXCEPT !.dirty = FALSE]
    BY <1>11, <1>g, <1>z DEF FlushMarked, TearBitmap, WriteBitmap
  <2>2. /\ cache'.valid = cache.valid /\ ~cache'.dirty /\ cache'.group = cache.group
        /\ cache'.buf = cache.buf
    BY <1>t, <2>1 DEF CacheType
  <2> QED BY <1>11, <2>1, <2>2 DEF FlushMarked, CleanWrite, At, Books
<1>12. ASSUME AllocGd PROVE CleanCount
  <2>1. /\ op'.pc = "async" /\ SameRun /\ pending' = pending + 1
        /\ gdfree' = [gdfree EXCEPT ![CurGroup] = CountDown]
    BY <1>12, <1>g, <1>z DEF AllocGd, TearGd, WriteGd
  <2> QED BY <1>12, <2>1 DEF AllocGd, CleanCount, At
<1>13. ASSUME AllocReturn PROVE CleanHand
  BY <1>13, <1>b, <1>s DEF AllocReturn, CleanHand, At
<1>14. ASSUME FreeBitmap PROVE CleanLook \/ CleanClear
  <2>1. CASE op.bit \notin bitmap[op.start] /\ Return("ok") /\ UNCHANGED bitmap
    BY <1>14, <1>b, <2>1 DEF FreeBitmap, CleanLook, At, Held, Books
  <2>2. CASE /\ op.bit \in bitmap[op.start] /\ Goto("fgd")
             /\ bitmap' = [bitmap EXCEPT ![op.start] = bitmap[op.start] \ {op.bit}]
    BY <1>14, <1>g, <2>2 DEF FreeBitmap, CleanClear, At, Books
  <2> QED BY <1>14, <1>z, <2>1, <2>2 DEF FreeBitmap, WriteBitmap, TearBitmap
<1>15. ASSUME FreeGd PROVE CleanFreeCount
  <2>1. /\ op'.pc = "fsync" /\ SameRun /\ pending' = pending + 1
        /\ gdfree' = [gdfree EXCEPT ![op.start] = gdfree[op.start] + 1]
    BY <1>15, <1>g, <1>z DEF FreeGd, TearGd, WriteGd
  <2> QED BY <1>15, <2>1 DEF FreeGd, CleanFreeCount, At
<1>16. ASSUME FreeReturn PROVE CleanFreed
  <2>1. \/ cache' = cache /\ ~(cache.valid /\ cache.group = op.start)
        \/ ~cache'.valid
    BY <1>16, <1>t DEF FreeReturn, InvalidateCache, CacheType
  <2> QED BY <1>16, <1>b, <1>s, <2>1 DEF FreeReturn, CleanFreed, At
<1>17. ASSUME FlushCache PROVE CleanLook
  <2>1. op.pc = "bflush" /\ ~NeedsFlush
    BY <1>17 DEF FlushCache, At, CleanInv, NeedsFlush
  <2>2. Goto("bsync") /\ UNCHANGED Held /\ UNCHANGED Books
    BY <1>17, <1>z, <2>1 DEF FlushCache, Held, Books
  <2> QED BY <1>g, <2>1, <2>2 DEF CleanLook
<1>18. ASSUME FlushSync PROVE CleanFlushed
  <2>1. op.pc = "bsync" /\ UNCHANGED <<bitmap, gdfree, owners>>
    BY <1>18 DEF FlushSync, At
  <2>2. CASE pending = 0 /\ FlushDone("ok") /\ UNCHANGED <<sbfree, synced>>
    <3>1. pending' = pending /\ (cache' = cache \/ ~cache'.valid)
      BY <1>m, <2>2 DEF FlushDone
    <3> QED BY <1>b, <2>1, <2>2, <3>1 DEF FlushDone, CleanFlushed, Synced, Books
  <2>3. CASE /\ sbfree' = Sum(gdfree) /\ synced' = TRUE /\ Return("ok") /\ pending' = 0
             /\ IF op.um THEN Mounted ELSE UNCHANGED <<cache, nf>>
    <3>1. cache' = cache \/ ~cache'.valid
      BY <1>m, <2>3
    <3> QED BY <1>b, <2>1, <2>3, <3>1 DEF CleanFlushed, Synced, Books
  <2> QED BY <1>18, <1>z, <2>2, <2>3 DEF FlushSync
<1>19. ~PowerLoss
  BY <1>z DEF PowerLoss
<1>20. ASSUME UNCHANGED vars PROVE CleanLook
  BY <1>20 DEF vars, CleanLook, Held, Books
<1> QED
  BY <1>1, <1>2, <1>3, <1>4, <1>5, <1>6, <1>7, <1>8, <1>9, <1>10, <1>11, <1>12,
     <1>13, <1>14, <1>15, <1>16, <1>17, <1>18, <1>19, <1>20 DEF Next, Call, Step, CleanStep
-----------------------------------------------------------------------------
(* The cache and the disk.                                                  *)

\* A step without failures keeps the cache in agreement with the disk.
LEMMA StepCacheBooks ==
  ASSUME TypeOK, ScanInv, CacheBooks, CleanStep
  PROVE  CacheBooks'
<1>t. op \in OpType /\ cache \in CacheType /\ bitmap \in [Groups -> SUBSET Nat]
  BY DEF TypeOK
<1>f. op.start \in Groups /\ op.scanned \in Nat
  BY <1>t, OpFields
<1>k. cache.group \in Groups
  BY <1>t DEF CacheType
<1>c. op.pc \in {"load", "search", "flush", "gd", "async"} => CurGroup \in Groups
  BY <1>f, CurGroupIsGroup DEF ScanInv
<1> DEFINE Calm == {"idle", "scan", "load", "fbitmap", "bflush", "bsync"}
\* A step between two points that do not rely on the cache.
<1>q. ASSUME op.pc \in Calm \cup {"search"}, op'.pc \in Calm, UNCHANGED <<bitmap, cache>>
      PROVE  CacheBooks'
  BY <1>q DEF CacheBooks, CleanInv, CacheInv, CoherentInv, FreshInv
<1>i. ASSUME op'.pc \in Calm, ~cache'.valid PROVE CacheBooks'
  BY <1>i DEF CacheBooks, CleanInv, CacheInv, CoherentInv, FreshInv
<1>1. CASE CleanLook
  <2>1. CASE op' = op
    <3>1. CurGroup' = CurGroup /\ Run' = Run
      BY <2>1 DEF CurGroup, Run
    <3> QED BY <1>1, <2>1, <3>1
            DEF CleanLook, Held, CacheBooks, CleanInv, CacheInv, CoherentInv, FreshInv
  <2>2. CASE op' # op
    <3>1. op.pc \in Calm /\ op'.pc \in Calm /\ UNCHANGED <<bitmap, cache>>
      BY <1>1, <2>2 DEF CleanLook, Held, Back
    <3> QED BY <1>q, <3>1
  <2> QED BY <2>1, <2>2
<1>2. CASE CleanScan
  <2>1. UNCHANGED <<bitmap, cache>>
    BY <1>2 DEF CleanScan, Held
  <2>2. CASE op'.pc \in Calm
    <3>1. op.pc \in Calm \cup {"search"}
      BY <1>2, <2>2 DEF CleanScan
    <3> QED BY <1>q, <2>1, <2>2, <3>1
  <2>3. CASE op'.pc \notin Calm
    <3>1. /\ op.pc = "load" /\ op'.pc = "search" /\ CurGroup' = CurGroup
          /\ cache.valid /\ cache.group = CurGroup
      BY <1>2, <2>3 DEF CleanScan, SameRun, Back
    <3> QED BY <2>1, <3>1 DEF CacheBooks, CleanInv, CacheInv, CoherentInv, FreshInv
  <2> QED BY <2>2, <2>3
<1>3. CASE CleanRead
  BY <1>3 DEF CleanRead, SameRun, CacheBooks, CleanInv, CacheInv, CoherentInv, FreshInv
<1>4. CASE CleanMark
  <2>1. cache.valid /\ cache.group = CurGroup /\ cache.buf = bitmap[CurGroup]
    BY <1>4 DEF CleanMark, CacheBooks, CacheInv, CoherentInv
  <2> QED BY <1>4, <2>1 DEF CleanMark, CacheBooks, CleanInv, CacheInv, CoherentInv, FreshInv
<1>5. CASE CleanWrite
  <2>1. cache.valid /\ cache.group = CurGroup /\ CurGroup \in Groups
    BY <1>5, <1>c DEF CleanWrite, CacheBooks, CacheInv
  <2>2. bitmap'[CurGroup] = cache.buf
    BY <1>5, <1>t, <2>1 DEF CleanWrite
  <2> QED BY <1>5, <2>1, <2>2
          DEF CleanWrite, SameRun, CacheBooks, CleanInv, CacheInv, CoherentInv, FreshInv
<1>6. CASE CleanCount
  BY <1>6 DEF CleanCount, SameRun, CacheBooks, CleanInv, CacheInv, CoherentInv, FreshInv
<1>7. CASE CleanHand
  BY <1>7 DEF CleanHand, Back, CacheBooks, CleanInv, CacheInv, CoherentInv, FreshInv
<1>8. CASE CleanFree
  <2>1. op.pc = "idle" /\ op'.pc = "fbitmap" /\ UNCHANGED <<bitmap, cache>>
    BY <1>8 DEF CleanFree
  <2> QED BY <1>q, <2>1
<1>9. CASE CleanClear
  <2>1. \A g \in Groups : g # op.start => bitmap'[g] = bitmap[g]
    BY <1>9, <1>t, <1>f DEF CleanClear
  <2> QED BY <1>9, <1>k, <2>1
          DEF CleanClear, SameRun, CacheBooks, CleanInv, CacheInv, CoherentInv, FreshInv
<1>10. CASE CleanFreeCount
  BY <1>10 DEF CleanFreeCount, SameRun, CacheBooks, CleanInv, CacheInv, CoherentInv, FreshInv
<1>11. CASE CleanFreed
  <2>1. CASE ~cache'.valid
    BY <1>11, <1>i, <2>1 DEF CleanFreed, Back
  <2>2. CASE cache' = cache /\ ~(cache.valid /\ cache.group = op.start)
    BY <1>11, <2>2 DEF CleanFreed, Back, CacheBooks, CleanInv, CacheInv, CoherentInv, FreshInv
  <2> QED BY <1>11, <2>1, <2>2 DEF CleanFreed
<1>12. CASE CleanFlushed
  BY <1>12, <1>i, <1>q DEF CleanFlushed, Back
<1> QED
  BY <1>1, <1>2, <1>3, <1>4, <1>5, <1>6, <1>7, <1>8, <1>9, <1>10, <1>11, <1>12 DEF CleanStep

-----------------------------------------------------------------------------
(* No marked block is lost.                                                 *)

\* A step without failures leaves no marked bit without a holder or a call.
LEMMA StepLeak ==
  ASSUME TypeOK, TypeOK', ScanInv, RunBounds, CacheBooks, LeakInv, CleanStep
  PROVE  LeakInv'
<1>t. op \in OpType /\ cache \in CacheType /\ bitmap \in [Groups -> SUBSET Nat]
      /\ owners \in [Blocks -> Nat]
  BY DEF TypeOK
<1>f. op.start \in Groups /\ op.scanned \in Nat /\ op.bit \in Nat /\ op.len \in Nat
  BY <1>t, OpFields
<1>c. op.pc \in {"load", "search", "flush", "gd", "async"} => CurGroup \in Groups
  BY <1>f, CurGroupIsGroup DEF ScanInv
\* Outside the stretches that keep a bit for the call.
<1>q. ASSUME UNCHANGED <<bitmap, owners>>, op.pc \notin {"fbitmap", "gd", "async"}
      PROVE  LeakInv'
  BY <1>q DEF LeakInv, InUse
<1>1. CASE CleanLook
  <2>1. UNCHANGED <<bitmap, owners>>
    BY <1>1 DEF CleanLook, Held
  <2>2. CASE op' = op
    <3>1. CurGroup' = CurGroup /\ Run' = Run
      BY <2>2 DEF CurGroup, Run
    <3> QED BY <2>1, <2>2, <3>1 DEF LeakInv, InUse
  <2>3. CASE op.pc = "fbitmap" /\ op.bit \notin bitmap[op.start]
    BY <2>1, <2>3 DEF LeakInv, InUse
  <2>4. CASE op.pc \in {"idle", "bflush"}
    BY <1>q, <2>1, <2>4
  <2> QED BY <1>1, <2>2, <2>3, <2>4 DEF CleanLook
<1>2. CASE CleanScan
  BY <1>2, <1>q DEF CleanScan, Held
<1>3. CASE CleanRead
  BY <1>3, <1>q DEF CleanRead
<1>4. CASE CleanMark
  BY <1>4, <1>q DEF CleanMark
<1>5. CASE CleanWrite
  <2>1. CurGroup \in Groups /\ cache.buf = bitmap[CurGroup] \cup Run
    BY <1>5, <1>c DEF CleanWrite, CacheBooks, CacheInv, CoherentInv
  <2>2. \A b \in Run : b \in Bits(CurGroup)
    <3>1. op.bit >= 1 /\ op.bit + op.len <= GroupBlocks[CurGroup]
      BY <1>5 DEF CleanWrite, RunBounds
    <3>2. GroupBlocks[CurGroup] \in Nat
      BY <2>1, GeometryAssumption
    <3> QED BY <1>f, <3>1, <3>2 DEF Run, Bits
  <2>3. op'.pc = "gd" /\ CurGroup' = CurGroup /\ Run' = Run /\ owners' = owners
    BY <1>5 DEF CleanWrite, SameRun, Run
  <2>4. \A g \in Groups : bitmap'[g] = IF g = CurGroup THEN bitmap[g] \cup Run ELSE bitmap[g]
    BY <1>5, <1>t, <2>1 DEF CleanWrite
  <2>5. op.pc = "flush"
    BY <1>5 DEF CleanWrite
  <2> SUFFICES ASSUME NEW g \in Groups, NEW b \in bitmap'[g]
               PROVE  b \in Bits(g) /\ InUse(g, b)'
    BY DEF LeakInv
  <2>6. CASE b \in bitmap[g]
    BY <2>3, <2>5, <2>6 DEF LeakInv, InUse
  <2>7. CASE g = CurGroup /\ b \in Run
    BY <2>2, <2>3, <2>7 DEF InUse
  <2> QED BY <2>4, <2>6, <2>7
<1>6. CASE CleanCount
  <2>1. op'.pc = "async" /\ CurGroup' = CurGroup /\ Run' = Run /\ UNCHANGED <<bitmap, owners>>
    BY <1>6 DEF CleanCount, SameRun, Run
  <2> QED BY <1>6, <2>1 DEF CleanCount, LeakInv, InUse
<1>7. CASE CleanHand
  <2>1. bitmap' = bitmap /\ op.pc = "async"
    BY <1>7 DEF CleanHand
  <2> SUFFICES ASSUME NEW g \in Groups, NEW b \in bitmap[g]
               PROVE  b \in Bits(g) /\ owners'[<<g, b>>] > 0
    BY <2>1 DEF LeakInv, InUse
  <2>2. b \in Bits(g) /\ InUse(g, b)
    BY DEF LeakInv
  <2>3. <<g, b>> \in Blocks
    BY <2>2, BlocksArePairs
  <2>4. owners'[<<g, b>>] =
          IF <<g, b>> \in AllocRun THEN owners[<<g, b>>] + 1 ELSE owners[<<g, b>>]
    BY <1>7, <2>3 DEF CleanHand
  <2>5. owners[<<g, b>>] \in Nat
    BY <1>t, <2>3
  <2>6. owners[<<g, b>>] > 0 \/ <<g, b>> \in AllocRun
    BY <2>1, <2>2 DEF InUse, AllocRun, Run
  <2> QED BY <2>2, <2>4, <2>5, <2>6
<1>8. CASE CleanFree
  <2>1. PICK blk \in Blocks :
          /\ op.pc = "idle" /\ op'.pc = "fbitmap" /\ op'.start = blk[1] /\ op'.bit = blk[2]
          /\ owners' = [owners EXCEPT ![blk] = 0] /\ bitmap' = bitmap
    BY <1>8 DEF CleanFree
  <2> SUFFICES ASSUME NEW g \in Groups, NEW b \in bitmap[g]
               PROVE  b \in Bits(g) /\ InUse(g, b)'
    BY <2>1 DEF LeakInv
  <2>2. b \in Bits(g) /\ owners[<<g, b>>] > 0 /\ <<g, b>> \in Blocks
    BY <2>1, BlocksArePairs DEF LeakInv, InUse
  <2>3. CASE <<g, b>> = blk
    BY <2>1, <2>2, <2>3 DEF InUse
  <2>4. CASE <<g, b>> # blk
    BY <1>t, <2>1, <2>2, <2>4 DEF InUse
  <2> QED BY <2>3, <2>4
<1>9. CASE CleanClear
  <2>1. \A g \in Groups :
          bitmap'[g] = IF g = op.start THEN bitmap[g] \ {op.bit} ELSE bitmap[g]
    BY <1>9, <1>t, <1>f DEF CleanClear
  <2>2. op.pc = "fbitmap" /\ owners' = owners
    BY <1>9 DEF CleanClear
  <2> SUFFICES ASSUME NEW g \in Groups, NEW b \in bitmap'[g]
               PROVE  b \in Bits(g) /\ owners[<<g, b>>] > 0
    BY <2>2 DEF LeakInv, InUse
  <2>3. b \in bitmap[g] /\ ~(g = op.start /\ b = op.bit)
    BY <2>1
  <2>4. b \in Bits(g) /\ InUse(g, b)
    BY <2>3 DEF LeakInv
  <2> QED BY <2>2, <2>3, <2>4 DEF InUse
<1>10. CASE CleanFreeCount
  BY <1>10, <1>q DEF CleanFreeCount
<1>11. CASE CleanFreed
  BY <1>11, <1>q DEF CleanFreed
<1>12. CASE CleanFlushed
  BY <1>12, <1>q DEF CleanFlushed
<1> QED
  BY <1>1, <1>2, <1>3, <1>4, <1>5, <1>6, <1>7, <1>8, <1>9, <1>10, <1>11, <1>12 DEF CleanStep
-----------------------------------------------------------------------------
(* The counts.                                                              *)

\* The largest goal is one, and at least one block.
LEMMA MaxGoalBounds ==
    /\ MaxGoal \in Nat /\ MaxGoal >= 1
    /\ \A n \in Goals \cup {1} : n <= MaxGoal
<1> DEFINE S == Goals \cup {1}
<1>1. S \in SUBSET Nat /\ S # {}
  BY TuningAssumption
<1>2. IsFiniteSet(S)
  BY TuningAssumption, FS_AddElement
<1>3. 1 \in S
  OBVIOUS
<1>4. MaxGoal = Max(S)
  BY DEF MaxGoal
<1> HIDE DEF S
<1>5. MaxGoal \in S /\ \A n \in S : n <= MaxGoal
  BY <1>1, <1>2, <1>4, GreatestNumber
<1> QED BY <1>1, <1>3, <1>5 DEF S

\* A bitmap whose bits lie inside its group has at most the group's blocks.
LEMMA BitsCount ==
  ASSUME LeakInv, NEW g \in Groups
  PROVE  /\ IsFiniteSet(bitmap[g]) /\ Cardinality(bitmap[g]) \in Nat
         /\ GroupBlocks[g] \in Nat /\ Cardinality(bitmap[g]) <= GroupBlocks[g]
<1> DEFINE n == GroupBlocks[g]
<1>1. n \in Nat \ {0}
  BY GeometryAssumption
<1>2. bitmap[g] \in SUBSET (0 .. n - 1)
  BY DEF LeakInv, Bits
<1>3. 0 \in Int /\ n - 1 \in Int
  BY <1>1
<1>4. IsFiniteSet(0 .. n - 1)
      /\ Cardinality(0 .. n - 1) = IF 0 > n - 1 THEN 0 ELSE n - 1 - 0 + 1
  BY <1>3, FS_Interval, Zenon
<1>5. IsFiniteSet(bitmap[g]) /\ Cardinality(bitmap[g]) <= Cardinality(0 .. n - 1)
  BY <1>2, <1>4, FS_Subset, Zenon
<1>6. Cardinality(bitmap[g]) \in Nat
  BY <1>5, FS_CardinalityType
<1> QED BY <1>1, <1>4, <1>5, <1>6

\* Marking a run of clear bits sets as many bits as the run is long.
LEMMA MarkCount ==
  ASSUME NEW S, IsFiniteSet(S), NEW a \in Nat, NEW n \in Nat, n >= 1,
         \A b \in a .. a + n - 1 : b \notin S
  PROVE  Cardinality(S \cup (a .. a + n - 1)) = Cardinality(S) + n
<1> DEFINE z == a + n - 1
           R == a .. z
<1>1. a \in Int /\ z \in Int /\ z >= a /\ z - a + 1 = n
  OBVIOUS
<1>2. IsFiniteSet(R) /\ Cardinality(R) = IF a > z THEN 0 ELSE z - a + 1
  <2> HIDE DEF z
  <2> QED BY <1>1, FS_Interval
<1>3. Cardinality(R) = n
  <2> HIDE DEF z, R
  <2> QED BY <1>1, <1>2
<1>4. S \cap R = {}
  OBVIOUS
<1> HIDE DEF R
<1>5. Cardinality(S \cup R) = Cardinality(S) + Cardinality(R) - Cardinality(S \cap R)
  BY <1>2, FS_Union
<1>6. Cardinality(S \cap R) = 0
  BY <1>4, FS_EmptySet
<1>7. Cardinality(S) \in Nat
  BY FS_CardinalityType
<1>8. Cardinality(S \cup R) = Cardinality(S) + n
  BY <1>3, <1>5, <1>6, <1>7
<1> QED BY <1>8 DEF R

GroupBooks == CountInv /\ GdInv /\ GoalInv

\* A step without failures keeps the descriptors' counts: exact, or off by what
\* the call under way has yet to write.
LEMMA StepGroupBooks ==
  ASSUME TypeOK, ScanInv, RunBounds, CacheBooks, LeakInv, GroupBooks, CleanStep
  PROVE  GroupBooks'
<1>t. op \in OpType /\ bitmap \in [Groups -> SUBSET Nat] /\ gdfree \in [Groups -> Nat]
  BY DEF TypeOK
<1>f. /\ op.start \in Groups /\ op.scanned \in Nat /\ op.bit \in Nat /\ op.len \in Nat
      /\ op.gd \in Nat /\ op.goal \in Nat
  BY <1>t, OpFields
<1>c. op.pc \in {"load", "search", "flush", "gd", "async"} => CurGroup \in Groups
  BY <1>f, CurGroupIsGroup DEF ScanInv
<1>m. MaxGoal \in Nat /\ MaxGoal >= 1 /\ \A n \in Goals \cup {1} : n <= MaxGoal
  BY MaxGoalBounds
\* Outside the stretches in which a count is still to be written.
<1>q. ASSUME UNCHANGED <<bitmap, gdfree>>, op.pc \notin {"gd", "fgd"}, op'.pc \notin {"gd", "fgd"}
      PROVE  CountInv'
  <2>1. \A g \in Groups : Owed(g)' = 0 /\ Owed(g) = 0
    BY <1>q DEF Owed
  <2> QED BY <1>q, <2>1 DEF CountInv, GroupBooks
<1>i. ASSUME op'.pc \notin {"load", "search", "flush", "gd"}, op'.goal = op.goal \/ op'.goal = 1
      PROVE  GdInv' /\ GoalInv'
  BY <1>i, <1>m DEF GdInv, GoalInv, GroupBooks
<1>1. CASE CleanLook
  <2>1. UNCHANGED <<bitmap, gdfree>>
    BY <1>1 DEF CleanLook, Held
  <2>2. CASE op' = op
    <3>1. CurGroup' = CurGroup
      BY <2>2 DEF CurGroup
    <3> QED BY <2>1, <2>2, <3>1 DEF GroupBooks, CountInv, Owed, GdInv, GoalInv
  <2>3. CASE op.pc = "idle" /\ op'.pc \in {"scan", "bflush"}
             /\ op'.goal \in (Goals \cup {1}) \ {0}
    <3>1. op'.goal >= 1 /\ op'.goal <= MaxGoal
      <4>1. Goals \subseteq Nat
        BY TuningAssumption
      <4>2. \A n \in (Goals \cup {1}) \ {0} : n >= 1 /\ n <= MaxGoal
        BY <1>m, <4>1
      <4> QED BY <2>3, <4>2
    <3> QED BY <1>q, <2>1, <2>3, <3>1 DEF GroupBooks, GdInv, GoalInv
  <2>4. CASE /\ op.pc \in {"bflush", "fbitmap"} /\ op'.pc \in {"bsync", "idle"}
             /\ op'.goal = op.goal \/ op'.goal = 1
    BY <1>q, <1>i, <2>1, <2>4 DEF GroupBooks
  <2> QED BY <1>1, <2>2, <2>3, <2>4 DEF CleanLook, SameRun, Back
<1>2. CASE CleanScan
  <2>1. CountInv'
    BY <1>2, <1>q DEF CleanScan, Held, Back
  <2>2. CASE op'.pc \in {"scan", "idle"}
    BY <1>2, <1>i, <2>1, <2>2 DEF CleanScan, Back, GroupBooks
  <2>3. CASE op'.pc \in {"load", "search"}
    BY <1>2, <2>1, <2>3 DEF CleanScan, Held, Back, SameRun, GroupBooks, GdInv, GoalInv
  <2> QED BY <1>2, <2>2, <2>3 DEF CleanScan, Back
<1>3. CASE CleanRead
  BY <1>3, <1>q DEF CleanRead, SameRun, GroupBooks, GdInv, GoalInv
<1>4. CASE CleanMark
  BY <1>4, <1>q DEF CleanMark, GroupBooks, GdInv, GoalInv
<1>5. CASE CleanWrite
  <2>1. CurGroup \in Groups /\ cache.buf = bitmap[CurGroup] \cup Run /\ op.pc = "flush"
    BY <1>5, <1>c DEF CleanWrite, CacheBooks, CacheInv, CoherentInv
  <2>2. \A b \in op.bit .. op.bit + op.len - 1 : b \notin bitmap[CurGroup]
    BY <2>1 DEF CacheBooks, FreshInv, Run
  <2>3. op.len >= 1
    BY <2>1 DEF RunBounds
  <2>4. IsFiniteSet(bitmap[CurGroup])
    BY <2>1, BitsCount
  <2>5. Cardinality(bitmap[CurGroup] \cup Run) = Cardinality(bitmap[CurGroup]) + op.len
    BY <1>f, <2>2, <2>3, <2>4, MarkCount DEF Run
  <2>6. op'.pc = "gd" /\ CurGroup' = CurGroup /\ op'.len = op.len /\ gdfree' = gdfree
    BY <1>5 DEF CleanWrite, SameRun
  <2>7. \A g \in Groups : bitmap'[g] = IF g = CurGroup THEN bitmap[g] \cup Run ELSE bitmap[g]
    BY <1>5, <1>t, <2>1 DEF CleanWrite
  <2>8. CountInv'
    <3> SUFFICES ASSUME NEW g \in Groups
                 PROVE  gdfree[g] = GroupBlocks[g] - Cardinality(bitmap'[g])
                                      + (IF g = CurGroup THEN op.len ELSE 0)
      BY <2>6 DEF CountInv, Owed
    <3>1. gdfree[g] = GroupBlocks[g] - Cardinality(bitmap[g])
      <4>1. gdfree[g] = GroupBlocks[g] - Cardinality(bitmap[g]) + 0
        BY <2>1 DEF GroupBooks, CountInv, Owed
      <4>2. GroupBlocks[g] \in Nat /\ Cardinality(bitmap[g]) \in Nat
        BY BitsCount
      <4> QED BY <4>1, <4>2
    <3>2. GroupBlocks[g] \in Nat /\ Cardinality(bitmap[g]) \in Nat
      BY BitsCount
    <3>3. CASE g = CurGroup
      <4>1. Cardinality(bitmap'[g]) = Cardinality(bitmap[g]) + op.len
        BY <2>5, <2>7, <3>3
      <4> QED BY <1>f, <3>1, <3>2, <3>3, <4>1
    <3>4. CASE g # CurGroup
      <4>1. bitmap'[g] = bitmap[g]
        BY <2>7, <3>4
      <4> QED BY <3>1, <3>2, <3>4, <4>1
    <3> QED BY <3>3, <3>4
  <2>9. GdInv' /\ GoalInv'
    BY <1>5, <2>1, <2>6 DEF CleanWrite, SameRun, GroupBooks, GdInv, GoalInv
  <2> QED BY <2>8, <2>9 DEF GroupBooks
<1>6. CASE CleanCount
  <2>1. CurGroup \in Groups /\ op.pc = "gd" /\ op'.pc = "async" /\ bitmap' = bitmap
    BY <1>6, <1>c DEF CleanCount
  <2>2. op.gd = gdfree[CurGroup]
    BY <2>1 DEF GroupBooks, GdInv
  <2>3. gdfree[CurGroup] = GroupBlocks[CurGroup] - Cardinality(bitmap[CurGroup]) + op.len
    BY <2>1 DEF GroupBooks, CountInv, Owed
  <2>4. /\ GroupBlocks[CurGroup] \in Nat /\ Cardinality(bitmap[CurGroup]) \in Nat
        /\ Cardinality(bitmap[CurGroup]) <= GroupBlocks[CurGroup]
    BY <2>1, BitsCount
  <2>5. CountDown = GroupBlocks[CurGroup] - Cardinality(bitmap[CurGroup])
    BY <1>f, <2>2, <2>3, <2>4 DEF CountDown
  <2>6. \A g \in Groups : gdfree'[g] = IF g = CurGroup THEN CountDown ELSE gdfree[g]
    BY <1>6, <1>t, <2>1 DEF CleanCount
  <2>7. CountInv'
    <3> SUFFICES ASSUME NEW g \in Groups
                 PROVE  gdfree'[g] = GroupBlocks[g] - Cardinality(bitmap[g]) + 0
      BY <2>1 DEF CountInv, Owed
    <3>1. GroupBlocks[g] \in Nat /\ Cardinality(bitmap[g]) \in Nat
      BY BitsCount
    <3>2. CASE g = CurGroup
      BY <2>5, <2>6, <3>1, <3>2
    <3>3. CASE g # CurGroup
      BY <2>1, <2>6, <3>3 DEF GroupBooks, CountInv, Owed
    <3> QED BY <3>2, <3>3
  <2>8. GdInv' /\ GoalInv'
    BY <1>6, <1>i DEF CleanCount, SameRun
  <2> QED BY <2>7, <2>8 DEF GroupBooks
<1>7. CASE CleanHand
  BY <1>7, <1>q, <1>i DEF CleanHand, Back, GroupBooks
<1>8. CASE CleanFree
  BY <1>8, <1>q, <1>i DEF CleanFree, GroupBooks
<1>9. CASE CleanClear
  <2>1. /\ op.pc = "fbitmap" /\ op'.pc = "fgd" /\ op'.start = op.start
        /\ op.bit \in bitmap[op.start] /\ gdfree' = gdfree
    BY <1>9 DEF CleanClear, SameRun
  <2>2. \A g \in Groups :
          bitmap'[g] = IF g = op.start THEN bitmap[g] \ {op.bit} ELSE bitmap[g]
    BY <1>9, <1>t, <1>f DEF CleanClear
  <2>3. Cardinality(bitmap[op.start] \ {op.bit}) = Cardinality(bitmap[op.start]) - 1
    <3>1. IsFiniteSet(bitmap[op.start])
      BY <1>f, BitsCount
    <3> QED BY <2>1, <3>1, FS_RemoveElement
  <2>4. CountInv'
    <3> SUFFICES ASSUME NEW g \in Groups
                 PROVE  gdfree[g] = GroupBlocks[g] - Cardinality(bitmap'[g])
                                      + (IF g = op.start THEN -1 ELSE 0)
      BY <2>1 DEF CountInv, Owed
    <3>1. gdfree[g] = GroupBlocks[g] - Cardinality(bitmap[g]) + 0
      BY <2>1 DEF GroupBooks, CountInv, Owed
    <3>2. GroupBlocks[g] \in Nat /\ Cardinality(bitmap[g]) \in Nat
      BY BitsCount
    <3>3. CASE g = op.start
      <4>1. Cardinality(bitmap'[g]) = Cardinality(bitmap[g]) - 1
        BY <2>2, <2>3, <3>3
      <4> QED BY <3>1, <3>2, <3>3, <4>1
    <3>4. CASE g # op.start
      <4>1. bitmap'[g] = bitmap[g]
        BY <2>2, <3>4
      <4> QED BY <3>1, <3>4, <4>1
    <3> QED BY <3>3, <3>4
  <2>5. GdInv' /\ GoalInv'
    BY <1>9, <1>i DEF CleanClear, SameRun
  <2> QED BY <2>4, <2>5 DEF GroupBooks
<1>10. CASE CleanFreeCount
  <2>1. op.pc = "fgd" /\ op'.pc = "fsync" /\ bitmap' = bitmap
    BY <1>10 DEF CleanFreeCount
  <2>2. \A g \in Groups : gdfree'[g] = IF g = op.start THEN gdfree[g] + 1 ELSE gdfree[g]
    BY <1>10, <1>t, <1>f DEF CleanFreeCount
  <2>3. CountInv'
    <3> SUFFICES ASSUME NEW g \in Groups
                 PROVE  gdfree'[g] = GroupBlocks[g] - Cardinality(bitmap[g]) + 0
      BY <2>1 DEF CountInv, Owed
    <3>1. gdfree[g] = GroupBlocks[g] - Cardinality(bitmap[g])
                        + (IF g = op.start THEN -1 ELSE 0)
      BY <2>1 DEF GroupBooks, CountInv, Owed
    <3>2. GroupBlocks[g] \in Nat /\ Cardinality(bitmap[g]) \in Nat
      BY BitsCount
    <3> QED BY <2>2, <3>1, <3>2
  <2>4. GdInv' /\ GoalInv'
    BY <1>10, <1>i DEF CleanFreeCount, SameRun
  <2> QED BY <2>3, <2>4 DEF GroupBooks
<1>11. CASE CleanFreed
  BY <1>11, <1>q, <1>i DEF CleanFreed, Back, GroupBooks
<1>12. CASE CleanFlushed
  BY <1>12, <1>q, <1>i DEF CleanFlushed, Back, GroupBooks
<1> QED
  BY <1>1, <1>2, <1>3, <1>4, <1>5, <1>6, <1>7, <1>8, <1>9, <1>10, <1>11, <1>12 DEF CleanStep
-----------------------------------------------------------------------------
(* The super block's count.                                                 *)

\* The total over the groups is a number; when the count of one group changes
\* it changes by as much.
LEMMA TotalChanges ==
  ASSUME NEW f \in [Groups -> Nat], NEW g \in Groups, NEW n \in Nat
  PROVE  /\ Sum(f) \in Int
         /\ Sum([f EXCEPT ![g] = n]) = Sum(f) + (n - f[g])
<1> DEFINE h == [f EXCEPT ![g] = n]
<1>1. IsFiniteSet(Groups)
  <2>1. 0 \in Int /\ GroupsCount - 1 \in Int
    BY GeometryAssumption
  <2> QED BY <2>1, FS_Interval DEF Groups
<1>2. \A x \in Groups : f[x] \in Int /\ h[x] \in Int /\ (x # g => h[x] = f[x])
  OBVIOUS
<1>3. h[g] = n
  OBVIOUS
<1> HIDE DEF h
<1>4. SumOver(f, Groups) \in Int /\ SumOver(h, Groups) = SumOver(f, Groups) + (h[g] - f[g])
  BY <1>1, <1>2, SumChanges
<1>5. \A k : Sum(k) = SumOver(k, Groups)
  BY DEF Sum, SumOver
<1> QED BY <1>3, <1>4, <1>5 DEF h

\* One more update pending allows for one more goal.
LEMMA OneMorePending ==
  ASSUME NEW p \in Nat, NEW m \in Nat, NEW lag \in Int, NEW d \in Int,
         lag <= p * m, -lag <= p * m, d <= m, -d <= m
  PROVE  lag - d <= (p + 1) * m /\ -(lag - d) <= (p + 1) * m
<1>1. (p + 1) * m = p * m + m /\ p * m \in Int
  OBVIOUS
<1> DEFINE q == p * m
<1>2. q \in Int /\ lag <= q /\ -lag <= q /\ (p + 1) * m = q + m
  BY <1>1
<1> HIDE DEF q
<1>3. lag - d <= q + m /\ -(lag - d) <= q + m
  BY <1>2
<1> QED BY <1>2, <1>3

\* A step without failures lets the super block's count fall behind by no more
\* than what it adds to the pending updates.
LEMMA StepLag ==
  ASSUME TypeOK, ScanInv, LeakInv, GroupBooks, LagInv, CleanStep
  PROVE  LagInv'
<1>t. op \in OpType /\ gdfree \in [Groups -> Nat] /\ pending \in Nat
  BY DEF TypeOK
<1>f. /\ op.start \in Groups /\ op.scanned \in Nat /\ op.len \in Nat /\ op.gd \in Nat
      /\ op.goal \in Nat
  BY <1>t, OpFields
<1>m. MaxGoal \in Nat /\ MaxGoal >= 1
  BY MaxGoalBounds
<1>s. Sum(gdfree) \in Int
  BY <1>t, <1>f, TotalChanges
<1>q. ASSUME UNCHANGED <<gdfree, sbfree, pending, synced>> PROVE LagInv'
  <2>1. Sum(gdfree)' = Sum(gdfree)
    BY <1>q
  <2> QED BY <1>q, <2>1 DEF LagInv
<1>y. ASSUME gdfree' = gdfree, Synced PROVE LagInv'
  <2>1. CASE UNCHANGED Books
    BY <1>q, <1>y, <2>1 DEF Books
  <2>2. CASE sbfree' = Sum(gdfree) /\ pending' = 0 /\ synced'
    <3>1. Sum(gdfree)' = Sum(gdfree)
      BY <1>y
    <3>2. sbfree' \in Int /\ sbfree' - Sum(gdfree)' = 0 /\ 0 * MaxGoal = 0
      BY <1>s, <1>m, <2>2, <3>1
    <3> QED BY <2>2, <3>2 DEF LagInv
  <2> QED BY <1>y, <2>1, <2>2 DEF Synced
<1>d. ASSUME NEW g \in Groups, NEW n \in Nat, gdfree' = [gdfree EXCEPT ![g] = n],
             n - gdfree[g] <= MaxGoal, -(n - gdfree[g]) <= MaxGoal,
             pending' = pending + 1, UNCHANGED <<sbfree, synced>>
      PROVE  LagInv'
  <2> DEFINE lag == sbfree - Sum(gdfree)
             d == n - gdfree[g]
  <2>0. sbfree \in Int /\ gdfree[g] \in Nat
    BY <1>t DEF LagInv
  <2>1. Sum(gdfree)' = Sum(gdfree) + d
    <3>1. Sum([gdfree EXCEPT ![g] = n]) = Sum(gdfree) + (n - gdfree[g])
      BY <1>t, TotalChanges
    <3>2. Sum(gdfree)' = Sum(gdfree')
      OBVIOUS
    <3> QED BY <1>d, <3>1, <3>2
  <2>2. lag \in Int /\ d \in Int
    BY <1>s, <2>0
  <2>3. sbfree' - Sum(gdfree)' = lag - d
    BY <1>d, <1>s, <2>0, <2>1, <2>2
  <2>4. ASSUME synced
        PROVE  lag - d <= (pending + 1) * MaxGoal /\ -(lag - d) <= (pending + 1) * MaxGoal
    <3>1. lag <= pending * MaxGoal /\ -lag <= pending * MaxGoal
      BY <2>4 DEF LagInv
    <3>2. d <= MaxGoal /\ -d <= MaxGoal
      BY <1>d
    <3> HIDE DEF lag, d
    <3> QED BY <1>t, <1>m, <2>2, <3>1, <3>2, OneMorePending
  <2>5. MaxGoal' = MaxGoal
    BY DEF MaxGoal
  <2> HIDE DEF lag, d
  <2> QED BY <1>d, <2>0, <2>3, <2>4 DEF LagInv
<1>1. CASE CleanLook \/ CleanScan \/ CleanRead \/ CleanMark \/ CleanWrite \/ CleanFree
           \/ CleanClear
  <2>1. UNCHANGED <<gdfree, sbfree, pending, synced>>
    BY <1>1 DEF CleanLook, CleanScan, CleanRead, CleanMark, CleanWrite, CleanFree,
                CleanClear, Held, Books
  <2> QED BY <1>q, <2>1
<1>2. CASE CleanHand \/ CleanFreed \/ CleanFlushed
  BY <1>2, <1>y DEF CleanHand, CleanFreed, CleanFlushed
<1>3. CASE CleanCount
  <2>1. CurGroup \in Groups
    BY <1>3, <1>f, CurGroupIsGroup DEF CleanCount, ScanInv
  <2>2. op.gd = gdfree[CurGroup] /\ op.len <= op.goal /\ op.goal <= MaxGoal
    BY <1>3 DEF CleanCount, GroupBooks, GdInv, GoalInv
  <2>3. CountDown \in Nat
    BY <1>f DEF CountDown
  <2>4. CountDown - gdfree[CurGroup] <= MaxGoal /\ -(CountDown - gdfree[CurGroup]) <= MaxGoal
    BY <1>f, <1>m, <2>2 DEF CountDown
  <2> QED BY <1>3, <1>d, <2>1, <2>3, <2>4 DEF CleanCount
<1>4. CASE CleanFreeCount
  <2> DEFINE n == gdfree[op.start] + 1
  <2>1. gdfree[op.start] \in Nat
    BY <1>t, <1>f
  <2>2. n \in Nat /\ n - gdfree[op.start] <= MaxGoal /\ -(n - gdfree[op.start]) <= MaxGoal
    BY <1>m, <2>1
  <2>3. gdfree' = [gdfree EXCEPT ![op.start] = n] /\ pending' = pending + 1
        /\ UNCHANGED <<sbfree, synced>>
    BY <1>4 DEF CleanFreeCount
  <2> HIDE DEF n
  <2> QED BY <1>d, <1>f, <2>2, <2>3
<1> QED BY <1>1, <1>2, <1>3, <1>4 DEF CleanStep

-----------------------------------------------------------------------------
(* An allocation gives up only on a full disk.                              *)

\* The scan from any start meets every group.
LEMMA ScanMeetsAll ==
  ASSUME op.start \in Groups, NEW g \in Groups
  PROVE  \E k \in 0 .. GroupsCount - 1 : ScanGroup(k) = g
<1>0. op.start \in Nat /\ op.start < GroupsCount /\ g \in Nat /\ g < GroupsCount
      /\ GroupsCount \in Nat
  BY GeometryAssumption DEF Groups
<1>1. CASE g >= op.start
  <2>1. g - op.start \in 0 .. GroupsCount - 1 /\ ScanGroup(g - op.start) = g
    BY <1>0, <1>1 DEF ScanGroup
  <2> QED BY <2>1
<1>2. CASE g < op.start
  <2> DEFINE k == g - op.start + GroupsCount
  <2>1. k \in 0 .. GroupsCount - 1 /\ ScanGroup(k) = g
    BY <1>0, <1>2 DEF ScanGroup
  <2> QED BY <2>1
<1> QED BY <1>0, <1>1, <1>2

\* A step without failures keeps what the scan knows of the groups behind it.
LEMMA StepFound ==
  ASSUME TypeOK, ScanInv, CacheBooks, GroupBooks, ScannedInv, FoundInv, CleanStep
  PROVE  ScannedInv' /\ FoundInv'
<1>t. op \in OpType
  BY DEF TypeOK
<1>f. /\ op.start \in Groups /\ op.scanned \in Nat /\ op.goal \in Nat /\ op.goal >= 1
      /\ op.pass \in {0, 1}
  BY <1>t, OpFields DEF GroupBooks, GoalInv
\* A call ends with something else than "no space".
<1>b. ASSUME NEW r, Back(r), r # "zero" PROVE ScannedInv' /\ FoundInv'
  BY <1>b DEF Back, ScannedInv, FoundInv
\* A call goes on outside the scan.
<1>o. ASSUME op.pc # "idle" \/ ret' = "none", ret' = ret \/ ret' = "none",
             op'.pc \notin {"scan", "load", "search", "idle"}
      PROVE  ScannedInv' /\ FoundInv'
  BY <1>o DEF ScannedInv, FoundInv
\* The scan goes on and has left no further group behind.
<1>s. ASSUME bitmap' = bitmap, ret' = ret, op.pc \in {"scan", "load", "search"},
             op'.pc \in {"scan", "load", "search"}, SameRun
      PROVE  ScannedInv' /\ FoundInv'
  BY <1>s DEF SameRun, ScannedInv, FoundInv, MustFull, ScanGroup, Full
<1>1. CASE CleanLook
  <2>1. bitmap' = bitmap
    BY <1>1 DEF CleanLook, Held
  <2>2. CASE op' = op /\ ret' = ret
    BY <2>1, <2>2 DEF ScannedInv, FoundInv, MustFull, ScanGroup, Full
  <2>3. CASE op.pc = "idle" /\ op'.pc \in {"scan", "bflush"} /\ op'.scanned = 0
             /\ ret' = "none"
    BY <2>3 DEF ScannedInv, FoundInv
  <2>4. CASE op.pc = "bflush" /\ op'.pc = "bsync" /\ SameRun
    BY <1>o, <2>4 DEF SameRun
  <2>5. CASE Back("ok")
    BY <1>b, <2>5
  <2> QED BY <1>1, <2>2, <2>3, <2>4, <2>5 DEF CleanLook
<1>2. CASE CleanScan
  <2>0. bitmap' = bitmap
    BY <1>2 DEF CleanScan, Held
  <2>1. CASE op.pc = "scan" /\ op'.pc = "scan" /\ op'.scanned = 0 /\ ret' = ret
    BY <2>1 DEF ScannedInv, FoundInv
  <2>2. CASE op.pc = "scan" /\ op.scanned = GroupsCount /\ ~MustFull /\ Back("zero")
    <3>1. \A g \in Groups : Full(g)
      <4> TAKE g \in Groups
      <4>1. PICK k \in 0 .. GroupsCount - 1 : ScanGroup(k) = g
        BY <1>f, ScanMeetsAll
      <4> QED BY <2>2, <4>1 DEF ScannedInv
    <3>2. \A g \in Groups : Full(g)'
      BY <2>0, <3>1 DEF Full
    <3> QED BY <2>2, <3>2 DEF Back, ScannedInv, FoundInv
  <2>3. CASE /\ \/ op.pc = "scan" /\ op.scanned < GroupsCount /\ GroupBlocks[CurGroup] <= 1
                \/ op.pc = "search" /\ FindRun(CurGroup) = {}
             /\ op'.pc = "scan" /\ op'.scanned = op.scanned + 1 /\ op'.start = op.start
             /\ op'.goal = op.goal /\ op'.pass = op.pass /\ ret' = ret
    <3>0. op.scanned < GroupsCount
      BY <2>3 DEF ScanInv
    <3>1. CurGroup \in Groups
      BY <1>f, <3>0, CurGroupIsGroup
    <3>2. ScanGroup(op.scanned) = CurGroup
      BY <1>f, <3>0, GeometryAssumption DEF ScanGroup, CurGroup, Groups
    <3>3. GroupBlocks[CurGroup] \in Nat
      BY <3>1, GeometryAssumption
    <3>4. ASSUME ~MustFull PROVE Full(CurGroup)
      <4>1. CASE GroupBlocks[CurGroup] <= 1
        BY <3>3, <4>1 DEF Full
      <4>2. CASE op.pc = "search" /\ FindRun(CurGroup) = {}
        <5>1. cache.buf = bitmap[CurGroup]
          BY <4>2 DEF CacheBooks, CacheInv, CoherentInv
        <5>2. StartBit(CurGroup) \in Nat /\ StartBit(CurGroup) >= 1
          BY <3>1, StartBitInside
        <5>3. 1 .. GroupBlocks[CurGroup] - 1 \subseteq cache.buf
          BY <1>f, <3>3, <3>4, <4>2, <5>2, NextFitFinds DEF FindRun, MustFull
        <5> QED BY <5>1, <5>3 DEF Full
      <4> QED BY <2>3, <4>1, <4>2
    <3>5. \A g : Full(g)' = Full(g)
      BY <2>0 DEF Full
    <3>6. \A k : ScanGroup(k)' = ScanGroup(k)
      BY <2>3 DEF ScanGroup
    <3>7. MustFull' = MustFull
      BY <2>3 DEF MustFull
    <3>8. ScannedInv'
      <4> SUFFICES ASSUME ~MustFull, NEW k \in 0 .. op.scanned PROVE Full(ScanGroup(k))
        <5>1. op'.scanned - 1 = op.scanned
          BY <1>f, <2>3
        <5> QED BY <3>5, <3>6, <3>7, <5>1 DEF ScannedInv
      <4>1. CASE k = op.scanned
        BY <3>2, <3>4, <4>1
      <4>2. CASE k # op.scanned
        <5>1. k \in 0 .. op.scanned - 1
          BY <1>f, <4>2
        <5> QED BY <2>3, <5>1 DEF ScannedInv
      <4> QED BY <4>1, <4>2
    <3>9. FoundInv'
      BY <2>3 DEF FoundInv
    <3> QED BY <3>8, <3>9
  <2>4. CASE /\ op.pc \in {"scan", "load"} /\ op'.pc \in {"load", "search"} /\ SameRun
    BY <1>s, <2>0, <2>4 DEF SameRun
  <2> QED BY <1>2, <2>1, <2>2, <2>3, <2>4 DEF CleanScan
<1>3. CASE CleanRead
  BY <1>3, <1>s DEF CleanRead, SameRun
<1>4. CASE CleanMark \/ CleanWrite \/ CleanCount \/ CleanClear \/ CleanFreeCount
  BY <1>4, <1>o DEF CleanMark, CleanWrite, CleanCount, CleanClear, CleanFreeCount, SameRun
<1>5. CASE CleanFree
  BY <1>5, <1>o DEF CleanFree
<1>6. CASE CleanHand \/ CleanFreed \/ CleanFlushed
  BY <1>6, <1>b DEF CleanHand, CleanFreed, CleanFlushed
<1> QED BY <1>1, <1>2, <1>3, <1>4, <1>5, <1>6 DEF CleanStep
-----------------------------------------------------------------------------
(* The invariant and what follows from it.                                  *)

AllBooks == CacheBooks /\ LeakInv /\ GroupBooks /\ LagInv /\ ScannedInv /\ FoundInv
BooksInv == faults = 0 => AllBooks

\* Failures are only ever counted up.
LEMMA FaultsGrow ==
  ASSUME TypeOK, [Next]_vars, faults' = 0
  PROVE  faults = 0
<1>1. faults' = faults \/ faults' = faults + 1
  <2>1. Call => faults' = faults
    BY DEF Call, NewBlocks, FreeBlock, BallocFlush, SetBatch
  <2>2. EndPass \/ VisitGroup \/ CacheHit \/ LoadFlush \/ LoadRead \/ Search \/ FlushMarked
          => Ok \/ Fault
    BY DEF EndPass, VisitGroup, CacheHit, LoadFlush, LoadRead, Search, FlushMarked,
           WriteBitmap, TearBitmap, Ok
  <2>3. AllocGd \/ AllocReturn \/ FreeBitmap \/ FreeGd \/ FreeReturn => Ok \/ Fault
    BY DEF AllocGd, AllocReturn, FreeBitmap, FreeGd, FreeReturn, BatchedSync,
           WriteBitmap, TearBitmap, WriteGd, TearGd
  <2>4. FlushCache \/ FlushSync \/ PowerLoss => Ok \/ Fault
    BY DEF FlushCache, FlushSync, PowerLoss, WriteBitmap, TearBitmap
  <2>5. UNCHANGED vars => faults' = faults
    BY DEF vars
  <2>6. Ok \/ Fault => faults' = faults \/ faults' = faults + 1
    BY DEF Ok, Fault
  <2> QED BY <2>1, <2>2, <2>3, <2>4, <2>5, <2>6 DEF Next, Step
<1>2. faults \in Nat
  BY DEF TypeOK
<1> QED BY <1>1, <1>2

\* The books of the file system mkfs makes balance.
LEMMA InitBooks == Init => BooksInv /\ RunBounds
<1> SUFFICES ASSUME Init PROVE AllBooks /\ RunBounds
  BY DEF BooksInv
<1>1. /\ op.pc = "idle" /\ op.goal = 1 /\ ~cache.valid /\ ret = "none" /\ synced = FALSE
      /\ bitmap = Reserved
  BY DEF Init, IdleOp, NoCache
<1>2. CacheBooks /\ ScannedInv /\ FoundInv /\ RunBounds
  BY <1>1 DEF CacheBooks, CleanInv, CacheInv, CoherentInv, FreshInv, ScannedInv, FoundInv,
              RunBounds
<1>3. LeakInv
  <2> SUFFICES ASSUME NEW g \in Groups, NEW b \in Reserved[g]
               PROVE  b \in Bits(g) /\ owners[<<g, b>>] > 0
    BY <1>1 DEF LeakInv, InUse
  <2>1. b \in Bits(g)
    BY GeometryAssumption
  <2>2. <<g, b>> \in Blocks
    BY <2>1, BlocksArePairs
  <2>3. owners[<<g, b>>] = 1
    BY <2>2 DEF Init
  <2> QED BY <2>1, <2>3
<1>4. gdfree \in [Groups -> Nat]
  BY InitTypes DEF TypeOK
<1>5. CountInv
  <2> SUFFICES ASSUME NEW g \in Groups
               PROVE  gdfree[g] = GroupBlocks[g] - Cardinality(bitmap[g]) + 0
    BY <1>1 DEF CountInv, Owed
  <2>1. gdfree[g] = GroupBlocks[g] - Cardinality(bitmap[g])
    BY DEF Init
  <2>2. GroupBlocks[g] \in Nat /\ Cardinality(bitmap[g]) \in Nat
    BY <1>3, BitsCount
  <2> QED BY <2>1, <2>2
<1>6. GdInv /\ GoalInv
  BY <1>1, MaxGoalBounds DEF GdInv, GoalInv
<1>7. LagInv
  <2>1. 0 \in Groups /\ 0 \in Nat
    BY GeometryAssumption DEF Groups
  <2>2. Sum(gdfree) \in Int
    BY <1>4, <2>1, TotalChanges
  <2>3. sbfree \in Int
    BY <2>2, TuningAssumption DEF Init
  <2> QED BY <1>1, <2>3 DEF LagInv
<1> QED BY <1>2, <1>3, <1>5, <1>6, <1>7 DEF AllBooks, GroupBooks

\* One step keeps the books as long as nothing has failed.
LEMMA StepBooks ==
  ASSUME TypeOK, TypeOK', ScanInv, RunBounds, BooksInv, [Next]_vars
  PROVE  BooksInv'
<1> SUFFICES ASSUME faults' = 0 PROVE AllBooks'
  BY DEF BooksInv
<1>1. AllBooks
  BY FaultsGrow DEF BooksInv
<1>2. CacheBooks /\ LeakInv /\ GroupBooks /\ LagInv /\ ScannedInv /\ FoundInv
  BY <1>1 DEF AllBooks
<1>3. CleanStep
  BY <1>2, StepIsClean DEF CacheBooks
<1>4. CacheBooks'
  BY <1>2, <1>3, StepCacheBooks
<1>5. LeakInv'
  BY <1>2, <1>3, StepLeak
<1>6. GroupBooks'
  BY <1>2, <1>3, StepGroupBooks
<1>7. LagInv'
  BY <1>2, <1>3, StepLag
<1>8. ScannedInv' /\ FoundInv'
  BY <1>2, <1>3, StepFound
<1> QED BY <1>4, <1>5, <1>6, <1>7, <1>8 DEF AllBooks

\* The books balance in every history, for as long as nothing has failed.
LEMMA BooksAlways == Spec => []BooksInv
<1>1. TypeOK /\ ScanInv /\ RunBounds /\ [Next]_vars => RunBounds'
  BY StepBounds
<1>2. TypeOK /\ TypeOK' /\ ScanInv /\ RunBounds /\ BooksInv /\ [Next]_vars => BooksInv'
  BY StepBooks
<1> QED BY <1>1, <1>2, InitBooks, TypeCorrect, PTL DEF Spec

\* Without failures the one-entry bitmap cache never disagrees with the disk
\* between calls, although ext4_free_block writes the bitmap behind its back.
THEOREM CacheCoherentHolds == Spec => []CacheCoherentNoFault
<1>1. BooksInv => CacheCoherentNoFault
  BY DEF BooksInv, AllBooks, CacheBooks, CoherentInv, CacheCoherentNoFault, CacheCoherent, At
<1> QED BY <1>1, BooksAlways, PTL

\* Without failures no block is lost: between calls every bit set in a bitmap
\* belongs to a holder.
THEOREM NoLeakHolds == Spec => []NoLeak
<1>1. BooksInv => NoLeak
  <2> SUFFICES ASSUME BooksInv, faults = 0, op.pc = "idle",
                      NEW g \in Groups, NEW b \in bitmap[g]
               PROVE  <<g, b>> \in Blocks /\ owners[<<g, b>>] > 0
    BY DEF NoLeak, At
  <2>1. b \in Bits(g) /\ InUse(g, b)
    BY DEF BooksInv, AllBooks, LeakInv
  <2> QED BY <2>1, BlocksArePairs DEF InUse
<1> QED BY <1>1, BooksAlways, PTL

\* Without failures a group descriptor's free count is the number of clear bits
\* of its bitmap whenever no call is under way: the clamp of the subtraction is
\* never needed and the descriptor read before the search is not stale.
THEOREM GroupCountsHold == Spec => []GroupCountsExact
<1>1. BooksInv => GroupCountsExact
  <2> SUFFICES ASSUME BooksInv, faults = 0, op.pc = "idle", NEW g \in Groups
               PROVE  gdfree[g] = GroupBlocks[g] - Cardinality(bitmap[g])
    BY DEF GroupCountsExact, At
  <2>1. LeakInv /\ CountInv
    BY DEF BooksInv, AllBooks, GroupBooks
  <2>2. gdfree[g] = GroupBlocks[g] - Cardinality(bitmap[g]) + 0
    BY <2>1 DEF CountInv, Owed
  <2>3. GroupBlocks[g] \in Nat /\ Cardinality(bitmap[g]) \in Nat
    BY <2>1, BitsCount
  <2> QED BY <2>2, <2>3
<1> QED BY <1>1, BooksAlways, PTL

\* Without failures the super block's free count, once written, is off by at
\* most the largest goal for each update of the unfinished batch.
THEOREM SuperCountLagHolds == Spec => []SuperCountLag
<1>1. BooksInv => SuperCountLag
  BY DEF BooksInv, AllBooks, LagInv, SuperCountLag
<1> QED BY <1>1, BooksAlways, PTL

\* Without failures ext4_new_blocks_in_group gives up only when no group has a
\* clear bit past bit 0, whatever the cursors and the preferred group are.
THEOREM AllocFindsSpaceHolds == Spec => []AllocFindsSpace
<1>1. BooksInv => AllocFindsSpace
  BY DEF BooksInv, AllBooks, FoundInv, Full, AllocFindsSpace
<1> QED BY <1>1, BooksAlways, PTL
=============================================================================
