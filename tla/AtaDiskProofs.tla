---------------------------- MODULE AtaDiskProofs ----------------------------
(***************************************************************************)
(* Proofs about AtaDisk for every size of the disk, of a chunk and of a DMA *)
(* transfer, and any number of calls and faults: a transfer moves the       *)
(* sectors of a prefix of what was asked for, and all of it on success.     *)
(***************************************************************************)
EXTENDS AtaDisk, TLAPS

\* f is a function on S.
IsOn(f, S) == f = [i \in S |-> f[i]]

Busy == {"chunk", "dma", "dmarun", "pio", "piorun"}
InChunk == {"dma", "dmarun", "pio", "piorun"}

\* The call is inside the disk, the loop inside the call and the chunk inside
\* what is left of it.
BoundsInv ==
    /\ req.write \in BOOLEAN /\ req.lba \in Nat /\ req.n \in Nat
    /\ req.lba + req.n <= Sectors
    /\ off \in Nat /\ off <= req.n
    /\ s \in Nat
    /\ calls \in Nat
    /\ unseen \in BOOLEAN
    /\ IsOn(disk, 0 .. Sectors - 1) /\ IsOn(buf, 0 .. req.n - 1)
    /\ pc \in Busy \cup {"idle"}
    /\ pc \in Busy => ret = "none"
    /\ pc \in InChunk => off < req.n
    /\ pc \in {"dmarun", "piorun"} => s <= Chunk
    /\ pc \in {"dma", "pio"} => s = 0

\* What has been moved.  In a chunk it may be more than this attempt has moved:
\* programmed I/O begins the chunk that DMA has left anew.
ProgressInv ==
    ~unseen =>
        /\ pc \in {"chunk", "dma"} => Moved(off)
        /\ pc \in {"dmarun", "pio", "piorun"} =>
              \E p \in Nat : off + s <= p /\ p <= off + Chunk /\ Moved(p)
        /\ pc = "idle" => \E p \in 0 .. req.n : Moved(p) /\ (ret = "ok" => p = req.n)

\* The length of a chunk.
LEMMA ChunkBounds ==
  ASSUME BoundsInv
  PROVE  /\ Chunk \in Nat /\ off + Chunk <= req.n
         /\ off < req.n => Chunk > 0
  BY AtaAssumption DEF BoundsInv, Chunk

\* One sector moved is one sector more of the prefix, or one that was there.
LEMMA MoveOne ==
  ASSUME BoundsInv, NEW p \in Nat, off + s <= p, p <= off + Chunk, s < Chunk,
         Moved(p), Move(s), UNCHANGED <<req, was>>
  PROVE  /\ \E q \in Nat : off + s + 1 <= q /\ q <= off + Chunk /\ Moved(q)'
         /\ IsOn(disk', 0 .. Sectors - 1) /\ IsOn(buf', 0 .. req.n - 1)
<1> DEFINE k == off + s
           D == 0 .. Sectors - 1
           B == 0 .. req.n - 1
<1>1. /\ k \in Nat /\ k < req.n /\ req.lba \in Nat /\ req.n \in Nat
      /\ req.lba + req.n <= Sectors /\ Sectors \in Nat
  BY ChunkBounds, AtaAssumption DEF BoundsInv
<1>q. PICK q \in Nat : q = IF p = k THEN k + 1 ELSE p
  BY <1>1
<1>2. k + 1 <= q /\ q <= off + Chunk
  BY <1>q, ChunkBounds DEF BoundsInv
<1>a. req.lba + off + s = req.lba + k
  BY DEF BoundsInv
<1>3. IsOn(disk, D) /\ IsOn(buf, B)
  BY DEF BoundsInv
<1>4. CASE req.write
  <2> DEFINE a == req.lba + k
             new == [i \in D |-> IF i \in req.lba .. req.lba + q - 1
                                 THEN buf[i - req.lba] ELSE was[i]]
  <2>1. disk' = [disk EXCEPT ![a] = buf[k]] /\ buf' = buf
    BY <1>4, <1>a, Zenon DEF Move
  <2>2. disk = [i \in D |-> IF i \in req.lba .. req.lba + p - 1
                            THEN buf[i - req.lba] ELSE was[i]]
    BY <1>4 DEF Moved
  <2>3. a \in D /\ a - req.lba = k
    BY <1>1
  <2>4. \A i \in D : disk'[i] = new[i]
    <3>1. SUFFICES ASSUME NEW i \in D
                   PROVE  disk'[i] = IF i \in req.lba .. req.lba + q - 1
                                     THEN buf[i - req.lba] ELSE was[i]
      OBVIOUS
    <3>2. CASE i = a
      <4>1. disk'[i] = buf[k]
        BY <2>1, <2>2, <2>3, <3>2
      <4>2. i \in req.lba .. req.lba + q - 1
        BY <1>1, <1>2, <3>2
      <4> QED BY <2>3, <3>2, <4>1, <4>2
    <3>3. CASE i # a
      <4>1. disk'[i] = disk[i]
        BY <2>1, <2>2, <3>3
      <4>2. i \in req.lba .. req.lba + q - 1 <=> i \in req.lba .. req.lba + p - 1
        BY <1>1, <1>q, <3>3
      <4>3. disk[i] = IF i \in req.lba .. req.lba + p - 1 THEN buf[i - req.lba] ELSE was[i]
        BY <2>2
      <4> QED BY <4>1, <4>2, <4>3
    <3> QED BY <3>2, <3>3
  <2>5. IsOn(disk', D)
    BY <2>1, <2>2 DEF IsOn
  <2>6. disk' = new
    <3>1. [i \in D |-> disk'[i]] = [i \in D |-> new[i]]
      BY <2>4
    <3> QED BY <2>5, <3>1 DEF IsOn
  <2>7. Moved(q)'
    BY <1>4, <2>1, <2>6 DEF Moved
  <2> QED BY <1>2, <1>3, <2>1, <2>5, <2>7
<1>5. CASE ~req.write
  <2> DEFINE new == [i \in B |-> IF i < q THEN disk[req.lba + i] ELSE was[i]]
  <2>1. buf' = [buf EXCEPT ![k] = disk[req.lba + k]] /\ disk' = disk
    BY <1>5, <1>a, Zenon DEF Move
  <2>2. buf = [i \in B |-> IF i < p THEN disk[req.lba + i] ELSE was[i]]
    BY <1>5 DEF Moved
  <2>3. k \in B
    BY <1>1
  <2>4. \A i \in B : buf'[i] = new[i]
    <3>1. SUFFICES ASSUME NEW i \in B
                   PROVE  buf'[i] = IF i < q THEN disk[req.lba + i] ELSE was[i]
      OBVIOUS
    <3>2. CASE i = k
      BY <1>1, <1>2, <1>q, <2>1, <2>2, <2>3, <3>2
    <3>3. CASE i # k
      <4>1. buf'[i] = buf[i]
        BY <2>1, <2>2, <3>3
      <4>2. i < q <=> i < p
        BY <1>1, <1>q, <3>3
      <4> QED BY <2>2, <4>1, <4>2
    <3> QED BY <3>2, <3>3
  <2>5. IsOn(buf', B)
    BY <2>1, <2>2 DEF IsOn
  <2>6. buf' = new
    <3>1. [i \in B |-> buf'[i]] = [i \in B |-> new[i]]
      BY <2>4
    <3> QED BY <2>5, <3>1 DEF IsOn
  <2>7. Moved(q)'
    BY <1>5, <2>1, <2>6 DEF Moved
  <2> QED BY <1>2, <1>3, <2>1, <2>5, <2>7
<1> QED BY <1>4, <1>5 DEF BoundsInv

\* A sector moved leaves the disk and the buffer what they are.
LEMMA MoveKeeps ==
  ASSUME BoundsInv, Move(s), s < Chunk
  PROVE  IsOn(disk', 0 .. Sectors - 1) /\ IsOn(buf', 0 .. req.n - 1)
  BY ChunkBounds DEF BoundsInv, Move, IsOn

\* One step keeps the bounds.
LEMMA StepBounds ==
  ASSUME BoundsInv, [Next]_vars
  PROVE  BoundsInv'
<1>b. /\ req.write \in BOOLEAN /\ req.lba \in Nat /\ req.n \in Nat
      /\ req.lba + req.n <= Sectors /\ off \in Nat /\ off <= req.n /\ s \in Nat
      /\ calls \in Nat /\ unseen \in BOOLEAN
      /\ IsOn(disk, 0 .. Sectors - 1) /\ IsOn(buf, 0 .. req.n - 1)
  BY DEF BoundsInv
<1>c. Chunk \in Nat /\ off + Chunk <= req.n /\ (off < req.n => Chunk > 0)
  BY ChunkBounds
<1>k. req' = req /\ off' = off => Chunk' = Chunk
  BY DEF Chunk
<1>1. ASSUME NEW w \in BOOLEAN, NEW lba \in 0 .. Sectors - 1, NEW n \in Counts,
             Call(w, lba, n)
      PROVE  BoundsInv'
  <2>1. n \in Nat /\ Sectors \in Nat /\ lba \in Nat
    BY AtaAssumption
  <2>2. req'.write = w /\ req'.lba = lba /\ req'.n = n /\ lba + n <= Sectors
    BY <1>1 DEF Call
  <2>3. off' = 0 /\ s' = 0 /\ unseen' = FALSE /\ calls' = calls + 1 /\ disk' = disk
    BY <1>1 DEF Call
  <2>4. IsOn(buf', 0 .. n - 1)
    BY <1>1 DEF Call, IsOn
  <2>5. pc' = "idle" \/ (pc' = "chunk" /\ ret' = "none")
    BY <1>1 DEF Call, Return
  <2>6. (req.write \in BOOLEAN)' /\ (unseen \in BOOLEAN)'
    BY <2>2, <2>3, Zenon
  <2>7. IsOn(buf, 0 .. req.n - 1)' /\ IsOn(disk, 0 .. Sectors - 1)'
    BY <1>b, <2>2, <2>3, <2>4
  <2>8. /\ (req.lba \in Nat)' /\ (req.n \in Nat)' /\ (req.lba + req.n <= Sectors)'
        /\ (off \in Nat)' /\ (off <= req.n)' /\ (s \in Nat)' /\ (calls \in Nat)'
    BY <1>b, <2>1, <2>2, <2>3
  <2>9. /\ pc' \in Busy \cup {"idle"}
        /\ pc' \in Busy => ret' = "none"
        /\ pc' \notin InChunk /\ pc' \notin {"dmarun", "piorun"} /\ pc' \notin {"dma", "pio"}
    BY <2>5 DEF Busy, InChunk
  <2> QED BY <2>6, <2>7, <2>8, <2>9, Zenon DEF BoundsInv
<1>2. CASE NextChunk
  <2>1. pc = "chunk" /\ s' = 0 /\ UNCHANGED <<disk, buf, req, off, unseen, calls>>
    BY <1>2 DEF NextChunk
  <2>2. pc' = "idle" \/ (pc' = "dma" /\ ret' = ret /\ off # req.n)
    BY <1>2 DEF NextChunk, Return, Goto
  <2>3. ret = "none"
    BY <2>1 DEF BoundsInv, Busy
  <2> QED BY <1>b, <2>1, <2>2, <2>3 DEF BoundsInv, Busy, InChunk
<1>3. CASE DmaStart
  <2>1. pc = "dma" /\ ret' = ret /\ pc' \in {"dmarun", "pio"}
        /\ UNCHANGED <<disk, buf, req, off, s, unseen, calls>>
    BY <1>3 DEF DmaStart, Goto
  <2>2. ret = "none" /\ off < req.n /\ s = 0
    BY <2>1 DEF BoundsInv, Busy, InChunk
  <2> QED BY <1>b, <1>c, <1>k, <2>1, <2>2 DEF BoundsInv, Busy, InChunk
<1>4. CASE DmaMove \/ PioMove
  <2>1. pc \in {"dmarun", "piorun"} /\ s < Chunk /\ s' = s + 1 /\ Move(s)
        /\ UNCHANGED <<req, off, pc, ret, unseen, calls>>
    BY <1>4 DEF DmaMove, PioMove
  <2>2. IsOn(disk', 0 .. Sectors - 1) /\ IsOn(buf', 0 .. req.n - 1)
    BY <2>1, MoveKeeps
  <2>3. ret = "none" /\ off < req.n
    BY <2>1 DEF BoundsInv, Busy, InChunk
  <2> QED BY <1>b, <1>c, <1>k, <2>1, <2>2, <2>3 DEF BoundsInv, Busy, InChunk
<1>5. CASE DmaDone \/ PioDone
  <2>1. pc \in {"dmarun", "piorun"} /\ off' = off + Chunk /\ pc' = "chunk" /\ ret' = ret
        /\ UNCHANGED <<disk, buf, req, s, unseen, calls>>
    BY <1>5 DEF DmaDone, PioDone, ChunkDone, Goto
  <2>2. ret = "none"
    BY <2>1 DEF BoundsInv, Busy
  <2> QED BY <1>b, <1>c, <2>1, <2>2 DEF BoundsInv, Busy, InChunk
<1>6. CASE DmaFail
  <2>1. pc = "dmarun" /\ pc' = "pio" /\ ret' = ret /\ s' = 0
        /\ UNCHANGED <<disk, buf, req, off, unseen, calls>>
    BY <1>6 DEF DmaFail, Goto
  <2>2. ret = "none" /\ off < req.n
    BY <2>1 DEF BoundsInv, Busy, InChunk
  <2> QED BY <1>b, <2>1, <2>2 DEF BoundsInv, Busy, InChunk
<1>7. CASE PioStart
  <2>1. pc = "pio" /\ (pc' = "idle" \/ (pc' = "piorun" /\ ret' = ret))
        /\ UNCHANGED <<disk, buf, req, off, s, unseen, calls>>
    BY <1>7 DEF PioStart, Goto, Return
  <2>2. ret = "none" /\ off < req.n /\ s = 0
    BY <2>1 DEF BoundsInv, Busy, InChunk
  <2> QED BY <1>b, <1>c, <1>k, <2>1, <2>2 DEF BoundsInv, Busy, InChunk
<1>8. CASE PioFail
  <2>1. pc' = "idle" /\ s < Chunk /\ UNCHANGED <<req, off, s, unseen, calls>>
        /\ (Move(s) \/ UNCHANGED <<disk, buf>>)
    BY <1>8 DEF PioFail, Return
  <2>2. IsOn(disk', 0 .. Sectors - 1) /\ IsOn(buf', 0 .. req.n - 1)
    BY <1>b, <2>1, MoveKeeps
  <2> QED BY <1>b, <2>1, <2>2 DEF BoundsInv, Busy, InChunk
<1>9. CASE LateError
  <2>1. pc \in {"dmarun", "piorun"} /\ s' = Chunk /\ unseen' = TRUE
        /\ UNCHANGED <<disk, buf, req, off, pc, ret, calls>>
    BY <1>9 DEF LateError
  <2>2. ret = "none" /\ off < req.n
    BY <2>1 DEF BoundsInv, Busy, InChunk
  <2> QED BY <1>b, <1>c, <1>k, <2>1, <2>2 DEF BoundsInv, Busy, InChunk
<1>10. CASE UNCHANGED vars
  BY <1>10, <1>k DEF vars, BoundsInv
<1> QED
  BY <1>1, <1>2, <1>3, <1>4, <1>5, <1>6, <1>7, <1>8, <1>9, <1>10 DEF Next, Step

\* One step keeps what has been moved a prefix.
LEMMA StepProgress ==
  ASSUME BoundsInv, ProgressInv, [Next]_vars
  PROVE  ProgressInv'
<1> SUFFICES ASSUME ~unseen' PROVE ProgressInv'
  BY DEF ProgressInv
<1>b. /\ req.write \in BOOLEAN /\ req.lba \in Nat /\ req.n \in Nat
      /\ off \in Nat /\ off <= req.n /\ s \in Nat
  BY DEF BoundsInv
<1>c. Chunk \in Nat /\ off + Chunk <= req.n
  BY ChunkBounds
<1>k. req' = req /\ off' = off => Chunk' = Chunk
  BY DEF Chunk
<1>m. ASSUME UNCHANGED <<disk, buf, req, was>>
      PROVE  \A p : Moved(p)' <=> Moved(p)
  BY <1>m DEF Moved
<1>1. ASSUME NEW w \in BOOLEAN, NEW lba \in 0 .. Sectors - 1, NEW n \in Counts,
             Call(w, lba, n)
      PROVE  ProgressInv'
  <2>1. n \in Nat /\ lba \in Nat /\ Sectors \in Nat
    BY AtaAssumption
  <2>2. /\ req'.write = w /\ req'.lba = lba /\ req'.n = n /\ off' = 0 /\ disk' = disk
        /\ was' = IF w THEN disk ELSE buf'
        /\ (pc' = "idle" /\ ret' = "err") \/ pc' = "chunk"
    BY <1>1 DEF Call, Return
  <2>3. IsOn(disk, 0 .. Sectors - 1) /\ IsOn(buf', 0 .. n - 1)
    BY <1>1 DEF BoundsInv, Call, IsOn
  <2>4. \A z : z = 0 => Moved(z)'
    <3>1. CASE w
      <4>1. \A i \in 0 .. Sectors - 1 : i \notin lba .. lba + 0 - 1
        BY <2>1
      <4> QED BY <2>2, <2>3, <3>1, <4>1 DEF Moved, IsOn
    <3>2. CASE ~w
      <4>1. \A i \in 0 .. n - 1 : ~(i < 0)
        BY <2>1
      <4> QED BY <2>2, <2>3, <3>2, <4>1 DEF Moved, IsOn
    <3> QED BY <3>1, <3>2
  <2>5. Moved(off)'
    <3>1. \A z : z = off' => Moved(z)'
      BY <2>2, <2>4
    <3> QED BY <3>1 DEF Moved
  <2> QED BY <2>1, <2>2, <2>4, <2>5 DEF ProgressInv
<1>2. CASE NextChunk
  <2>1. pc = "chunk" /\ ~unseen /\ UNCHANGED <<disk, buf, req, was, off>>
    BY <1>2 DEF NextChunk
  <2>2. (pc' = "idle" /\ off = req.n) \/ pc' = "dma"
    BY <1>2 DEF NextChunk, Return, Goto
  <2>3. Moved(off)
    BY <2>1 DEF ProgressInv
  <2>4. Moved(off)'
    BY <2>1, <2>3 DEF Moved
  <2>5. off \in 0 .. req.n
    BY <1>b
  <2> QED BY <1>m, <2>1, <2>2, <2>3, <2>4, <2>5 DEF ProgressInv
<1>3. CASE DmaStart
  <2>1. pc = "dma" /\ ~unseen /\ pc' \in {"dmarun", "pio"}
        /\ UNCHANGED <<disk, buf, req, was, off, s>>
    BY <1>3 DEF DmaStart, Goto
  <2>2. s = 0 /\ Moved(off)
    BY <2>1 DEF ProgressInv, BoundsInv
  <2>3. off + s <= off /\ off <= off + Chunk
    BY <1>b, <1>c, <2>2
  <2> QED BY <1>b, <1>k, <1>m, <2>1, <2>2, <2>3 DEF ProgressInv
<1>4. CASE DmaMove \/ PioMove
  <2>1. pc \in {"dmarun", "piorun"} /\ ~unseen /\ s < Chunk /\ s' = s + 1 /\ Move(s)
        /\ UNCHANGED <<req, was, off, pc>>
    BY <1>4 DEF DmaMove, PioMove
  <2>2. PICK p \in Nat : off + s <= p /\ p <= off + Chunk /\ Moved(p)
    BY <2>1 DEF ProgressInv
  <2>3. PICK q \in Nat : off + s + 1 <= q /\ q <= off + Chunk /\ Moved(q)'
    BY <2>1, <2>2, MoveOne
  <2>4. off' + s' <= q /\ q <= off' + Chunk'
    BY <1>b, <1>k, <2>1, <2>3
  <2> QED BY <2>1, <2>3, <2>4 DEF ProgressInv
<1>5. CASE DmaDone \/ PioDone
  <2>1. pc \in {"dmarun", "piorun"} /\ ~unseen /\ s = Chunk /\ off' = off + Chunk
        /\ pc' = "chunk" /\ UNCHANGED <<disk, buf, req, was>>
    BY <1>5 DEF DmaDone, PioDone, ChunkDone, Goto
  <2>2. PICK p \in Nat : off + s <= p /\ p <= off + Chunk /\ Moved(p)
    BY <2>1 DEF ProgressInv
  <2>3. p = off'
    BY <1>b, <1>c, <2>1, <2>2
  <2>4. Moved(off)'
    BY <2>1, <2>2, <2>3 DEF Moved
  <2> QED BY <2>1, <2>4 DEF ProgressInv
<1>6. CASE DmaFail
  <2>1. pc = "dmarun" /\ ~unseen /\ pc' = "pio" /\ s' = 0
        /\ UNCHANGED <<disk, buf, req, was, off>>
    BY <1>6 DEF DmaFail, Goto
  <2>2. PICK p \in Nat : off + s <= p /\ p <= off + Chunk /\ Moved(p)
    BY <2>1 DEF ProgressInv
  <2>3. off' + s' <= p /\ p <= off' + Chunk'
    BY <1>b, <1>k, <2>1, <2>2
  <2> QED BY <1>m, <2>1, <2>2, <2>3 DEF ProgressInv
<1>7. CASE PioStart
  <2>1. pc = "pio" /\ ~unseen /\ ((pc' = "idle" /\ ret' = "err") \/ pc' = "piorun")
        /\ UNCHANGED <<disk, buf, req, was, off, s>>
    BY <1>7 DEF PioStart, Goto, Return
  <2>2. PICK p \in Nat : off + s <= p /\ p <= off + Chunk /\ Moved(p)
    BY <2>1 DEF ProgressInv
  <2>3. p \in 0 .. req.n
    BY <1>b, <1>c, <2>2
  <2> QED BY <1>k, <1>m, <2>1, <2>2, <2>3 DEF ProgressInv
<1>8. CASE PioFail
  <2>1. pc = "piorun" /\ ~unseen /\ s < Chunk /\ pc' = "idle" /\ ret' = "err"
        /\ UNCHANGED <<req, was, off, s>> /\ (Move(s) \/ UNCHANGED <<disk, buf>>)
    BY <1>8 DEF PioFail, Return
  <2>2. PICK p \in Nat : off + s <= p /\ p <= off + Chunk /\ Moved(p)
    BY <2>1 DEF ProgressInv
  <2>3. \E q \in Nat : q <= off + Chunk /\ Moved(q)'
    <3>1. CASE Move(s)
      BY <2>1, <2>2, <3>1, MoveOne
    <3>2. CASE UNCHANGED <<disk, buf>>
      BY <1>m, <2>1, <2>2, <3>2
    <3> QED BY <2>1, <3>1, <3>2
  <2>4. PICK q \in Nat : q <= off + Chunk /\ Moved(q)'
    BY <2>3
  <2>5. q \in 0 .. req'.n
    BY <1>b, <1>c, <2>1, <2>4
  <2> QED BY <2>1, <2>4, <2>5 DEF ProgressInv
<1>9. ~LateError
  BY DEF LateError
<1>10. CASE UNCHANGED vars
  BY <1>10 DEF vars, ProgressInv, Moved, Chunk
<1> QED
  BY <1>1, <1>2, <1>3, <1>4, <1>5, <1>6, <1>7, <1>8, <1>9, <1>10 DEF Next, Step

\* Nothing is asked for at first.
LEMMA InitTransfer == Init => BoundsInv /\ ProgressInv
<1> SUFFICES ASSUME Init PROVE BoundsInv /\ ProgressInv
  OBVIOUS
<1>1. /\ req.write = FALSE /\ req.lba = 0 /\ req.n = 0 /\ off = 0 /\ s = 0 /\ pc = "idle"
      /\ ret = "none" /\ unseen = FALSE /\ calls = 0 /\ Sectors \in Nat
  BY AtaAssumption DEF Init
<1>2. IsOn(disk, 0 .. Sectors - 1)
  BY DEF Init, IsOn
<1>3. 0 .. req.n - 1 = {}
  BY <1>1
<1>4. \A e : buf = [i \in {} |-> e]
  BY DEF Init
<1>5. IsOn(buf, 0 .. req.n - 1)
  BY <1>3, <1>4 DEF IsOn
<1>6. Moved(0)
  BY <1>1, <1>3, <1>4 DEF Moved
<1>7. 0 \in 0 .. req.n
  BY <1>1
<1>8. req.write \in BOOLEAN /\ unseen \in BOOLEAN
  BY <1>1, Zenon
<1>9. /\ req.lba \in Nat /\ req.n \in Nat /\ req.lba + req.n <= Sectors
      /\ off \in Nat /\ off <= req.n /\ s \in Nat /\ calls \in Nat
  BY <1>1
<1>10. /\ pc \in Busy \cup {"idle"} /\ pc \notin Busy /\ pc \notin InChunk
       /\ pc \notin {"dmarun", "piorun"} /\ pc \notin {"dma", "pio"}
  BY <1>1 DEF Busy, InChunk
<1>11. BoundsInv
  BY <1>2, <1>5, <1>8, <1>9, <1>10, Zenon DEF BoundsInv
<1>12. ProgressInv
  <2>1. pc \notin {"chunk", "dma"} /\ pc \notin {"dmarun", "pio", "piorun"} /\ ret # "ok"
    BY <1>1
  <2> QED BY <1>6, <1>7, <2>1, Zenon DEF ProgressInv
<1> QED BY <1>11, <1>12

\* Through chunks, DMA, errors, time-outs and the second attempt by programmed
\* I/O, a transfer at every moment has moved a prefix of the sectors asked for,
\* each to its own place, and all of them when it reports success, unless the
\* drive had an error that the driver does not look at.
THEOREM TransferExactHolds == Spec => []TransferExact
<1>1. BoundsInv /\ ProgressInv /\ [Next]_vars => BoundsInv' /\ ProgressInv'
  BY StepBounds, StepProgress
<1>2. BoundsInv /\ ProgressInv => TransferExact
  <2> SUFFICES ASSUME BoundsInv, ProgressInv, ~unseen
               PROVE  \E p \in 0 .. req.n : Moved(p) /\ (ret = "ok" => p = req.n)
    BY DEF TransferExact
  <2>1. CASE pc = "idle"
    BY <2>1 DEF ProgressInv
  <2>2. CASE pc \in {"chunk", "dma"}
    <3>1. Moved(off) /\ off \in 0 .. req.n /\ ret = "none"
      BY <2>2 DEF ProgressInv, BoundsInv, Busy
    <3> QED BY <3>1
  <2>3. CASE pc \in {"dmarun", "pio", "piorun"}
    <3>1. PICK p \in Nat : off + s <= p /\ p <= off + Chunk /\ Moved(p)
      BY <2>3 DEF ProgressInv
    <3>2. p \in 0 .. req.n /\ ret = "none"
      BY <2>3, <3>1, ChunkBounds DEF BoundsInv, Busy
    <3> QED BY <3>1, <3>2
  <2> QED BY <2>1, <2>2, <2>3 DEF BoundsInv, Busy
<1> QED BY <1>1, <1>2, InitTransfer, PTL DEF Spec
=============================================================================
