------------------------------- MODULE AtaDisk -------------------------------
(***************************************************************************)
(* A transfer of sectors, from the block layer to the drive: ext4's block   *)
(* I/O asks for a run of sectors (fs/ext4/io.c), the block layer cuts it    *)
(* into chunks (block/blkdev.c), the driver tries DMA for each and falls    *)
(* back to programmed I/O, sector by sector (drivers/ata).  The drive is    *)
(* external: a wait for it ends well, with an error, or not in time.        *)
(*                                                                          *)
(* The other modules rest on what is shown here: a transfer that fails has  *)
(* moved the sectors of a prefix and no other.                              *)
(***************************************************************************)
EXTENDS Integers, FiniteSets

CONSTANTS
    Sectors,    \* sectors of the disk
    Counts,     \* lengths asked for
    MaxChunk,   \* 255, the sectors of one command
    DmaMax,     \* 128 sectors, the 64 KB of one PRD entry
    MaxCalls, MaxFaults

ASSUME AtaAssumption ==
    /\ Sectors \in Nat /\ Counts \subseteq Nat
    /\ MaxChunk \in Nat \ {0} /\ DmaMax \in Nat
    /\ MaxCalls \in Nat /\ MaxFaults \in Nat

VARIABLES
    disk,       \* the sectors
    buf,        \* the caller's buffer
    dma,        \* g_ata_dma_available
    req,        \* the call: direction, first sector, count
    off,        \* sectors of the chunks done
    s,          \* sectors moved of this chunk, by this attempt
    pc, ret,
    was,        \* ghost: what the transfer replaces, as it was before the call
    unseen,     \* ghost: an error nobody looked at
    calls, faults

vars == <<disk, buf, dma, req, off, s, pc, ret, was, unseen, calls, faults>>

Chunk == IF req.n - off > MaxChunk THEN MaxChunk ELSE req.n - off

\* ata_init looks for a bus master, and may find none.
Probed == BOOLEAN

Init ==
    /\ disk = [i \in 0 .. Sectors - 1 |-> <<0, i>>]
    /\ buf = <<>> /\ was = <<>>
    /\ dma \in Probed
    /\ req = [write |-> FALSE, lba |-> 0, n |-> 0]
    /\ off = 0 /\ s = 0 /\ pc = "idle" /\ ret = "none"
    /\ unseen = FALSE /\ calls = 0 /\ faults = 0

Fault == faults < MaxFaults /\ faults' = faults + 1
Ok == UNCHANGED faults
Goto(p) == pc' = p /\ UNCHANGED ret
Return(r) == pc' = "idle" /\ ret' = r
-------------------------------------------------------------------------------
\* ext4_read_blocks, ext4_write_blocks.  What is written is new with each call.
Call(w, lba, n) ==
    /\ pc = "idle" /\ calls < MaxCalls /\ calls' = calls + 1
    /\ lba + n <= Sectors
    /\ req' = [write |-> w, lba |-> lba, n |-> n]
    /\ buf' = [i \in 0 .. n - 1 |-> <<IF w THEN calls + 1 ELSE 0, -1 - i>>]
    /\ was' = IF w THEN disk ELSE buf'
    /\ off' = 0 /\ s' = 0 /\ unseen' = FALSE
    /\ IF n = 0 THEN Return("err") ELSE pc' = "chunk" /\ ret' = "none"
    /\ UNCHANGED <<disk, dma, faults>>

\* The block layer's loop.
NextChunk ==
    /\ pc = "chunk"
    /\ s' = 0
    /\ IF off = req.n THEN Return("ok") ELSE Goto("dma")
    /\ UNCHANGED <<disk, buf, dma, req, off, was, unseen, calls, faults>>

ChunkDone ==
    /\ off' = off + Chunk
    /\ Goto("chunk")

\* One sector of the chunk between buffer and disk.
Move(i) ==
    IF req.write
    THEN disk' = [disk EXCEPT ![req.lba + off + i] = buf[off + i]] /\ UNCHANGED buf
    ELSE buf' = [buf EXCEPT ![off + i] = disk[req.lba + off + i]] /\ UNCHANGED disk

\* ata_dma_rw: not for a chunk that is too long, nor for a drive that stays busy.
DmaStart ==
    /\ pc = "dma"
    /\ \/ dma /\ Chunk <= DmaMax /\ Goto("dmarun") /\ Ok
       \/ ~dma /\ Goto("pio") /\ Ok
       \/ Chunk > DmaMax /\ Goto("pio") /\ Ok
       \/ dma /\ Chunk <= DmaMax /\ Goto("pio") /\ Fault
    /\ UNCHANGED <<disk, buf, dma, req, off, s, was, unseen, calls>>

DmaMove ==
    /\ pc = "dmarun" /\ s < Chunk
    /\ Move(s) /\ s' = s + 1
    /\ UNCHANGED <<dma, req, off, pc, ret, was, unseen, calls, faults>>

DmaDone ==
    /\ pc = "dmarun" /\ s = Chunk
    /\ ChunkDone
    /\ UNCHANGED <<disk, buf, dma, req, s, was, unseen, calls, faults>>

\* Mutant: a transfer that ends early is taken for complete.
DmaFail_Ignored ==
    /\ pc = "dmarun" /\ Fault
    /\ ChunkDone
    /\ UNCHANGED <<disk, buf, dma, req, s, was, unseen, calls>>

\* The bus master reports an error, does not end in time, or the drive has an
\* error: the whole chunk is tried again by programmed I/O.
DmaFail ==
    /\ pc = "dmarun" /\ Fault
    /\ Goto("pio") /\ s' = 0
    /\ UNCHANGED <<disk, buf, dma, req, off, was, unseen, calls>>

PioStart ==
    /\ pc = "pio"
    /\ \/ Goto("piorun") /\ Ok
       \/ Fault /\ Return("err")
    /\ UNCHANGED <<disk, buf, dma, req, off, s, was, unseen, calls>>

\* The drive asks for data, a sector is moved and, when written, waited for.
PioMove ==
    /\ pc = "piorun" /\ s < Chunk
    /\ Move(s) /\ s' = s + 1
    /\ UNCHANGED <<dma, req, off, pc, ret, was, unseen, calls, faults>>

PioDone ==
    /\ pc = "piorun" /\ s = Chunk
    /\ ChunkDone
    /\ UNCHANGED <<disk, buf, dma, req, s, was, unseen, calls, faults>>

\* No data asked for, or the sector just written not done in time: it may be on
\* the disk.
PioFail ==
    /\ pc = "piorun" /\ s < Chunk /\ Fault
    /\ Return("err")
    /\ (req.write /\ Move(s)) \/ UNCHANGED <<disk, buf>>
    /\ UNCHANGED <<dma, req, off, s, was, unseen, calls>>

\* After the last sector, and while the drive is still busy after DMA, nobody
\* looks at the error bit: a sector the drive has taken and cannot write is
\* reported as written.
LateError ==
    /\ req.write /\ s = Chunk - 1 /\ pc \in {"piorun", "dmarun"} /\ Fault
    /\ s' = Chunk /\ unseen' = TRUE
    /\ UNCHANGED <<disk, buf, dma, req, off, pc, ret, was, calls>>

Step ==
    \/ NextChunk \/ DmaStart \/ DmaMove \/ DmaDone \/ DmaFail
    \/ PioStart \/ PioMove \/ PioDone \/ PioFail \/ LateError

Next ==
    \/ \E w \in BOOLEAN, lba \in 0 .. Sectors - 1, n \in Counts : Call(w, lba, n)
    \/ Step

Spec == Init /\ [][Next]_vars
-------------------------------------------------------------------------------
\* The first p sectors asked for are moved, the others are as they were.
Moved(p) ==
    IF req.write
    THEN disk = [i \in 0 .. Sectors - 1 |->
                    IF i \in req.lba .. req.lba + p - 1 THEN buf[i - req.lba] ELSE was[i]]
    ELSE buf = [i \in 0 .. req.n - 1 |->
                    IF i < p THEN disk[req.lba + i] ELSE was[i]]

\* Through chunks, DMA, errors, time-outs and the second attempt by programmed
\* I/O, a transfer at every moment has moved a prefix of the sectors asked for,
\* each to its own place, and no other sector; when it reports success it has
\* moved them all.  The exception is an error the driver does not look at.
TransferExact ==
    ~unseen =>
        \E p \in 0 .. req.n : Moved(p) /\ (ret = "ok" => p = req.n)
===============================================================================
