-------------------------- MODULE LogWriterProofs --------------------------
(***************************************************************************)
(* What the WAL writer guarantees, proved for any block size, any number    *)
(* of blocks and of slots of the sync queue, any records and any failures.  *)
(*                                                                          *)
(* The units of the stream are consecutive numbers, so a piece of it is     *)
(* known by where it starts and how long it is.  The inductive invariant    *)
(* IInv follows the pieces from the committer's block through pending,      *)
(* grabbed and data to the file, each starting where the one before it      *)
(* ends, as long as no call of the file failed.                             *)
(***************************************************************************)
EXTENDS LogWriter, SequenceTheorems, TLAPS

USE BlockAssumption, SyncAssumption, RecordAssumption, UnitsAssumption

-----------------------------------------------------------------------------
(* The inductive invariant.                                                *)

BlockType == [buf : Seq(Nat), flushed : Nat]
AckType == [end : Nat, err : BOOLEAN]

IType ==
  /\ wpc \in {"idle", "emit", "alloc", "queue", "push", "signal", "close", "join", "closed"}
  /\ fpc \in {"check", "register", "unlock", "wait", "grabSync", "grabData", "blocks", "sync", "pop",
              "popErr", "exited"}
  /\ emitted \in Nat /\ left \in Nat
  /\ sync \in BOOLEAN /\ closeErr \in BOOLEAN /\ closing \in BOOLEAN
  /\ ferr \in BOOLEAN /\ err \in BOOLEAN
  /\ block \in BlockType
  /\ pending \in Seq(BlockType) /\ grabbed \in Seq(BlockType)
  /\ syncQ \in Seq(Nat) /\ data \in Seq(Nat) /\ file \in Seq(Nat)
  /\ take \in Nat /\ signal \in Nat /\ durable \in Nat
  /\ acks \in Seq(AckType)

(* Where the stream has the last unit of a full block. *)
End(b) == b.buf[BlockSize]

(* A full block holds consecutive units, of which the first ones are flushed. *)
FullBlock(b) ==
  /\ Len(b.buf) = BlockSize
  /\ b.flushed <= BlockSize
  /\ BlockSize <= End(b)
  /\ \A i \in 1 .. BlockSize : b.buf[i] = End(b) - BlockSize + i

(* Full blocks that follow one another, the first of which may be partly flushed. *)
Consecutive(q) ==
  /\ \A k \in 1 .. Len(q) : FullBlock(q[k])
  /\ \A k \in 1 .. Len(q) - 1 : End(q[k + 1]) = End(q[k]) + BlockSize
  /\ \A k \in 2 .. Len(q) : q[k].flushed = 0

(* The committer's block ends in the unit emitted last, and follows the pending blocks. *)
IBlocks ==
  /\ Len(block.buf) <= BlockSize
  /\ wpc \in {"idle", "push", "signal"} => Len(block.buf) < BlockSize
  /\ wpc \in {"alloc", "queue"} => Len(block.buf) = BlockSize
  /\ Len(block.buf) <= emitted
  /\ block.flushed <= Len(block.buf)
  /\ \A i \in 1 .. Len(block.buf) : block.buf[i] = emitted - Len(block.buf) + i
  /\ Consecutive(pending)
  /\ pending # <<>> => block.flushed = 0 /\ End(pending[Len(pending)]) = emitted - Len(block.buf)

(* How many units the flush loop has taken from the committer. *)
Taken ==
  IF pending = <<>> THEN emitted - Len(block.buf) + block.flushed
                    ELSE End(pending[1]) - BlockSize + pending[1].flushed

(* What the flush loop took follows the file, and nothing lies between it and Taken. *)
IStream ==
  /\ \A i \in 1 .. Len(file) : file[i] = i
  /\ durable <= Len(file)
  /\ fpc = "grabData" => pending = <<>>
  /\ ~ferr /\ ~err =>
       /\ fpc \in {"check", "register", "unlock", "wait", "grabSync", "sync", "pop", "exited"} =>
            Len(file) = Taken
       /\ fpc \in {"grabData", "blocks"} =>
            /\ Consecutive(grabbed)
            /\ grabbed # <<>> => End(grabbed[1]) - BlockSize + grabbed[1].flushed = Len(file)
       /\ fpc = "grabData" =>
            IF grabbed = <<>> THEN Len(file) = Taken
            ELSE block.flushed = 0 /\ End(grabbed[Len(grabbed)]) = Taken
       /\ fpc = "blocks" =>
            /\ Taken = Len(data) + (IF grabbed = <<>> THEN Len(file) ELSE End(grabbed[Len(grabbed)]))
            /\ \A i \in 1 .. Len(data) : data[i] = Taken - Len(data) + i

(* Errors: err lives in flushPending and becomes ferr, which stays. *)
IErrors ==
  /\ err => fpc \in {"sync", "pop"}
  /\ ferr => fpc \notin {"blocks", "sync", "pop"}
  /\ fpc = "popErr" => ferr
  /\ \A i \in 1 .. Len(acks) : acks[i].err => err \/ ferr
  /\ \A i, j \in 1 .. Len(acks) : i < j /\ acks[i].err => acks[j].err

Recording == wpc \in {"emit", "alloc", "queue", "push"}

(* The waiters are ordered by the ends of their records, before the current record. *)
IOrder ==
  /\ \A i \in 1 .. Len(acks) : acks[i].end <= emitted
  /\ signal <= emitted
  /\ \A i \in 1 .. Len(syncQ) : syncQ[i] <= emitted
  /\ wpc = "push" => left = 0 /\ sync
  /\ wpc = "emit" => left > 0
  /\ Recording =>
       /\ \A i \in 1 .. Len(acks) : acks[i].end < emitted + left
       /\ signal < emitted + left
       /\ \A i \in 1 .. Len(syncQ) : syncQ[i] < emitted + left
  /\ \A i, j \in 1 .. Len(acks) : i < j => acks[i].end < acks[j].end
  /\ \A i, j \in 1 .. Len(syncQ) : i < j => syncQ[i] < syncQ[j]
  /\ signal # 0 => \A i \in 1 .. Len(acks) : acks[i].end < signal
  /\ signal # 0 => \A i \in 1 .. Len(syncQ) : signal < syncQ[i]
  /\ \A i \in 1 .. Len(acks), j \in 1 .. Len(syncQ) : acks[i].end < syncQ[j]
  /\ \A i \in 1 .. Len(syncQ) : 0 < syncQ[i]

(* The waiters the flush loop loaded are the first ones, and their records are taken, then durable. *)
ITake ==
  /\ signal # 0 => fpc \in {"pop", "popErr"} /\ take > 0
  /\ fpc \in {"grabData", "blocks", "sync", "pop", "popErr"} => take <= Outstanding
  /\ fpc \in {"blocks", "sync"} => \A i \in 1 .. take : syncQ[i] <= Taken
  /\ fpc = "pop" /\ ~err =>
       /\ signal <= durable
       /\ \A i \in 1 .. (IF signal = 0 THEN take ELSE take - 1) : syncQ[i] <= durable
  /\ \A i \in 1 .. Len(acks) : ~acks[i].err => acks[i].end <= durable

(* The pipeline's semaphore leaves a slot to the current record. *)
IRoom ==
  /\ Outstanding <= SyncConcurrency
  /\ Recording /\ sync => Outstanding < SyncConcurrency

(* The flush loop exits when all is flushed and nobody waits, after Close. *)
IClose ==
  /\ closing => wpc \in {"join", "closed"}
  /\ fpc = "exited" => closing /\ syncQ = <<>> /\ signal = 0 /\ pending = <<>> /\ Len(block.buf) = block.flushed
  /\ wpc = "closed" => fpc = "exited"
  /\ wpc = "closed" /\ ~closeErr => durable = emitted

IInv == IType /\ IBlocks /\ IStream /\ IErrors /\ IOrder /\ ITake /\ IRoom /\ IClose

-----------------------------------------------------------------------------
(* The types of the elements of the sequences. *)
LEMMA BlockElements ==
  ASSUME NEW b \in BlockType
  PROVE  /\ b.buf \in Seq(Nat) /\ b.flushed \in Nat /\ Len(b.buf) \in Nat
         /\ \A i \in 1 .. Len(b.buf) : b.buf[i] \in Nat
         /\ FullBlock(b) => End(b) \in Nat
<1>1. b.buf \in Seq(Nat) /\ b.flushed \in Nat /\ Len(b.buf) \in Nat
  BY DEF BlockType
<1>2. \A i \in 1 .. Len(b.buf) : b.buf[i] \in Nat
  BY <1>1, ElementOfSeq
<1>3. FullBlock(b) => End(b) \in Nat
  BY <1>2 DEF FullBlock, End
<1> QED BY <1>1, <1>2, <1>3

LEMMA Elements ==
  ASSUME IType
  PROVE  /\ Len(acks) \in Nat /\ Len(syncQ) \in Nat /\ Len(file) \in Nat /\ Len(data) \in Nat
         /\ Len(pending) \in Nat /\ Len(grabbed) \in Nat /\ Len(block.buf) \in Nat /\ block.flushed \in Nat
         /\ pending = <<>> <=> Len(pending) = 0
         /\ grabbed = <<>> <=> Len(grabbed) = 0
         /\ \A i \in 1 .. Len(acks) : acks[i].end \in Nat /\ acks[i].err \in BOOLEAN
         /\ \A i \in 1 .. Len(syncQ) : syncQ[i] \in Nat
         /\ \A i \in 1 .. Len(pending) : pending[i] \in BlockType
         /\ \A i \in 1 .. Len(grabbed) : grabbed[i] \in BlockType
<1>1. \A i \in 1 .. Len(acks) : acks[i].end \in Nat /\ acks[i].err \in BOOLEAN
  <2>1. \A i \in 1 .. Len(acks) : acks[i] \in AckType
    BY ElementOfSeq DEF IType
  <2> QED BY <2>1 DEF AckType
<1>2. \A i \in 1 .. Len(syncQ) : syncQ[i] \in Nat
  BY ElementOfSeq DEF IType
<1>3. /\ \A i \in 1 .. Len(pending) : pending[i] \in BlockType
      /\ \A i \in 1 .. Len(grabbed) : grabbed[i] \in BlockType
  BY ElementOfSeq DEF IType
<1>4. Len(block.buf) \in Nat /\ block.flushed \in Nat
  BY BlockElements DEF IType
<1>5. /\ Len(acks) \in Nat /\ Len(syncQ) \in Nat /\ Len(file) \in Nat /\ Len(data) \in Nat
      /\ Len(pending) \in Nat /\ Len(grabbed) \in Nat
      /\ pending = <<>> <=> Len(pending) = 0
      /\ grabbed = <<>> <=> Len(grabbed) = 0
  BY DEF IType
<1> QED BY <1>1, <1>2, <1>3, <1>4, <1>5

-----------------------------------------------------------------------------
(* The parts of the invariant under steps that leave what they speak of alone. *)

LEMMA SameBlocks ==
  ASSUME IBlocks, UNCHANGED <<emitted, block, pending>>,
         wpc' = wpc \/ wpc' \notin {"idle", "push", "signal", "alloc", "queue"}
                    \/ {wpc, wpc'} \subseteq {"idle", "push", "signal"}
                    \/ {wpc, wpc'} \subseteq {"alloc", "queue"}
  PROVE  IBlocks'
  BY DEF IBlocks, Consecutive, FullBlock, End

LEMMA SameStream ==
  ASSUME IStream, UNCHANGED <<emitted, block, pending, file, durable, fpc, ferr, err, grabbed, data>>
  PROVE  IStream'
  BY DEF IStream, Consecutive, FullBlock, End, Taken

LEMMA SameErrors ==
  ASSUME IErrors, UNCHANGED <<fpc, ferr, err, acks>>
  PROVE  IErrors'
  BY DEF IErrors

LEMMA SameOrder ==
  ASSUME IOrder, UNCHANGED <<emitted, left, sync, acks, signal, syncQ>>,
         wpc' = wpc \/ wpc' \notin {"emit", "alloc", "queue", "push"} \/ (wpc = "alloc" /\ wpc' = "queue")
  PROVE  IOrder'
  BY DEF IOrder, Recording

LEMMA SameTake ==
  ASSUME ITake, UNCHANGED <<fpc, err, take, signal, syncQ, durable, acks, Taken>>
  PROVE  ITake'
  BY DEF ITake, Outstanding

LEMMA SameRoom ==
  ASSUME IRoom, UNCHANGED <<sync, signal, syncQ>>, Recording' => Recording
  PROVE  IRoom'
  BY DEF IRoom, Outstanding

LEMMA SameTaken ==
  ASSUME UNCHANGED <<emitted, block, pending>>
  PROVE  UNCHANGED Taken
  BY DEF Taken, End

-----------------------------------------------------------------------------
(* The committer.                                                          *)

LEMMA SyncRecordStep ==
  ASSUME IInv, NEW n \in RecordSizes, NEW withSync \in BOOLEAN, SyncRecord(n, withSync)
  PROVE  IInv'
<1> USE DEF SyncRecord, blockVars, condVars, loopVars, fileVars
<1>1. IType'
  BY DEF IInv, IType
<1>2. IBlocks' /\ IStream' /\ IErrors' /\ ITake'
  BY SameBlocks, SameStream, SameErrors, SameTaken, SameTake DEF IInv
<1>3. IOrder'
  <2>1. n \in Nat /\ n > 0 /\ emitted \in Nat /\ signal \in Nat
    BY DEF IInv, IType
  <2>2. /\ \A i \in 1 .. Len(acks) : acks[i].end < emitted + n
        /\ signal < emitted + n
        /\ \A i \in 1 .. Len(syncQ) : syncQ[i] < emitted + n
    BY <2>1, Elements DEF IInv, IOrder
  <2> QED BY <2>1, <2>2 DEF IInv, IOrder
<1>4. IRoom'
  BY DEF IInv, IRoom, Recording, Outstanding
<1>5. IClose'
  BY DEF IInv, IClose
<1> QED BY <1>1, <1>2, <1>3, <1>4, <1>5 DEF IInv

(* Emit appends the next units to the block, and takes nothing from it. *)
LEMMA EmitBlock ==
  ASSUME IInv, NEW n \in Nat, Emit(n)
  PROVE  /\ block' \in BlockType
         /\ Len(block'.buf) = Len(block.buf) + n
         /\ block'.flushed = block.flushed
         /\ emitted' = emitted + n
         /\ \A i \in 1 .. Len(block'.buf) : block'.buf[i] = emitted' - Len(block'.buf) + i
<1> DEFINE new == [i \in 1 .. n |-> emitted + i]
<1>1. block.buf \in Seq(Nat) /\ block.flushed \in Nat /\ emitted \in Nat
  BY DEF IInv, IType, BlockType
<1>2. new \in Seq(Nat) /\ Len(new) = n /\ \A i \in 1 .. n : new[i] = emitted + i
  <2>1. \A i \in 1 .. n : emitted + i \in Nat
    BY <1>1
  <2>2. new \in [1 .. n -> Nat]
    BY <2>1
  <2> QED BY <2>2
<1> HIDE DEF new
<1>3. /\ block.buf \o new \in Seq(Nat)
      /\ Len(block.buf \o new) = Len(block.buf) + n
      /\ \A i \in 1 .. Len(block.buf) + n :
            (block.buf \o new)[i] = IF i <= Len(block.buf) THEN block.buf[i] ELSE new[i - Len(block.buf)]
  BY <1>1, <1>2, ConcatProperties, ZenonT(60)
<1>4. block' = [block EXCEPT !.buf = block.buf \o new] /\ emitted' = emitted + n
  BY DEF Emit, new
<1>5. block' = [buf |-> block.buf \o new, flushed |-> block.flushed]
  BY <1>4 DEF IInv, IType, BlockType
<1>6. \A i \in 1 .. Len(block.buf) : block.buf[i] = emitted - Len(block.buf) + i
  BY DEF IInv, IBlocks
<1>7. Len(block.buf) \in Nat
  BY <1>1
<1>8. \A i \in 1 .. Len(block.buf) + n :
        (block.buf \o new)[i] = (emitted + n) - (Len(block.buf) + n) + i
  <2> TAKE i \in 1 .. Len(block.buf) + n
  <2>1. CASE i <= Len(block.buf)
    <3>1. (block.buf \o new)[i] = block.buf[i]
      BY <2>1, <1>3
    <3>2. block.buf[i] = emitted - Len(block.buf) + i
      BY <2>1, <1>6, <1>7
    <3> QED BY <3>1, <3>2, <1>1, <1>7
  <2>2. CASE ~(i <= Len(block.buf))
    <3>1. i - Len(block.buf) \in 1 .. n
      BY <2>2, <1>7
    <3>2. new[i - Len(block.buf)] = emitted + (i - Len(block.buf))
      BY <3>1, <1>2
    <3>3. (block.buf \o new)[i] = new[i - Len(block.buf)]
      BY <2>2, <1>3
    <3> QED BY <3>2, <3>3, <1>1, <1>7
  <2> QED BY <2>1, <2>2
<1>9. block'.buf = block.buf \o new /\ block'.flushed = block.flushed
  BY <1>5
<1> QED BY <1>1, <1>3, <1>4, <1>5, <1>8, <1>9 DEF BlockType

(* Emitting changes nothing for the flush loop. *)
LEMMA EmitStep ==
  ASSUME IInv, NEW n \in Nat, Emit(n), Len(block.buf) + n <= BlockSize,
         UNCHANGED <<pending, syncQ, condVars, loopVars, fileVars, acks>>,
         wpc' \in {"alloc", "queue"} => Len(block.buf) + n = BlockSize,
         wpc' \in {"idle", "push", "signal"} => Len(block.buf) + n < BlockSize
  PROVE  IBlocks' /\ IStream' /\ IErrors' /\ ITake'
<1> USE DEF condVars, loopVars, fileVars
<1>1. /\ Len(block'.buf) = Len(block.buf) + n
      /\ block'.flushed = block.flushed
      /\ emitted' = emitted + n
      /\ \A i \in 1 .. Len(block'.buf) : block'.buf[i] = emitted' - Len(block'.buf) + i
  BY EmitBlock
<1>2. Len(block.buf) \in Nat /\ block.flushed \in Nat /\ emitted \in Nat
  BY DEF IInv, IType, BlockType
<1>3. emitted' - Len(block'.buf) = emitted - Len(block.buf)
  BY <1>1, <1>2
<1>4. IBlocks'
  <2>1. /\ Len(block'.buf) <= BlockSize /\ Len(block'.buf) <= emitted' /\ block'.flushed <= Len(block'.buf)
        /\ wpc' \in {"idle", "push", "signal"} => Len(block'.buf) < BlockSize
        /\ wpc' \in {"alloc", "queue"} => Len(block'.buf) = BlockSize
    BY <1>1, <1>2 DEF IInv, IBlocks
  <2>2. /\ Consecutive(pending)'
        /\ (pending # <<>>)' => block'.flushed = 0 /\ End(pending'[Len(pending')]) = emitted' - Len(block'.buf)
    BY <1>1, <1>3 DEF IInv, IBlocks, Consecutive, FullBlock, End
  <2> QED BY <1>1, <2>1, <2>2 DEF IBlocks, End
<1>5. UNCHANGED Taken
  BY <1>1, <1>3 DEF Taken, End
<1>6. IErrors' /\ ITake'
  BY <1>5, SameErrors, SameTake DEF IInv
<1>7. IStream'
  BY <1>1, <1>5 DEF IInv, IStream, Consecutive, FullBlock, End
<1> QED BY <1>4, <1>6, <1>7

LEMMA EmitFragmentStep ==
  ASSUME IInv, EmitFragment
  PROVE  IInv'
<1> DEFINE room == BlockSize - Len(block.buf)
           n == IF left <= room THEN left ELSE room
<1> USE DEF condVars, loopVars, fileVars
<1>1. Len(block.buf) \in Nat /\ Len(block.buf) <= BlockSize /\ left \in Nat /\ left > 0 /\ wpc = "emit"
  BY DEF IInv, IType, BlockType, IBlocks, IOrder, EmitFragment
<1>2. n \in Nat /\ n <= room /\ n <= left
  <2>1. room \in Nat
    BY <1>1
  <2> HIDE DEF room
  <2> QED BY <2>1, <1>1
<1>3. Emit(n) /\ left' = left - n /\ sync' = sync
  BY DEF EmitFragment
<1>4. IF n = room THEN wpc' = "alloc" ELSE wpc' \in {"push", "idle"} /\ (wpc' = "push" => sync) /\ n = left
  BY <1>1 DEF EmitFragment, EndRecord
<1> HIDE DEF room, n
<1>5. IBlocks' /\ IStream' /\ IErrors' /\ ITake'
  <2>1. wpc' \in {"alloc", "queue"} => Len(block.buf) + n = BlockSize
    BY <1>1, <1>2, <1>4 DEF room
  <2>2. wpc' \in {"idle", "push", "signal"} => Len(block.buf) + n < BlockSize
    BY <1>1, <1>2, <1>4 DEF room
  <2>3. Len(block.buf) + n <= BlockSize
    BY <1>1, <1>2 DEF room
  <2>4. UNCHANGED <<pending, syncQ, condVars, loopVars, fileVars, acks>>
    BY DEF EmitFragment
  <2> QED BY <1>2, <1>3, <2>1, <2>2, <2>3, <2>4, EmitStep
<1>6. block' \in BlockType /\ emitted' = emitted + n
  BY <1>2, <1>3, EmitBlock
<1>7. IType'
  BY <1>1, <1>2, <1>3, <1>4, <1>6 DEF IInv, IType, EmitFragment
<1>8. IOrder'
  <2>1. emitted' + left' = emitted + left /\ emitted <= emitted' /\ left' \in Nat
    BY <1>1, <1>2, <1>3, <1>6 DEF IInv, IType
  <2>2. wpc' = "push" => left' = 0 /\ sync'
    BY <1>1, <1>3, <1>4
  <2>3. Recording /\ wpc' # "emit"
    BY <1>1, <1>4 DEF Recording
  <2>4. UNCHANGED <<acks, signal, syncQ>>
    BY DEF EmitFragment
  <2>5. emitted' \in Nat /\ emitted \in Nat /\ signal \in Nat
    BY <1>7 DEF IInv, IType
  <2>6. /\ \A i \in 1 .. Len(acks) : acks[i].end <= emitted'
        /\ signal <= emitted'
        /\ \A i \in 1 .. Len(syncQ) : syncQ[i] <= emitted'
    <3>1. /\ \A i \in 1 .. Len(acks) : acks[i].end <= emitted /\ acks[i].end \in Nat
          /\ signal <= emitted
          /\ \A i \in 1 .. Len(syncQ) : syncQ[i] <= emitted /\ syncQ[i] \in Nat
      BY Elements DEF IInv, IOrder
    <3> QED BY <2>1, <2>5, <3>1
  <2>7. /\ \A i \in 1 .. Len(acks) : acks[i].end < emitted' + left'
        /\ signal < emitted' + left'
        /\ \A i \in 1 .. Len(syncQ) : syncQ[i] < emitted' + left'
    BY <2>1, <2>3 DEF IInv, IOrder
  <2> QED BY <2>2, <2>3, <2>4, <2>6, <2>7 DEF IInv, IOrder
<1>9. IRoom'
  BY <1>1, SameRoom DEF IInv, Recording, EmitFragment
<1>10. IClose'
  BY <1>1, <1>4 DEF IInv, IClose, EmitFragment
<1> QED BY <1>5, <1>7, <1>8, <1>9, <1>10 DEF IInv

LEMMA AllocBlockStep ==
  ASSUME IInv, AllocBlock
  PROVE  IInv'
<1> USE DEF AllocBlock, condVars, loopVars, fileVars
<1>1. IType'
  BY DEF IInv, IType
<1>2. IBlocks' /\ IStream' /\ IErrors' /\ ITake'
  BY SameBlocks, SameStream, SameErrors, SameTaken, SameTake DEF IInv
<1>3. IOrder' /\ IRoom' /\ IClose'
  BY SameOrder, SameRoom DEF IInv, IClose, Recording
<1> QED BY <1>1, <1>2, <1>3 DEF IInv

(* The block joins the pending ones: what is taken stays the same. *)
LEMMA QueueBlockStep ==
  ASSUME IInv, QueueBlock
  PROVE  IInv'
<1> USE DEF loopVars, fileVars
<1>1. /\ wpc = "queue" /\ fpc # "grabData" /\ pending' = Append(pending, block) /\ block' = EmptyBlock
      /\ UNCHANGED <<emitted, left, sync, closeErr, closing, syncQ, loopVars, fileVars, acks>>
      /\ left > 0 => wpc' = "emit"
      /\ left = 0 => wpc' = IF sync THEN "push" ELSE "idle"
  BY DEF QueueBlock, Unlocked, Holding, EndRecord
<1>2. /\ block \in BlockType /\ pending \in Seq(BlockType) /\ Len(block.buf) = BlockSize
      /\ Len(pending) \in Nat /\ (pending = <<>> <=> Len(pending) = 0)
      /\ emitted \in Nat /\ left \in Nat
      /\ Consecutive(pending) /\ block.flushed <= BlockSize /\ BlockSize <= emitted
      /\ \A i \in 1 .. BlockSize : block.buf[i] = emitted - BlockSize + i
      /\ pending # <<>> => block.flushed = 0 /\ End(pending[Len(pending)]) = emitted - BlockSize
  BY <1>1, Elements DEF IInv, IType, IBlocks
<1>3. End(block) = emitted
  BY <1>2 DEF End
<1>4. FullBlock(block)
  BY <1>2, <1>3 DEF FullBlock
<1>5. /\ pending' \in Seq(BlockType) /\ Len(pending') = Len(pending) + 1 /\ pending' # <<>>
      /\ \A i \in 1 .. Len(pending) : pending'[i] = pending[i]
      /\ pending'[Len(pending) + 1] = block
  BY <1>1, <1>2, AppendProperties
<1>6. block'.buf = <<>> /\ block'.flushed = 0 /\ block' \in BlockType
  BY <1>1 DEF EmptyBlock, BlockType
<1>7. IType'
  BY <1>1, <1>5, <1>6 DEF IInv, IType
<1>8. \A k \in 1 .. Len(pending') : k \in 1 .. Len(pending) \/ k = Len(pending) + 1
  BY <1>2, <1>5
<1>16. \A k \in 1 .. Len(pending') : FullBlock(pending'[k])
  <2> TAKE k \in 1 .. Len(pending')
  <2>1. CASE k \in 1 .. Len(pending)
    BY <2>1, <1>2, <1>5 DEF Consecutive
  <2>2. CASE k = Len(pending) + 1
    BY <2>2, <1>4, <1>5
  <2> QED BY <2>1, <2>2, <1>8
<1>9. \A k \in 1 .. Len(pending') - 1 : End(pending'[k + 1]) = End(pending'[k]) + BlockSize
  <2> TAKE k \in 1 .. Len(pending') - 1
  <2>1. CASE k = Len(pending)
    BY <2>1, <1>2, <1>3, <1>5
  <2>2. CASE k # Len(pending)
    <3>1. k \in 1 .. Len(pending) - 1 /\ k \in 1 .. Len(pending) /\ k + 1 \in 1 .. Len(pending)
      BY <2>2, <1>2, <1>5
    <3> QED BY <3>1, <1>2, <1>5 DEF Consecutive
  <2> QED BY <2>1, <2>2
<1>10. \A k \in 2 .. Len(pending') : pending'[k].flushed = 0
  <2> TAKE k \in 2 .. Len(pending')
  <2>1. CASE k = Len(pending) + 1
    BY <2>1, <1>2, <1>5
  <2>2. CASE k # Len(pending) + 1
    <3>1. k \in 2 .. Len(pending) /\ k \in 1 .. Len(pending)
      BY <2>2, <1>2, <1>5
    <3> QED BY <3>1, <1>2, <1>5 DEF Consecutive
  <2> QED BY <2>1, <2>2
<1>11. IBlocks'
  <2>1. Consecutive(pending)'
    BY <1>16, <1>9, <1>10 DEF Consecutive, FullBlock, End
  <2>2. Len(block'.buf) = 0 /\ pending'[Len(pending')] = block
    BY <1>2, <1>5, <1>6
  <2>3. End(pending'[Len(pending')]) = emitted' - Len(block'.buf)
    BY <1>1, <1>2, <1>3, <2>2
  <2> QED BY <1>1, <1>2, <1>6, <2>1, <2>2, <2>3 DEF IBlocks, End
<1>15. UNCHANGED Taken
  BY <1>1, <1>2, <1>3, <1>5, <1>6 DEF Taken, End
<1>12. IErrors' /\ ITake'
  BY <1>1, <1>15, SameErrors, SameTake DEF IInv
<1>13. IStream'
  BY <1>1, <1>15 DEF IInv, IStream, Consecutive, FullBlock, End
<1>14. IOrder' /\ IRoom' /\ IClose'
  BY <1>1, <1>2, Elements, SameRoom DEF IInv, IOrder, Recording, IClose
<1> QED BY <1>7, <1>11, <1>12, <1>13, <1>14 DEF IInv

LEMMA PushStep ==
  ASSUME IInv, Push
  PROVE  IInv'
<1> USE DEF blockVars, condVars, loopVars, fileVars
<1>1. /\ wpc = "push" /\ wpc' = "signal" /\ syncQ' = Append(syncQ, emitted)
      /\ UNCHANGED <<emitted, left, sync, closeErr, blockVars, condVars, loopVars, fileVars, acks>>
  BY DEF Push
<1>2. syncQ \in Seq(Nat) /\ Len(syncQ) \in Nat /\ emitted \in Nat /\ take \in Nat /\ signal \in Nat
      /\ left = 0 /\ sync
  BY <1>1 DEF IInv, IType, IOrder
<1>3. /\ syncQ' \in Seq(Nat) /\ Len(syncQ') = Len(syncQ) + 1
      /\ \A i \in 1 .. Len(syncQ) : syncQ'[i] = syncQ[i]
      /\ syncQ'[Len(syncQ) + 1] = emitted
  BY <1>1, <1>2, AppendProperties
<1>4. IType' /\ IBlocks' /\ IStream' /\ IErrors'
  BY <1>1, <1>3, SameBlocks, SameStream, SameErrors DEF IInv, IType
<1>5. /\ \A i \in 1 .. Len(acks) : acks[i].end < emitted
      /\ signal < emitted
      /\ \A i \in 1 .. Len(syncQ) : syncQ[i] < emitted
  BY <1>1, <1>2 DEF IInv, IOrder, Recording
<1>6. IOrder'
  BY <1>1, <1>2, <1>3, <1>5, SMTT(60) DEF IInv, IOrder, Recording
<1>7. UNCHANGED Taken
  BY <1>1, SameTaken
<1>8. Outstanding' = Outstanding + 1 /\ Outstanding \in Nat /\ Outstanding < SyncConcurrency
  BY <1>1, <1>2, <1>3 DEF IInv, IRoom, Recording, Outstanding
<1>9. signal = 0 \/ take > 0
  BY <1>2 DEF IInv, ITake
<1>10. ITake'
  <2>1. fpc \in {"grabData", "blocks", "sync", "pop", "popErr"} => take <= Len(syncQ) + (IF signal = 0 THEN 0 ELSE 1)
    BY DEF IInv, ITake, Outstanding
  <2>2. fpc \in {"blocks", "sync"} => signal = 0 /\ \A i \in 1 .. take : syncQ'[i] <= Taken
    <3> SUFFICES ASSUME fpc \in {"blocks", "sync"}
                 PROVE  signal = 0 /\ \A i \in 1 .. take : syncQ'[i] <= Taken
      OBVIOUS
    <3>1. signal = 0 /\ \A i \in 1 .. take : syncQ[i] <= Taken
      BY DEF IInv, ITake
    <3>2. \A i \in 1 .. take : i \in 1 .. Len(syncQ)
      BY <3>1, <2>1, <1>2
    <3> QED BY <3>1, <3>2, <1>3
  <2>3. fpc = "pop" /\ ~err =>
          \A i \in 1 .. (IF signal = 0 THEN take ELSE take - 1) : syncQ'[i] <= durable
    <3> DEFINE m == IF signal = 0 THEN take ELSE take - 1
    <3> SUFFICES ASSUME fpc = "pop", ~err
                 PROVE  \A i \in 1 .. m : syncQ'[i] <= durable
      OBVIOUS
    <3>1. \A i \in 1 .. m : syncQ[i] <= durable
      BY DEF IInv, ITake
    <3>2. \A i \in 1 .. m : i \in 1 .. Len(syncQ)
      BY <2>1, <1>2
    <3> HIDE DEF m
    <3> QED BY <3>1, <3>2, <1>3
  <2>4. fpc \in {"grabData", "blocks", "sync", "pop", "popErr"} => take <= Outstanding'
    BY <1>2, <1>8 DEF IInv, ITake
  <2> QED BY <1>1, <1>7, <2>2, <2>3, <2>4 DEF IInv, ITake
<1>11. IRoom' /\ IClose'
  BY <1>1, <1>8 DEF IInv, IRoom, Recording, IClose
<1> QED BY <1>4, <1>6, <1>10, <1>11 DEF IInv

LEMMA SignalReadyStep ==
  ASSUME IInv, SignalReady
  PROVE  IInv'
<1> USE DEF SignalReady, blockVars, loopVars, fileVars
<1>1. IType' /\ IClose'
  BY DEF IInv, IType, IClose
<1>2. IBlocks' /\ IStream' /\ IErrors' /\ ITake'
  BY SameBlocks, SameStream, SameErrors, SameTaken, SameTake DEF IInv
<1>3. IOrder' /\ IRoom'
  BY SameOrder, SameRoom DEF IInv, Recording
<1> QED BY <1>1, <1>2, <1>3 DEF IInv

LEMMA CloseStep ==
  ASSUME IInv, Close
  PROVE  IInv'
<1> USE DEF condVars, loopVars, fileVars
<1>1. /\ wpc = "idle" /\ wpc' = "close" /\ Emit(1)
      /\ UNCHANGED <<left, sync, closeErr, pending, syncQ, condVars, loopVars, fileVars, acks>>
  BY DEF Close
<1>2. Len(block.buf) \in Nat /\ Len(block.buf) < BlockSize /\ 1 \in Nat /\ emitted \in Nat
  BY <1>1 DEF IInv, IType, BlockType, IBlocks
<1>3. IBlocks' /\ IStream' /\ IErrors' /\ ITake'
  BY <1>1, <1>2, EmitStep
<1>4. block' \in BlockType /\ emitted' = emitted + 1
  BY <1>1, <1>2, EmitBlock
<1>5. IType'
  BY <1>1, <1>2, <1>4 DEF IInv, IType
<1>6. IOrder'
  <2>1. /\ \A i \in 1 .. Len(acks) : acks[i].end <= emitted'
        /\ signal <= emitted'
        /\ \A i \in 1 .. Len(syncQ) : syncQ[i] <= emitted'
    BY <1>2, <1>4, Elements, SMTT(60) DEF IInv, IType, IOrder
  <2> QED BY <1>1, <2>1 DEF IInv, IOrder, Recording
<1>7. IRoom' /\ IClose'
  BY <1>1, SameRoom DEF IInv, Recording, IClose
<1> QED BY <1>3, <1>5, <1>6, <1>7 DEF IInv

LEMMA CloseSignalStep ==
  ASSUME IInv, CloseSignal
  PROVE  IInv'
<1> USE DEF CloseSignal, blockVars, loopVars, fileVars
<1>1. IType' /\ IClose'
  BY DEF IInv, IType, IClose
<1>2. IBlocks' /\ IStream' /\ IErrors' /\ ITake'
  BY SameBlocks, SameStream, SameErrors, SameTaken, SameTake DEF IInv
<1>3. IOrder' /\ IRoom'
  BY SameOrder, SameRoom DEF IInv, Recording
<1> QED BY <1>1, <1>2, <1>3 DEF IInv

LEMMA CloseSyncStep ==
  ASSUME IInv, NEW fails \in BOOLEAN, NEW cerr \in BOOLEAN, CloseSync(fails, cerr)
  PROVE  IInv'
<1> USE DEF blockVars, condVars, loopVars
<1>1. /\ wpc = "join" /\ fpc = "exited" /\ wpc' = "closed"
      /\ durable' = IF ferr \/ fails THEN durable ELSE Len(file)
      /\ closeErr' = (ferr \/ fails \/ cerr)
      /\ UNCHANGED <<emitted, left, sync, blockVars, syncQ, condVars, loopVars, file, acks>>
  BY DEF CloseSync
<1>2. durable \in Nat /\ Len(file) \in Nat /\ durable <= Len(file) /\ ~err
  BY <1>1 DEF IInv, IType, IStream, IErrors
<1>3. durable' \in Nat /\ durable <= durable' /\ durable' <= Len(file)
  BY <1>1, <1>2
<1>4. IType'
  BY <1>1, <1>3 DEF IInv, IType
<1>5. IBlocks' /\ IErrors' /\ IOrder' /\ IRoom'
  BY <1>1, SameBlocks, SameErrors, SameOrder, SameRoom DEF IInv, Recording
<1>6. UNCHANGED Taken
  BY <1>1, SameTaken
<1>7. IStream'
  BY <1>1, <1>3, <1>6 DEF IInv, IStream, Consecutive, FullBlock, End
<1>8. ITake'
  <2>1. \A i \in 1 .. Len(acks) : acks[i].end \in Nat
    BY Elements DEF IInv
  <2> QED BY <1>1, <1>2, <1>3, <2>1 DEF IInv, ITake, Outstanding
<1>9. ~ferr => Len(file) = emitted
  BY <1>1, <1>2 DEF IInv, IType, BlockType, IStream, IClose, Taken
<1>10. IClose'
  BY <1>1, <1>9 DEF IInv, IClose
<1> QED BY <1>4, <1>5, <1>7, <1>8, <1>10 DEF IInv

-----------------------------------------------------------------------------
(* The flush loop.                                                         *)

(* Between two rounds the flush loop holds nothing. *)
Between == {"check", "register", "unlock", "wait", "grabSync"}

(* A step from one such place to another, or to the exit, with nothing left to do. *)
LEMMA BetweenStep ==
  ASSUME IInv, fpc \in Between, fpc' \in Between,
         UNCHANGED <<writerVars, blockVars, syncQ, closing, ferr, err, grabbed, data, take, synced, signal,
                     fileVars, acks>>
  PROVE  IInv'
<1> USE DEF writerVars, blockVars, fileVars, Between
<1>1. IType' /\ IErrors' /\ IClose'
  BY DEF IInv, IType, IErrors, IClose
<1>2. IBlocks' /\ IOrder' /\ IRoom'
  BY SameBlocks, SameOrder, SameRoom DEF IInv, Recording
<1>3. UNCHANGED Taken
  BY SameTaken
<1>4. IStream'
  BY <1>3 DEF IInv, IStream
<1>5. ITake'
  BY <1>3 DEF IInv, ITake
<1> QED BY <1>1, <1>2, <1>4, <1>5 DEF IInv

LEMMA CheckWorkStep ==
  ASSUME IInv, CheckWork
  PROVE  IInv'
<1>1. CASE fpc' # "exited"
  BY <1>1, BetweenStep DEF CheckWork, Between
<1>2. CASE fpc' = "exited"
  <2> USE DEF writerVars, blockVars, fileVars
  <2>1. /\ fpc = "check" /\ pending = <<>> /\ ~(Len(block.buf) > block.flushed) /\ closing /\ syncQ = <<>>
        /\ UNCHANGED <<writerVars, blockVars, syncQ, closing, ferr, err, grabbed, data, take, synced, signal,
                       fileVars, acks>>
    BY <1>2 DEF CheckWork
  <2>2. IType' /\ IErrors'
    BY <1>2, <2>1 DEF IInv, IType, IErrors
  <2>3. IBlocks' /\ IOrder' /\ IRoom'
    BY <2>1, SameBlocks, SameOrder, SameRoom DEF IInv, Recording
  <2>4. UNCHANGED Taken
    BY <2>1, SameTaken
  <2>5. IStream' /\ ITake'
    BY <1>2, <2>1, <2>4 DEF IInv, IStream, ITake
  <2>6. signal = 0 /\ Len(block.buf) = block.flushed
    BY <2>1, Elements DEF IInv, ITake, IBlocks
  <2>7. IClose'
    BY <1>2, <2>1, <2>6 DEF IInv, IClose
  <2> QED BY <2>2, <2>3, <2>5, <2>7 DEF IInv
<1> QED BY <1>1, <1>2

LEMMA WaitStep ==
  ASSUME IInv, Register \/ UnlockCheck \/ Wake
  PROVE  IInv'
  BY BetweenStep DEF Register, UnlockCheck, Wake, Between, condVars

(* The pending blocks become the grabbed ones, with the waiters queued so far. *)
LEMMA GrabSyncStep ==
  ASSUME IInv, GrabSync
  PROVE  IInv'
<1> USE DEF writerVars, condVars, fileVars
<1>1. /\ fpc = "grabSync" /\ fpc' = "grabData" /\ grabbed' = pending /\ pending' = <<>> /\ take' = Waiters
      /\ UNCHANGED <<writerVars, block, syncQ, condVars, ferr, err, data, synced, signal, fileVars, acks>>
  BY DEF GrabSync
<1>2. Waiters \in Nat /\ Waiters <= Len(syncQ)
  BY Elements DEF IInv, Waiters
<1>3. IType'
  BY <1>1, <1>2, EmptySeq DEF IInv, IType
<1>4. IErrors' /\ IOrder' /\ IRoom' /\ IClose'
  BY <1>1, SameOrder, SameRoom DEF IInv, IErrors, IClose, Recording
<1>5. IBlocks'
  BY <1>1 DEF IInv, IBlocks, Consecutive
<1>6. signal = 0
  BY <1>1 DEF IInv, ITake
<1>7. ITake'
  BY <1>1, <1>2, <1>6 DEF IInv, ITake, Outstanding
<1>8. IStream'
  <2> SUFFICES ASSUME ~ferr, ~err
               PROVE  /\ Consecutive(pending)
                      /\ pending # <<>> => End(pending[1]) - BlockSize + pending[1].flushed = Len(file)
                      /\ IF pending = <<>> THEN Len(file) = Taken'
                         ELSE block.flushed = 0 /\ End(pending[Len(pending)]) = Taken'
    BY <1>1 DEF IInv, IStream, Consecutive, FullBlock, End
  <2>1. Len(file) = Taken
    BY <1>1 DEF IInv, IStream
  <2>2. Taken' = emitted - Len(block.buf) + block.flushed
    BY <1>1 DEF Taken
  <2>3. emitted - Len(block.buf) + 0 = emitted - Len(block.buf)
    BY Elements DEF IInv, IType
  <2> QED BY <2>1, <2>2, <2>3 DEF IInv, IBlocks, Taken
<1> QED BY <1>3, <1>4, <1>5, <1>7, <1>8 DEF IInv

(* The unflushed part of the block is taken: with it all that was emitted is. *)
LEMMA GrabDataStep ==
  ASSUME IInv, GrabData
  PROVE  IInv'
<1> USE DEF writerVars, condVars, fileVars
<1> DEFINE f == block.flushed
           l == Len(block.buf)
<1>1. /\ fpc = "grabData" /\ data' = SubSeq(block.buf, f + 1, l)
      /\ block' = [block EXCEPT !.flushed = l]
      /\ fpc' = IF ferr THEN "popErr" ELSE "blocks"
      /\ UNCHANGED <<writerVars, pending, syncQ, condVars, ferr, err, grabbed, take, synced, signal, fileVars,
                     acks>>
  BY DEF GrabData
<1>2. /\ block \in BlockType /\ f \in Nat /\ l \in Nat /\ f <= l /\ l <= emitted /\ emitted \in Nat
      /\ \A i \in 1 .. l : block.buf[i] = emitted - l + i /\ block.buf[i] \in Nat
  BY BlockElements, Elements DEF IInv, IType, IBlocks
<1>3. block'.buf = block.buf /\ block'.flushed = l /\ block' \in BlockType
  BY <1>1, <1>2 DEF BlockType
<1>4. pending = <<>> /\ signal = 0
  BY <1>1 DEF IInv, IStream, ITake
<1> HIDE DEF f, l
<1>5. /\ data' \in Seq(Nat) /\ Len(data') = l - f
      /\ \A i \in 1 .. Len(data') : data'[i] = emitted - Len(data') + i
  <2>1. \A i \in f + 1 .. l : block.buf[i] \in Nat
    BY <1>2
  <2>2. /\ data' \in Seq(Nat) /\ Len(data') = IF f + 1 <= l THEN l - (f + 1) + 1 ELSE 0
        /\ \A i \in 1 .. l - (f + 1) + 1 : data'[i] = block.buf[(f + 1) + i - 1]
    BY <1>1, <1>2, <2>1, SubSeqProperties, SMTT(60)
  <2>3. Len(data') = l - f
    BY <1>2, <2>2
  <2>4. ASSUME NEW i \in 1 .. l - f PROVE data'[i] = emitted - (l - f) + i
    <3>1. i \in 1 .. l - (f + 1) + 1 /\ (f + 1) + i - 1 = f + i /\ f + i \in 1 .. l
      BY <1>2
    <3>2. data'[i] = block.buf[f + i]
      BY <3>1, <2>2
    <3>3. block.buf[f + i] = emitted - l + (f + i)
      BY <3>1, <1>2
    <3> QED BY <3>2, <3>3, <1>2
  <2> QED BY <2>2, <2>3, <2>4
<1>6. Taken = emitted - l + f /\ Taken' = emitted
  BY <1>1, <1>2, <1>3, <1>4 DEF Taken, l, f
<1>7. IType'
  BY <1>1, <1>3, <1>5 DEF IInv, IType
<1>8. IBlocks'
  BY <1>1, <1>2, <1>3, <1>4 DEF IInv, IBlocks, Consecutive, l, f
<1>9. IErrors' /\ IOrder' /\ IRoom' /\ IClose'
  BY <1>1, SameOrder, SameRoom DEF IInv, IErrors, IClose, Recording
<1>10. ITake'
  <2>1. take <= Len(syncQ) /\ take \in Nat /\ Len(syncQ) \in Nat
    BY <1>1, <1>4, Elements DEF IInv, IType, ITake, Outstanding
  <2>2. \A i \in 1 .. take : syncQ[i] <= Taken'
    BY <1>6, <2>1 DEF IInv, IOrder
  <2>3. Outstanding' = Outstanding
    BY <1>1 DEF Outstanding
  <2> QED BY <1>1, <1>4, <2>2, <2>3 DEF IInv, ITake
<1>11. IStream'
  <2> SUFFICES ASSUME ~ferr, ~err
               PROVE  /\ Consecutive(grabbed)
                      /\ grabbed # <<>> => End(grabbed[1]) - BlockSize + grabbed[1].flushed = Len(file)
                      /\ emitted = Len(data') + (IF grabbed = <<>> THEN Len(file) ELSE End(grabbed[Len(grabbed)]))
    BY <1>1, <1>5, <1>6 DEF IInv, IStream, Consecutive, FullBlock, End
  <2>1. /\ Consecutive(grabbed)
        /\ grabbed # <<>> => End(grabbed[1]) - BlockSize + grabbed[1].flushed = Len(file)
        /\ IF grabbed = <<>> THEN Len(file) = Taken ELSE f = 0 /\ End(grabbed[Len(grabbed)]) = Taken
    BY <1>1 DEF IInv, IStream, f
  <2>2. emitted = Len(data') + Taken
    BY <1>2, <1>5, <1>6
  <2> QED BY <2>1, <2>2
<1> QED BY <1>7, <1>8, <1>9, <1>10, <1>11 DEF IInv

(* A write of consecutive units after the file, complete or up to where it fails. *)
LEMMA WriteStep ==
  ASSUME IInv, NEW buf \in Seq(Nat), NEW fails \in BOOLEAN, WriteFile(buf, fails),
         \A i \in 1 .. Len(buf) : buf[i] = Len(file) + i
  PROVE  /\ file' \in Seq(Nat) /\ Len(file) <= Len(file')
         /\ \A i \in 1 .. Len(file') : file'[i] = i
         /\ ~fails => Len(file') = Len(file) + Len(buf)
<1>1. file \in Seq(Nat) /\ Len(file) \in Nat /\ Len(buf) \in Nat /\ \A i \in 1 .. Len(file) : file[i] = i
  BY DEF IInv, IType, IStream
<1>2. \A i \in 1 .. Len(buf) : buf[i] \in Nat
  BY <1>1
<1>3. PICK k \in 0 .. Len(buf) : file' = file \o SubSeq(buf, 1, k) /\ (~fails => k = Len(buf))
  <2>1. CASE fails
    BY <2>1 DEF WriteFile
  <2>2. CASE ~fails
    BY <2>2, <1>1, SubSeqFull DEF WriteFile
  <2> QED BY <2>1, <2>2
<1> DEFINE part == SubSeq(buf, 1, k)
<1>4. part \in Seq(Nat) /\ Len(part) = k /\ \A i \in 1 .. k : part[i] = Len(file) + i
  <2>1. k \in Int /\ 1 \in Int /\ \A i \in 1 .. k : buf[i] \in Nat
    BY <1>1, <1>2
  <2>2. /\ part \in Seq(Nat) /\ Len(part) = IF 1 <= k THEN k - 1 + 1 ELSE 0
        /\ \A i \in 1 .. k - 1 + 1 : part[i] = buf[1 + i - 1]
    BY <2>1, SubSeqProperties
  <2>3. Len(part) = k
    BY <1>1, <2>2
  <2>4. ASSUME NEW i \in 1 .. k PROVE part[i] = Len(file) + i
    <3>1. i \in 1 .. k - 1 + 1 /\ 1 + i - 1 = i /\ i \in 1 .. Len(buf)
      BY <1>1
    <3> QED BY <3>1, <2>2
  <2> QED BY <2>2, <2>3, <2>4
<1> HIDE DEF part
<1>5. /\ file' \in Seq(Nat) /\ Len(file') = Len(file) + k
      /\ \A i \in 1 .. Len(file) + k : file'[i] = IF i <= Len(file) THEN file[i] ELSE part[i - Len(file)]
  <2>1. file' = file \o part
    BY <1>3 DEF part
  <2> QED BY <2>1, <1>1, <1>4, ConcatProperties, SMTT(60)
<1>6. ASSUME NEW i \in 1 .. Len(file) + k PROVE file'[i] = i
  <2>1. CASE i <= Len(file)
    <3>1. i \in 1 .. Len(file)
      BY <2>1, <1>1
    <3> QED BY <3>1, <2>1, <1>1, <1>5
  <2>2. CASE ~(i <= Len(file))
    <3>1. i - Len(file) \in 1 .. k
      BY <2>2, <1>1
    <3> QED BY <3>1, <2>2, <1>1, <1>4, <1>5
  <2> QED BY <2>1, <2>2
<1>7. Len(file') = Len(file) + k /\ k \in Nat
  BY <1>1, <1>5
<1>8. Len(file) <= Len(file') /\ (~fails => Len(file') = Len(file) + Len(buf))
  <2>1. Len(file) <= Len(file') BY <1>1, <1>7
  <2>2. ~fails => k = Len(buf) BY <1>3
  <2> QED BY <2>1, <2>2, <1>7
<1>9. file' \in Seq(Nat)
  BY <1>5
<1>10. \A i \in 1 .. Len(file') : file'[i] = i
  BY <1>6, <1>7
<1> QED BY <1>8, <1>9, <1>10

(* A block is written behind the file, and the blocks after it follow. *)
LEMMA FlushBlockStep ==
  ASSUME IInv, NEW fails \in BOOLEAN, FlushBlock(fails)
  PROVE  IInv'
<1> USE DEF writerVars, condVars
<1> DEFINE b == grabbed[1]
           buf == SubSeq(b.buf, b.flushed + 1, BlockSize)
<1>1. /\ fpc = "blocks" /\ grabbed # <<>> /\ err' = fails /\ WriteFile(buf, fails)
      /\ grabbed' = (IF fails THEN <<>> ELSE Tail(grabbed))
      /\ fpc' = IF fails THEN "sync" ELSE "blocks"
      /\ UNCHANGED <<writerVars, block, pending, syncQ, condVars, ferr, data, take, synced, signal, durable, acks>>
  <2>1. Head(grabbed) = b
    BY DEF IInv, IType
  <2> QED BY <2>1 DEF FlushBlock
<1>2. ~ferr /\ ~err
  BY <1>1 DEF IInv, IErrors
<1>3. /\ grabbed \in Seq(BlockType) /\ Len(grabbed) \in Nat /\ Len(grabbed) >= 1 /\ Len(file) \in Nat
      /\ \A i \in 1 .. Len(grabbed) : grabbed[i] \in BlockType
  BY <1>1, Elements DEF IInv, IType
<1>4. /\ Consecutive(grabbed) /\ End(b) - BlockSize + b.flushed = Len(file)
      /\ Taken = Len(data) + End(grabbed[Len(grabbed)])
      /\ \A i \in 1 .. Len(data) : data[i] = Taken - Len(data) + i
  BY <1>1, <1>2 DEF IInv, IStream
<1>5. /\ FullBlock(b) /\ End(b) \in Nat /\ b.flushed \in Nat /\ b.flushed <= BlockSize
      /\ \A i \in 1 .. BlockSize : b.buf[i] \in Nat /\ b.buf[i] = End(b) - BlockSize + i
  <2>1. 1 \in 1 .. Len(grabbed)
    BY <1>3
  <2>2. b \in BlockType /\ FullBlock(b)
    BY <2>1, <1>3, <1>4 DEF Consecutive
  <2> HIDE DEF b
  <2> QED BY <2>2, BlockElements DEF FullBlock
<1> HIDE DEF b
<1>6. /\ buf \in Seq(Nat) /\ Len(buf) = BlockSize - b.flushed
      /\ \A i \in 1 .. Len(buf) : buf[i] = Len(file) + i
  <2>1. b.flushed + 1 \in Int /\ BlockSize \in Int /\ \A i \in b.flushed + 1 .. BlockSize : b.buf[i] \in Nat
    BY <1>5
  <2>2. /\ buf \in Seq(Nat)
        /\ Len(buf) = IF b.flushed + 1 <= BlockSize THEN BlockSize - (b.flushed + 1) + 1 ELSE 0
        /\ \A i \in 1 .. BlockSize - (b.flushed + 1) + 1 : buf[i] = b.buf[(b.flushed + 1) + i - 1]
    BY <2>1, SubSeqProperties
  <2>3. Len(buf) = BlockSize - b.flushed
    BY <1>5, <2>2
  <2>4. ASSUME NEW i \in 1 .. BlockSize - b.flushed PROVE buf[i] = Len(file) + i
    <3>1. /\ i \in 1 .. BlockSize - (b.flushed + 1) + 1 /\ (b.flushed + 1) + i - 1 = b.flushed + i
          /\ b.flushed + i \in 1 .. BlockSize
      BY <1>5
    <3>2. buf[i] = b.buf[b.flushed + i]
      BY <3>1, <2>2
    <3>3. b.buf[b.flushed + i] = End(b) - BlockSize + (b.flushed + i)
      BY <3>1, <1>5
    <3>4. End(b) - BlockSize + b.flushed = Len(file)
      BY <1>4
    <3>5. End(b) \in Int /\ b.flushed \in Int /\ i \in Int /\ BlockSize \in Int
      BY <1>5
    <3>6. End(b) - BlockSize + (b.flushed + i) = (End(b) - BlockSize + b.flushed) + i
      BY <3>5
    <3> QED BY <3>2, <3>3, <3>4, <3>6
  <2> QED BY <2>2, <2>3, <2>4
<1> HIDE DEF buf
<1>7. /\ file' \in Seq(Nat) /\ Len(file) <= Len(file')
      /\ \A i \in 1 .. Len(file') : file'[i] = i
      /\ ~fails => Len(file') = Len(file) + Len(buf)
  BY <1>1, <1>6, WriteStep
<1>8. /\ Tail(grabbed) \in Seq(BlockType) /\ Len(Tail(grabbed)) = Len(grabbed) - 1
      /\ \A i \in 1 .. Len(grabbed) - 1 : Tail(grabbed)[i] = grabbed[i + 1]
  BY <1>1, <1>3, HeadTailProperties
<1>9. IType'
  BY <1>1, <1>7, <1>8, EmptySeq DEF IInv, IType
<1>10. IBlocks' /\ IOrder' /\ IRoom' /\ IClose' /\ IErrors'
  BY <1>1, <1>2, SameBlocks, SameOrder, SameRoom DEF IInv, IErrors, IClose, Recording
<1>11. UNCHANGED Taken
  BY <1>1, SameTaken
<1>12. ITake'
  BY <1>1, <1>11 DEF IInv, ITake, Outstanding
<1>13. durable <= Len(file')
  BY <1>3, <1>7, <1>9 DEF IInv, IType, IStream
<1>14. CASE fails
  <2>1. IStream'
    BY <1>14, <1>1, <1>7, <1>13 DEF IStream
  <2> QED BY <2>1, <1>9, <1>10, <1>12 DEF IInv
<1>15. CASE ~fails
  <2>1. Len(file') = End(b)
    BY <1>15, <1>3, <1>4, <1>5, <1>6, <1>7, SMTT(60)
  <2>2. \A k \in 1 .. Len(grabbed') : k + 1 \in 2 .. Len(grabbed) /\ k + 1 \in 1 .. Len(grabbed)
                                      /\ grabbed'[k] = grabbed[k + 1]
    BY <1>15, <1>1, <1>3, <1>8
  <2>3. Len(grabbed') = Len(grabbed) - 1
    BY <1>15, <1>1, <1>8
  <2>4. \A k \in 1 .. Len(grabbed') : FullBlock(grabbed'[k]) /\ grabbed'[k].flushed = 0
    BY <2>2, <1>4 DEF Consecutive
  <2>5. \A k \in 1 .. Len(grabbed') - 1 : End(grabbed'[k + 1]) = End(grabbed'[k]) + BlockSize
    <3> TAKE k \in 1 .. Len(grabbed') - 1
    <3>1. k \in 1 .. Len(grabbed') /\ k + 1 \in 1 .. Len(grabbed') /\ k + 1 \in 1 .. Len(grabbed) - 1
      BY <2>3, <1>3
    <3> QED BY <3>1, <2>2, <1>4 DEF Consecutive
  <2>6. Consecutive(grabbed')
    BY <2>3, <2>4, <2>5, <1>3 DEF Consecutive
  <2>7. CASE Len(grabbed) = 1
    <3>1. grabbed' = <<>> /\ grabbed[Len(grabbed)] = b
      BY <2>7, <1>15, <1>1, <1>8 DEF b
    <3> QED BY <3>1, <2>1, <2>6, <1>1, <1>4, <1>7, <1>9, <1>10, <1>11, <1>12, <1>13, <1>15
            DEF IInv, IStream, Consecutive, FullBlock, End
  <2>8. CASE Len(grabbed) # 1
    <3>1. 1 \in 1 .. Len(grabbed') /\ 1 \in 1 .. Len(grabbed) - 1 /\ Len(grabbed') \in 1 .. Len(grabbed')
          /\ Len(grabbed') + 1 = Len(grabbed)
      BY <2>8, <2>3, <1>3
    <3>2. End(grabbed'[1]) = End(b) + BlockSize /\ grabbed'[1].flushed = 0
      BY <3>1, <2>2, <2>4, <1>4 DEF Consecutive, b
    <3>3. grabbed'[Len(grabbed')] = grabbed[Len(grabbed)] /\ grabbed' # <<>>
      BY <3>1, <2>2, <2>3
    <3>4. End(grabbed'[1]) - BlockSize + grabbed'[1].flushed = Len(file')
      BY <3>2, <2>1, <1>5
    <3> QED BY <3>3, <3>4, <2>6, <1>1, <1>4, <1>7, <1>9, <1>10, <1>11, <1>12, <1>13, <1>15
            DEF IInv, IStream, Consecutive, FullBlock, End
  <2> QED BY <2>7, <2>8
<1> QED BY <1>14, <1>15

(* The part of the block is written: the file has all that was taken. *)
LEMMA FlushDataStep ==
  ASSUME IInv, NEW fails \in BOOLEAN, FlushData(fails)
  PROVE  IInv'
<1> USE DEF writerVars, blockVars, condVars
<1>1. /\ fpc = "blocks" /\ grabbed = <<>> /\ err' = fails /\ fpc' = "sync" /\ WriteFile(data, fails)
      /\ UNCHANGED <<writerVars, blockVars, syncQ, condVars, ferr, grabbed, data, take, synced, signal, durable,
                     acks>>
  BY DEF FlushData
<1>2. ~ferr /\ ~err
  BY <1>1 DEF IInv, IErrors
<1>3. data \in Seq(Nat) /\ Len(data) \in Nat /\ Len(file) \in Nat /\ durable \in Nat
  BY Elements DEF IInv, IType
<1>4. Taken = Len(data) + Len(file) /\ \A i \in 1 .. Len(data) : data[i] = Taken - Len(data) + i
  BY <1>1, <1>2 DEF IInv, IStream
<1>5. \A i \in 1 .. Len(data) : data[i] = Len(file) + i
  BY <1>3, <1>4
<1>6. /\ file' \in Seq(Nat) /\ Len(file) <= Len(file')
      /\ \A i \in 1 .. Len(file') : file'[i] = i
      /\ ~fails => Len(file') = Len(file) + Len(data)
  BY <1>1, <1>3, <1>5, WriteStep
<1>7. IType'
  BY <1>1, <1>6 DEF IInv, IType
<1>8. IBlocks' /\ IOrder' /\ IRoom' /\ IClose' /\ IErrors'
  BY <1>1, <1>2, SameBlocks, SameOrder, SameRoom DEF IInv, IErrors, IClose, Recording
<1>9. UNCHANGED Taken
  BY <1>1, SameTaken
<1>10. ITake'
  BY <1>1, <1>9 DEF IInv, ITake, Outstanding
<1>11. durable <= Len(file') /\ (~fails => Len(file') = Taken)
  <2>1. Len(file') \in Nat
    BY <1>6
  <2> QED BY <2>1, <1>3, <1>4, <1>6 DEF IInv, IStream
<1>12. IStream'
  BY <1>1, <1>6, <1>9, <1>11 DEF IStream
<1> QED BY <1>7, <1>8, <1>10, <1>12 DEF IInv

(* A sync makes the records of the waiters that were loaded durable. *)
LEMMA SyncFileStep ==
  ASSUME IInv, NEW fails \in BOOLEAN, SyncFile(fails)
  PROVE  IInv'
<1> USE DEF writerVars, blockVars, condVars
<1>1. /\ fpc = "sync" /\ fpc' = "pop" /\ err' = (err \/ fails) /\ data' = <<>>
      /\ durable' = IF take > 0 /\ ~err /\ ~fails THEN Len(file) ELSE durable
      /\ UNCHANGED <<writerVars, blockVars, syncQ, condVars, ferr, grabbed, take, signal, file, acks>>
  BY DEF SyncFile
<1>2. /\ durable \in Nat /\ Len(file) \in Nat /\ durable <= Len(file) /\ err \in BOOLEAN /\ ~ferr /\ signal = 0
      /\ take \in Nat
  BY <1>1, Elements DEF IInv, IType, IStream, IErrors, ITake
<1>3. durable' \in Nat /\ durable <= durable' /\ durable' <= Len(file)
  BY <1>1, <1>2
<1>4. IType'
  BY <1>1, <1>2, <1>3, EmptySeq DEF IInv, IType
<1>5. IBlocks' /\ IOrder' /\ IRoom' /\ IClose' /\ IErrors'
  BY <1>1, <1>2, SameBlocks, SameOrder, SameRoom DEF IInv, IErrors, IClose, Recording
<1>6. UNCHANGED Taken
  BY <1>1, SameTaken
<1>7. IStream'
  BY <1>1, <1>3, <1>6 DEF IInv, IStream
<1>8. ITake'
  <2>1. \A i \in 1 .. Len(acks) : ~acks[i].err => acks[i].end <= durable'
    <3>1. \A i \in 1 .. Len(acks) : acks[i].end \in Nat /\ (~acks[i].err => acks[i].end <= durable)
      BY Elements DEF IInv, ITake
    <3> QED BY <3>1, <1>2, <1>3
  <2>2. ~err' => \A i \in 1 .. take : syncQ[i] <= durable'
    <3> SUFFICES ASSUME ~err', NEW i \in 1 .. take PROVE syncQ[i] <= durable'
      OBVIOUS
    <3>1. durable' = Len(file) /\ Len(file) = Taken
      BY <1>1, <1>2 DEF IInv, IStream
    <3> QED BY <3>1, <1>1 DEF IInv, ITake
  <2>3. take <= Outstanding' /\ signal <= durable'
    BY <1>1, <1>2, <1>3 DEF IInv, ITake, Outstanding
  <2> QED BY <1>1, <1>2, <2>1, <2>2, <2>3 DEF ITake
<1> QED BY <1>4, <1>5, <1>7, <1>8 DEF IInv

LEMMA PopSlotStep ==
  ASSUME IInv, PopSlot
  PROVE  IInv'
<1> USE DEF writerVars, blockVars, condVars, fileVars
<1>1. /\ fpc \in {"pop", "popErr"} /\ signal = 0 /\ take > 0 /\ signal' = Head(syncQ) /\ syncQ' = Tail(syncQ)
      /\ UNCHANGED <<writerVars, blockVars, condVars, fpc, ferr, err, grabbed, data, take, synced, fileVars, acks>>
  BY DEF PopSlot, Popping
<1>2. /\ syncQ \in Seq(Nat) /\ Len(syncQ) \in Nat /\ take \in Nat /\ take <= Len(syncQ) /\ emitted \in Nat
      /\ left \in Nat
  BY <1>1, Elements DEF IInv, IType, ITake, Outstanding
<1>3. /\ Len(syncQ) > 0 /\ 1 \in 1 .. Len(syncQ) /\ syncQ # <<>>
  BY <1>1, <1>2
<1>4. /\ syncQ' \in Seq(Nat) /\ Len(syncQ') = Len(syncQ) - 1 /\ signal' = syncQ[1] /\ signal' \in Nat
      /\ \A i \in 1 .. Len(syncQ') : syncQ'[i] = syncQ[i + 1]
  BY <1>1, <1>2, <1>3, HeadTailProperties
<1>5. \A i \in 1 .. Len(syncQ') : i + 1 \in 1 .. Len(syncQ) /\ 1 < i + 1
  BY <1>2, <1>4
<1>6. IType'
  BY <1>1, <1>4 DEF IInv, IType
<1>7. IBlocks' /\ IStream' /\ IErrors'
  BY <1>1, SameBlocks, SameStream, SameErrors DEF IInv
<1>8. signal' # 0 /\ \A i \in 1 .. Len(syncQ') : signal' < syncQ'[i]
  <2>1. 0 < syncQ[1]
    BY <1>3 DEF IInv, IOrder
  <2>2. \A i \in 1 .. Len(syncQ') : syncQ[1] < syncQ[i + 1]
    BY <1>3, <1>5 DEF IInv, IOrder
  <2> QED BY <2>1, <2>2, <1>4
<1>9. IOrder'
  <2>1. /\ \A i \in 1 .. Len(acks) : acks[i].end < signal'
        /\ signal' <= emitted
        /\ Recording => signal' < emitted + left
    BY <1>3, <1>4 DEF IInv, IOrder
  <2>2. /\ \A i \in 1 .. Len(syncQ') : syncQ'[i] <= emitted /\ 0 < syncQ'[i]
        /\ Recording => \A i \in 1 .. Len(syncQ') : syncQ'[i] < emitted + left
        /\ \A i \in 1 .. Len(acks), j \in 1 .. Len(syncQ') : acks[i].end < syncQ'[j]
    BY <1>4, <1>5 DEF IInv, IOrder
  <2>3. \A i, j \in 1 .. Len(syncQ') : i < j => syncQ'[i] < syncQ'[j]
    <3> TAKE i, j \in 1 .. Len(syncQ')
    <3>1. i < j => i + 1 < j + 1
      BY <1>4
    <3> QED BY <3>1, <1>4, <1>5 DEF IInv, IOrder
  <2> QED BY <1>1, <1>8, <2>1, <2>2, <2>3 DEF IInv, IOrder, Recording
<1>10. Outstanding' = Outstanding
  BY <1>1, <1>2, <1>4, <1>8 DEF Outstanding
<1>11. UNCHANGED Taken
  BY <1>1, SameTaken
<1>12. ITake'
  <2>1. fpc = "pop" /\ ~err => signal' <= durable /\ \A i \in 1 .. take - 1 : syncQ'[i] <= durable
    <3> SUFFICES ASSUME fpc = "pop", ~err
                 PROVE  signal' <= durable /\ \A i \in 1 .. take - 1 : syncQ'[i] <= durable
      OBVIOUS
    <3>1. \A i \in 1 .. take : syncQ[i] <= durable
      BY <1>1 DEF IInv, ITake
    <3>2. 1 \in 1 .. take /\ \A i \in 1 .. take - 1 : i \in 1 .. Len(syncQ') /\ i + 1 \in 1 .. take
      BY <1>1, <1>2, <1>4
    <3> QED BY <3>1, <3>2, <1>4
  <2> QED BY <1>1, <1>8, <1>10, <1>11, <2>1 DEF IInv, ITake
<1>13. IRoom' /\ IClose'
  BY <1>1, <1>10 DEF IInv, IRoom, Recording, IClose
<1> QED BY <1>6, <1>7, <1>9, <1>12, <1>13 DEF IInv

LEMMA DoneStep ==
  ASSUME IInv, Done
  PROVE  IInv'
<1> USE DEF writerVars, blockVars, condVars, fileVars
<1> DEFINE ack == [end |-> signal, err |-> err \/ ferr]
<1>1. /\ fpc \in {"pop", "popErr"} /\ signal # 0 /\ signal' = 0 /\ take' = take - 1 /\ acks' = Append(acks, ack)
      /\ UNCHANGED <<writerVars, blockVars, syncQ, condVars, fpc, ferr, err, grabbed, data, synced, fileVars>>
  BY DEF Done, Popping
<1>2. /\ acks \in Seq(AckType) /\ Len(acks) \in Nat /\ signal \in Nat /\ err \in BOOLEAN /\ ferr \in BOOLEAN
      /\ take \in Nat /\ take > 0 /\ emitted \in Nat /\ left \in Nat /\ Len(syncQ) \in Nat
  BY <1>1, Elements DEF IInv, IType, ITake
<1>3. ack \in AckType /\ ack.end = signal /\ ack.err = (err \/ ferr)
  BY <1>2 DEF AckType
<1> HIDE DEF ack
<1>4. /\ acks' \in Seq(AckType) /\ Len(acks') = Len(acks) + 1
      /\ \A i \in 1 .. Len(acks) : acks'[i] = acks[i]
      /\ acks'[Len(acks) + 1] = ack
  BY <1>1, <1>2, <1>3, AppendProperties
<1>5. \A i \in 1 .. Len(acks') : (i \in 1 .. Len(acks) /\ acks'[i] = acks[i] /\ i # Len(acks) + 1)
                                 \/ (i = Len(acks) + 1 /\ acks'[i] = ack)
  BY <1>2, <1>4
<1>6. IType'
  BY <1>1, <1>2, <1>4 DEF IInv, IType
<1>7. IBlocks' /\ IStream'
  BY <1>1, SameBlocks, SameStream DEF IInv
<1>8. IErrors'
  <2>1. \A i \in 1 .. Len(acks') : acks'[i].err => err \/ ferr
    BY <1>3, <1>5 DEF IInv, IErrors
  <2>2. \A i, j \in 1 .. Len(acks') : i < j /\ acks'[i].err => acks'[j].err
    <3> SUFFICES ASSUME NEW i \in 1 .. Len(acks'), NEW j \in 1 .. Len(acks'), i < j, acks'[i].err
                 PROVE  acks'[j].err
      OBVIOUS
    <3>1. CASE j = Len(acks) + 1
      BY <3>1, <2>1, <1>3, <1>5
    <3>2. CASE j # Len(acks) + 1
      <4>1. i \in 1 .. Len(acks) /\ j \in 1 .. Len(acks)
        BY <3>2, <1>2, <1>4
      <4> QED BY <4>1, <1>4 DEF IInv, IErrors
    <3> QED BY <3>1, <3>2
  <2> QED BY <2>1, <2>2, <1>1 DEF IInv, IErrors
<1>9. IOrder'
  <2>1. /\ \A i \in 1 .. Len(acks') : acks'[i].end <= emitted
        /\ Recording => \A i \in 1 .. Len(acks') : acks'[i].end < emitted + left
        /\ \A i \in 1 .. Len(acks'), j \in 1 .. Len(syncQ) : acks'[i].end < syncQ[j]
    BY <1>1, <1>3, <1>5 DEF IInv, IOrder
  <2>2. \A i, j \in 1 .. Len(acks') : i < j => acks'[i].end < acks'[j].end
    <3> SUFFICES ASSUME NEW i \in 1 .. Len(acks'), NEW j \in 1 .. Len(acks'), i < j
                 PROVE  acks'[i].end < acks'[j].end
      OBVIOUS
    <3>1. i \in 1 .. Len(acks)
      BY <1>2, <1>4
    <3>2. CASE j = Len(acks) + 1
      BY <3>1, <3>2, <1>1, <1>3, <1>4 DEF IInv, IOrder
    <3>3. CASE j # Len(acks) + 1
      <4>1. j \in 1 .. Len(acks)
        BY <3>3, <1>2, <1>4
      <4> QED BY <3>1, <4>1, <1>4 DEF IInv, IOrder
    <3> QED BY <3>2, <3>3
  <2>3. Recording => 0 < emitted + left
    BY <1>1, <1>2 DEF IInv, IOrder
  <2> QED BY <1>1, <1>2, <2>1, <2>2, <2>3 DEF IInv, IOrder, Recording
<1>10. UNCHANGED Taken
  BY <1>1, SameTaken
<1>11. Outstanding' = Outstanding - 1 /\ Outstanding \in Nat
  BY <1>1, <1>2 DEF Outstanding
<1>12. ITake'
  <2>1. \A i \in 1 .. Len(acks') : ~acks'[i].err => acks'[i].end <= durable
    <3>1. ~err /\ ~ferr => fpc = "pop" /\ signal <= durable
      BY <1>1 DEF IInv, IErrors, ITake
    <3> QED BY <3>1, <1>3, <1>5 DEF IInv, ITake
  <2>2. take' <= Outstanding'
    BY <1>1, <1>2, <1>11 DEF IInv, ITake
  <2>3. durable \in Nat
    BY DEF IInv, IType
  <2> QED BY <1>1, <1>10, <2>1, <2>2, <2>3 DEF IInv, ITake
<1>13. IRoom' /\ IClose'
  BY <1>1, <1>11 DEF IInv, IRoom, Recording, IClose
<1> QED BY <1>6, <1>7, <1>8, <1>9, <1>12, <1>13 DEF IInv

LEMMA PropagatedStep ==
  ASSUME IInv, Propagated
  PROVE  IInv'
<1> USE DEF Propagated, writerVars, blockVars, condVars, fileVars
<1>1. IType'
  BY EmptySeq DEF IInv, IType
<1>2. ferr
  BY DEF IInv, IErrors
<1>3. IErrors' /\ IClose' /\ IStream'
  BY <1>2 DEF IInv, IErrors, IClose, IStream
<1>4. IBlocks' /\ IOrder' /\ IRoom'
  BY SameBlocks, SameOrder, SameRoom DEF IInv, Recording
<1>5. ITake'
  BY DEF IInv, ITake, Outstanding
<1> QED BY <1>1, <1>3, <1>4, <1>5 DEF IInv

LEMMA FlushedStep ==
  ASSUME IInv, NEW interval \in Intervals, Flushed(interval)
  PROVE  IInv'
<1> USE DEF writerVars, blockVars, fileVars
<1>1. /\ fpc = "pop" /\ fpc' = "check" /\ take = 0 /\ signal = 0 /\ ferr' = err /\ err' = FALSE
      /\ UNCHANGED <<writerVars, blockVars, syncQ, closing, grabbed, data, take, signal, fileVars, acks>>
  BY DEF Flushed
<1>2. ~ferr
  BY <1>1 DEF IInv, IErrors
<1>3. IType' /\ IErrors' /\ IClose'
  BY <1>1, <1>2 DEF IInv, IType, IErrors, IClose
<1>4. IBlocks' /\ IOrder' /\ IRoom'
  BY <1>1, SameBlocks, SameOrder, SameRoom DEF IInv, Recording
<1>5. UNCHANGED Taken
  BY <1>1, SameTaken
<1>6. IStream' /\ ITake'
  BY <1>1, <1>2, <1>5 DEF IInv, IStream, ITake, Outstanding
<1> QED BY <1>3, <1>4, <1>6 DEF IInv

(* Steps that leave all that the invariant speaks of as it is. *)
LEMMA QuietStep ==
  ASSUME IInv, UNCHANGED <<writerVars, blockVars, syncQ, closing, loopVars, fileVars, acks>>
  PROVE  IInv'
<1> USE DEF writerVars, blockVars, loopVars, fileVars
<1>1. IType' /\ IClose'
  BY DEF IInv, IType, IClose
<1>2. IBlocks' /\ IStream' /\ IErrors' /\ ITake'
  BY SameBlocks, SameStream, SameErrors, SameTaken, SameTake DEF IInv
<1>3. IOrder' /\ IRoom'
  BY SameOrder, SameRoom DEF IInv, Recording
<1> QED BY <1>1, <1>2, <1>3 DEF IInv

-----------------------------------------------------------------------------
(* The theorems.                                                           *)

LEMMA InitInvariant == Init => IInv
<1> SUFFICES ASSUME Init PROVE IInv
  OBVIOUS
<1> USE DEF Init, EmptyBlock
<1>1. IType
  BY EmptySeq DEF IType, BlockType
<1>2. IBlocks /\ IStream
  BY DEF IBlocks, IStream, Consecutive, Taken
<1>3. IErrors /\ IOrder /\ ITake /\ IRoom /\ IClose
  BY DEF IErrors, IOrder, ITake, IRoom, IClose, Recording, Outstanding
<1> QED BY <1>1, <1>2, <1>3 DEF IInv

LEMMA NextInvariant == IInv /\ [Next]_vars => IInv'
<1> SUFFICES ASSUME IInv, [Next]_vars PROVE IInv'
  OBVIOUS
<1>1. CASE \E n \in RecordSizes, withSync \in BOOLEAN : SyncRecord(n, withSync)
  BY <1>1, SyncRecordStep
<1>2. CASE Close
  BY <1>2, CloseStep
<1>3. CASE Writer
  BY <1>3, EmitFragmentStep, AllocBlockStep, QueueBlockStep, PushStep, SignalReadyStep, CloseSignalStep,
     CloseSyncStep DEF Writer
<1>4. CASE FlushLoop
  BY <1>4, CheckWorkStep, WaitStep, GrabSyncStep, GrabDataStep, FlushBlockStep, FlushDataStep, SyncFileStep,
     PopSlotStep, DoneStep, PropagatedStep, FlushedStep DEF FlushLoop
<1>5. CASE Timer
  BY <1>5, QuietStep DEF Timer, TimerFires, TimerSignals
<1>6. CASE UNCHANGED vars
  BY <1>6, QuietStep DEF vars, condVars
<1> QED BY <1>1, <1>2, <1>3, <1>4, <1>5, <1>6 DEF Next, Terminated

(* The inductive invariant of the log writer: the pieces of the stream between  *)
(* the committer's block and the file lie end to end, the waiters are ordered   *)
(* by their records, and those the flush loop has loaded are taken with them.   *)
THEOREM LogWriterInvariant == Spec => []IInv
<1> QED BY InitInvariant, NextInvariant, PTL DEF Spec

(* The WAL writer keeps its promises in every interleaving of the committer,    *)
(* the flush loop and the min-sync-interval timer, whichever calls of the file  *)
(* fail: the file is a prefix of the stream, a waiter signalled without an      *)
(* error has its record durable, waiters are signalled in order and errors      *)
(* stick, the sync queue does not overflow, and a Close without an error has    *)
(* made all of the log durable.                                                 *)
THEOREM LogWriterSafeAlways == Spec => []LogWriterSafe
<1>1. IInv => LogWriterSafe
  <2> SUFFICES ASSUME IInv PROVE LogWriterSafe
    OBVIOUS
  <2>1. /\ DOMAIN acks = 1 .. Len(acks) /\ DOMAIN file = 1 .. Len(file)
        /\ acks \in Seq(AckType) /\ syncQ \in Seq(Nat) /\ signal \in Nat
    BY LenProperties DEF IInv, IType
  <2>2. FileIsPrefix /\ AckedDurable /\ ErrorsStick
    BY <2>1 DEF IInv, IStream, ITake, IErrors, FileIsPrefix, AckedDurable, ErrorsStick
  <2>3. NeverFull
    BY <2>1, Elements DEF IInv, IRoom, IOrder, Recording, Outstanding, NeverFull, QueueFull
  <2>4. CloseDurable
    BY DEF IInv, IClose, CloseDurable
  <2>5. AcksInOrder
    <3> DEFINE ends == [i \in DOMAIN acks |-> acks[i].end]
               sig == IF signal = 0 THEN <<>> ELSE <<signal>>
               m == Len(ends)
               k == Len(sig)
               waiters == ends \o sig \o syncQ
    <3>1. ends \in Seq(Nat) /\ Len(acks) = m /\ m \in Nat /\ \A i \in 1 .. m : ends[i] = acks[i].end
      <4>1. ends \in [1 .. Len(acks) -> Nat] /\ Len(acks) \in Nat
        BY <2>1, Elements DEF IInv
      <4> QED BY <4>1, <2>1
    <3>2. sig \in Seq(Nat) /\ k \in {0, 1} /\ (k = 1 => signal # 0 /\ sig[1] = signal)
      BY <2>1
    <3> HIDE DEF ends, sig
    <3>3. /\ ends \o sig \in Seq(Nat) /\ Len(ends \o sig) = m + k
          /\ \A i \in 1 .. m + k : (ends \o sig)[i] = IF i <= m THEN ends[i] ELSE sig[i - m]
      BY <3>1, <3>2, ConcatProperties
    <3>4. /\ waiters \in Seq(Nat) /\ Len(waiters) = m + k + Len(syncQ)
          /\ \A i \in 1 .. m + k + Len(syncQ) :
               waiters[i] = IF i <= m + k THEN (ends \o sig)[i] ELSE syncQ[i - (m + k)]
      BY <3>3, <2>1, ConcatProperties
    <3>5. DOMAIN waiters = 1 .. m + k + Len(syncQ) /\ Len(syncQ) \in Nat
      BY <3>4, <2>1, LenProperties
    <3>6. ASSUME NEW i \in 1 .. m + k + Len(syncQ)
          PROVE  \/ i \in 1 .. m /\ waiters[i] = acks[i].end
                 \/ i = m + 1 /\ k = 1 /\ signal # 0 /\ waiters[i] = signal
                 \/ i - (m + k) \in 1 .. Len(syncQ) /\ waiters[i] = syncQ[i - (m + k)]
      <4> HIDE DEF m, k, waiters
      <4>1. CASE i <= m
        <5>1. i \in 1 .. m /\ i \in 1 .. m + k /\ i <= m + k
          BY <4>1, <3>1, <3>2
        <5> QED BY <4>1, <5>1, <3>1, <3>3, <3>4
      <4>2. CASE m < i /\ i <= m + k
        <5>1. k = 1 /\ i = m + 1 /\ i - m = 1 /\ ~(i <= m) /\ i \in 1 .. m + k
          BY <4>2, <3>1, <3>2
        <5> QED BY <4>2, <5>1, <3>2, <3>3, <3>4
      <4>3. CASE m + k < i
        <5>1. i - (m + k) \in 1 .. Len(syncQ) /\ ~(i <= m + k)
          BY <4>3, <3>1, <3>2, <3>5
        <5> QED BY <5>1, <3>4
      <4> QED BY <4>1, <4>2, <4>3, <3>1, <3>2
    <3>7. ASSUME NEW i \in 1 .. m + k + Len(syncQ), NEW j \in 1 .. m + k + Len(syncQ), i < j
          PROVE  waiters[i] < waiters[j]
      <4> HIDE DEF m, k, waiters
      <4>1. \/ j \in 1 .. m /\ waiters[j] = acks[j].end
            \/ j = m + 1 /\ k = 1 /\ signal # 0 /\ waiters[j] = signal
            \/ j - (m + k) \in 1 .. Len(syncQ) /\ waiters[j] = syncQ[j - (m + k)]
        BY <3>6
      <4>5. i \in Int /\ j \in Int /\ m \in Nat /\ k \in Nat /\ Len(acks) = m
        BY <3>1, <3>2, <3>5
      <4>2. CASE i \in 1 .. m /\ waiters[i] = acks[i].end
        <5>1. CASE j \in 1 .. m /\ waiters[j] = acks[j].end
          BY <3>7, <4>2, <5>1, <4>5 DEF IInv, IOrder
        <5>2. CASE j = m + 1 /\ k = 1 /\ signal # 0 /\ waiters[j] = signal
          BY <4>2, <5>2, <3>1 DEF IInv, IOrder
        <5>3. CASE j - (m + k) \in 1 .. Len(syncQ) /\ waiters[j] = syncQ[j - (m + k)]
          BY <4>2, <5>3, <3>1 DEF IInv, IOrder
        <5> QED BY <4>1, <5>1, <5>2, <5>3
      <4>3. CASE i = m + 1 /\ k = 1 /\ signal # 0 /\ waiters[i] = signal
        <5>1. ~(j \in 1 .. m) /\ j # m + 1
          BY <3>7, <4>3, <4>5
        <5>2. j - (m + k) \in 1 .. Len(syncQ) /\ waiters[j] = syncQ[j - (m + k)]
          BY <5>1, <4>1
        <5> QED BY <4>3, <5>2 DEF IInv, IOrder
      <4>4. CASE i - (m + k) \in 1 .. Len(syncQ) /\ waiters[i] = syncQ[i - (m + k)]
        <5>1. /\ ~(j \in 1 .. m) /\ ~(j = m + 1 /\ k = 1) /\ i - (m + k) < j - (m + k)
          BY <3>7, <4>4, <4>5
        <5>2. j - (m + k) \in 1 .. Len(syncQ) /\ waiters[j] = syncQ[j - (m + k)]
          BY <5>1, <4>1
        <5> QED BY <4>4, <5>1, <5>2 DEF IInv, IOrder
      <4> QED BY <4>2, <4>3, <4>4, <3>6
    <3> QED BY <3>5, <3>7 DEF AcksInOrder, ends, sig
  <2> QED BY <2>2, <2>3, <2>4, <2>5 DEF LogWriterSafe
<1> QED BY <1>1, LogWriterInvariant, PTL

=============================================================================
