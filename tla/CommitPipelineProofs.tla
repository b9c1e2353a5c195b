------------------------ MODULE CommitPipelineProofs ------------------------
(***************************************************************************)
(* Proofs about CommitPipeline, for any number of goroutines, slots and     *)
(* batches.  The inductive invariant IInv relates the ring of slots, the    *)
(* goroutines that are dequeuing (with possibly stale loads of headTail and *)
(* of a slot), the publishers and the WaitGroups.                           *)
(***************************************************************************)
EXTENDS CommitPipeline, TLAPS

(* A batch that is in the queue or was dequeued and whose call is running. *)
Live(p) == pc[p] \notin {"idle", "lock", "enqSlot", "enqHead"}

(* A batch some goroutine has dequeued and not signalled yet. *)
BeingPublished(q) == \E p \in Procs : pc[p] \in Publishing /\ t[p] = q

(* publish has marked the batch. *)
Marked == {"load", "peek", "check", "cas", "clear", "ratchet", "swap", "signal", "wait"}

Batch == Procs \union {NoBatch}

(* Types, in the groups the proofs need. *)
TPc    == pc \in [Procs -> States] /\ mu \in Batch
TQueue == /\ head \in Nat /\ tail \in Nat /\ pos \in [Procs -> Nat]
          /\ slots \in [0 .. SyncConcurrency - 1 -> Batch]
TSeq   == /\ logSeqNum \in Nat /\ visibleSeqNum \in Nat
          /\ seqNum \in [Procs -> Nat] /\ count \in [Procs -> Nat] /\ done \in [Procs -> Nat]
TBatch == /\ kind \in [Procs -> {"Commit", "AllocateSeqNum"}] /\ syncWAL \in [Procs -> BOOLEAN]
          /\ applied \in [Procs -> BOOLEAN]
          /\ commit \in [Procs -> Int] /\ syncQ \subseteq Procs
TLocal == ptrs \in [Procs -> Nat \X Nat] /\ t \in [Procs -> Batch] /\ seen \in [Procs -> Nat]
TWal   == /\ wal \in Seq(Nat) /\ synced \in Nat /\ walPos \in [Procs -> Nat]
          /\ sem \in Int
IType  == TPc /\ TQueue /\ TSeq /\ TBatch /\ TLocal /\ TWal

(* The mutex protects enqueueing and sequencing. *)
IMutex == \A p \in Procs : pc[p] \in Locked <=> mu = p

(* The ring. *)
IQueue ==
  /\ tail <= head /\ head <= tail + SyncConcurrency
  /\ \A p \in Procs : Live(p) => pos[p] < head
  /\ \A p, q \in Procs : Live(p) /\ Live(q) /\ p # q => pos[p] # pos[q]
  /\ \A p \in Procs : Live(p) /\ tail <= pos[p] => slots[Slot(pos[p])] = p
  /\ \A i \in Nat : tail <= i /\ i < head =>
       \E b \in Procs : slots[Slot(i)] = b /\ Live(b) /\ pos[b] = i

(* The producer between its two writes. *)
IProducer ==
  \A p \in Procs :
    /\ pc[p] = "enqHead" =>
         pos[p] = head /\ slots[Slot(head)] = p /\ head < tail + SyncConcurrency
    /\ pc[p] = "assign" => pos[p] = head - 1

(* A consumer's loads are stale or right. *)
ILoads ==
  \A p \in Procs :
    /\ pc[p] \in {"peek", "check", "cas"} =>
         ptrs[p][1] <= head /\ ptrs[p][2] <= tail /\ ptrs[p][2] < ptrs[p][1]
    /\ pc[p] \in {"check", "cas"} => t[p] \in Procs
    /\ pc[p] \in {"check", "cas"} /\ ptrs[p][2] = tail => t[p] = slots[Slot(tail)]
    /\ pc[p] = "cas" /\ ptrs[p][2] = tail => applied[t[p]]

(* A publisher owns a dequeued batch, alone, and a clearer still owns its slot. *)
IPublisher ==
  /\ \A p \in Procs : pc[p] \in Publishing =>
       t[p] \in Procs /\ Live(t[p]) /\ pos[t[p]] < tail
  /\ \A p, q \in Procs : pc[p] \in Publishing /\ pc[q] \in Publishing /\ p # q => t[p] # t[q]
  /\ \A p \in Procs : pc[p] = "clear" =>
       /\ ptrs[p][2] = pos[t[p]]
       /\ slots[Slot(ptrs[p][2])] = t[p]
       /\ head <= ptrs[p][2] + SyncConcurrency
       /\ \A q \in Procs : pc[q] = "enqHead" => head < ptrs[p][2] + SyncConcurrency
  /\ \A p \in Procs : pc[p] = "swap" => seen[p] < NewSeqNum(p)

(* A batch is marked when all of it is applied, and dequeued only then. *)
IApplied ==
  \A p \in Procs :
    /\ applied[p] <=> pc[p] \in Marked
    /\ pc[p] \in Marked \union {"mark"} => done[p] = count[p]
    /\ Live(p) /\ pos[p] < tail => applied[p]

(* Sequence numbers are in queue order. *)
IOrder ==
  /\ \A p \in Procs : Assigned(p) => EndSeqNum(p) <= logSeqNum
  /\ \A p, q \in Procs : Assigned(p) /\ Assigned(q) /\ pos[p] < pos[q] =>
       EndSeqNum(p) <= seqNum[q]

(* Visibility is below what is queued and above what is signalled. *)
IVisible ==
  /\ visibleSeqNum <= logSeqNum
  /\ \A p \in Procs : Assigned(p) /\ tail <= pos[p] => visibleSeqNum <= seqNum[p]
  /\ \A p \in Procs : pc[p] = "signal" => NewSeqNum(p) <= visibleSeqNum
  /\ \A p \in Procs : Live(p) /\ pos[p] < tail /\ ~BeingPublished(p) =>
       EndSeqNum(p) <= visibleSeqNum
  /\ \A p \in Procs : Assigned(p) =>
       ~(seqNum[p] < visibleSeqNum /\ visibleSeqNum < EndSeqNum(p))

(* The WaitGroup counts the publication and the WAL sync that are due. *)
PublishDue(p) ==
  pc[p] \in {"lock", "enqSlot", "enqHead"} \/ (Live(p) /\ (tail <= pos[p] \/ BeingPublished(p)))
SyncDue(p) ==
  syncWAL[p] /\ (pc[p] \in {"lock", "enqSlot", "enqHead", "assign", "write"} \/ p \in syncQ)
ICommit ==
  \A p \in Procs :
    /\ commit[p] = (IF PublishDue(p) THEN 1 ELSE 0) + (IF SyncDue(p) THEN 1 ELSE 0)
    /\ p \in syncQ => syncWAL[p] /\ Live(p) /\ pc[p] \notin {"assign", "write"}
    /\ syncWAL[p] => kind[p] = "Commit"

IInv ==
  IType /\ IMutex /\ IQueue /\ IProducer /\ ILoads /\ IPublisher /\ IApplied
    /\ IOrder /\ IVisible /\ ICommit

-----------------------------------------------------------------------------
(* Two indices less than SyncConcurrency apart never share a slot. *)
LEMMA SlotType == \A i \in Nat : Slot(i) \in 0 .. SyncConcurrency - 1
  BY ConcurrencyAssumption DEF Slot

LEMMA SlotDistinct ==
  ASSUME NEW i \in Nat, NEW j \in Nat, i < j, j < i + SyncConcurrency
  PROVE  Slot(i) # Slot(j)
<1> DEFINE a == i \div SyncConcurrency
           b == j \div SyncConcurrency
<1>1. /\ a \in Int /\ b \in Int
      /\ i = SyncConcurrency * a + (i % SyncConcurrency)
      /\ j = SyncConcurrency * b + (j % SyncConcurrency)
  BY ConcurrencyAssumption
<1>2. SUFFICES ASSUME Slot(i) = Slot(j) PROVE FALSE
  OBVIOUS
<1>3. PICK k \in Int : k = b - a
  BY <1>1
<1>4. j - i = SyncConcurrency * b - SyncConcurrency * a
  BY <1>1, <1>2, ConcurrencyAssumption DEF Slot
<1>5. SyncConcurrency * b - SyncConcurrency * a = SyncConcurrency * k
  BY <1>1, <1>3, ConcurrencyAssumption
<1>6. CASE k <= 0
  <2>1. SyncConcurrency * k <= 0
    BY <1>6, <1>3, ConcurrencyAssumption
  <2> QED BY <2>1, <1>4, <1>5
<1>7. CASE k >= 1
  <2>1. SyncConcurrency * k >= SyncConcurrency
    BY <1>7, <1>3, ConcurrencyAssumption
  <2> QED BY <2>1, <1>4, <1>5, ConcurrencyAssumption
<1> QED BY <1>3, <1>6, <1>7

-----------------------------------------------------------------------------
(* Most steps leave the queue and the sequence numbers alone and move one
   goroutine between steps in which its batch has its sequence numbers. *)
Others(p) ==
  \A q \in Procs : q # p =>
    pc'[q] = pc[q] /\ t'[q] = t[q] /\ ptrs'[q] = ptrs[q] /\ seen'[q] = seen[q]

Calm(p) ==
  /\ UNCHANGED <<head, tail, slots, pos, seqNum, count, logSeqNum>>
  /\ Assigned(p) /\ Assigned(p)'
  /\ Others(p)

LEMMA CalmPredicates ==
  ASSUME NEW p \in Procs, Calm(p)
  PROVE  \A q \in Procs :
           /\ Live(q)' <=> Live(q)
           /\ Assigned(q)' <=> Assigned(q)
           /\ EndSeqNum(q)' = EndSeqNum(q)
  BY DEF Calm, Others, Live, Assigned, EndSeqNum

LEMMA CalmQueue ==
  ASSUME NEW p \in Procs, Calm(p), IQueue
  PROVE  IQueue'
<1>1. \A q \in Procs : Live(q)' <=> Live(q)
  BY CalmPredicates
<1>2. UNCHANGED <<head, tail, slots, pos>>
  BY DEF Calm
<1> QED BY <1>1, <1>2 DEF IQueue, Slot

LEMMA CalmProducer ==
  ASSUME NEW p \in Procs, Calm(p), IProducer
  PROVE  IProducer'
<1>1. \A q \in Procs : pc'[q] \in {"enqHead", "assign"} => pc'[q] = pc[q]
  BY DEF Calm, Others, Assigned
<1> QED BY <1>1 DEF Calm, IProducer, Slot

LEMMA CalmOrder ==
  ASSUME NEW p \in Procs, Calm(p), IOrder
  PROVE  IOrder'
  BY CalmPredicates DEF Calm, IOrder

(* Loads of the other consumers stay what they were. *)
LEMMA CalmLoads ==
  ASSUME NEW p \in Procs, Calm(p), ILoads,
         \A q \in Procs : applied[q] => applied'[q],
         pc'[p] \notin {"peek", "check", "cas"}
  PROVE  ILoads'
<1>1. \A q \in Procs : pc'[q] \in {"peek", "check", "cas"} =>
        pc'[q] = pc[q] /\ t'[q] = t[q] /\ ptrs'[q] = ptrs[q]
  BY DEF Calm, Others
<1> QED BY <1>1 DEF Calm, ILoads, Slot

(* A step that starts or ends no publication. *)
SamePublication(p) ==
  /\ pc[p] \in Publishing <=> pc'[p] \in Publishing
  /\ pc[p] \in Publishing => t'[p] = t[p]

LEMMA CalmPublished ==
  ASSUME NEW p \in Procs, Calm(p), SamePublication(p)
  PROVE  \A q \in Procs : BeingPublished(q)' <=> BeingPublished(q)
  BY DEF Calm, Others, BeingPublished, SamePublication

LEMMA CalmPublisher ==
  ASSUME NEW p \in Procs, Calm(p), IPublisher,
         pc'[p] \in Publishing => pc'[p] # "clear" /\ pc[p] \in Publishing /\ t'[p] = t[p],
         pc'[p] = "swap" => seen'[p] < NewSeqNum(p)
  PROVE  IPublisher'
<1>1. \A q \in Procs : pc'[q] \in Publishing => pc[q] \in Publishing /\ t'[q] = t[q]
  BY DEF Calm, Others
<1>2. \A q \in Procs : pc'[q] = "clear" => pc[q] = "clear" /\ ptrs'[q] = ptrs[q]
  BY DEF Calm, Others, Publishing
<1>3. \A q \in Procs : pc'[q] = "swap" => seen'[q] < NewSeqNum(q)
  BY DEF Calm, Others, IPublisher
<1>4. \A q \in Procs : Live(q)' <=> Live(q)
  BY CalmPredicates
<1>5. \A q \in Procs : pc'[q] = "enqHead" => pc[q] = "enqHead"
  BY DEF Calm, Others, Assigned
<1> QED BY <1>1, <1>2, <1>3, <1>4, <1>5 DEF Calm, IPublisher, Slot, NewSeqNum, Publishing

LEMMA CalmApplied ==
  ASSUME NEW p \in Procs, Calm(p), IApplied, UNCHANGED <<applied, done>>,
         pc[p] \in Marked <=> pc'[p] \in Marked,
         pc'[p] = "mark" => done[p] = count[p]
  PROVE  IApplied'
<1>1. \A q \in Procs : pc'[q] \in Marked <=> pc[q] \in Marked
  BY DEF Calm, Others
<1>2. \A q \in Procs : pc'[q] = "mark" => pc[q] = "mark" \/ done[q] = count[q]
  BY DEF Calm, Others
<1> QED BY <1>1, <1>2, CalmPredicates DEF Calm, IApplied

LEMMA CalmVisible ==
  ASSUME NEW p \in Procs, Calm(p), IVisible, visibleSeqNum' = visibleSeqNum,
         SamePublication(p), pc'[p] = "signal" => NewSeqNum(p) <= visibleSeqNum
  PROVE  IVisible'
<1>1. \A q \in Procs : BeingPublished(q)' <=> BeingPublished(q)
  BY CalmPublished
<1>2. \A q \in Procs : pc'[q] = "signal" => NewSeqNum(q) <= visibleSeqNum /\ t'[q] = t[q]
  BY DEF Calm, Others, Publishing, IVisible, SamePublication
<1> QED BY <1>1, <1>2, CalmPredicates DEF Calm, IVisible, NewSeqNum

LEMMA CalmCommit ==
  ASSUME NEW p \in Procs, Calm(p), ICommit, UNCHANGED <<commit, syncQ, syncWAL, kind>>,
         pc[p] # "write", pc'[p] # "write", SamePublication(p)
  PROVE  ICommit'
<1>1. \A q \in Procs : PublishDue(q)' <=> PublishDue(q)
  BY CalmPublished, CalmPredicates DEF Calm, Others, Assigned, PublishDue
<1>2. \A q \in Procs : SyncDue(q)' <=> SyncDue(q)
  BY DEF Calm, Others, Assigned, SyncDue
<1>3. \A q \in Procs : pc'[q] \in {"assign", "write"} <=> pc[q] \in {"assign", "write"}
  BY DEF Calm, Others, Assigned
<1> QED BY <1>1, <1>2, <1>3, CalmPredicates DEF ICommit

-----------------------------------------------------------------------------
(* The steps of applying a batch. *)
LEMMA AwaitVisibleStep ==
  ASSUME NEW p \in Procs, IInv, AwaitVisible(p)
  PROVE  IInv'
<1> USE DEF IInv
<1>1. Calm(p)
  BY DEF IType, TPc, TLocal, AwaitVisible, Goto, Calm, Others, Assigned, queueVars, seqVars, batchVars
<1>2. IType'
  BY DEF IType, TPc, TQueue, TSeq, TBatch, TLocal, TWal, AwaitVisible, Goto, States, Preparing,
         queueVars, seqVars, walVars, batchVars
<1>3. IMutex'
  BY DEF IType, TPc, IMutex, AwaitVisible, Goto, Locked
<1>4. SamePublication(p)
  BY DEF IType, TPc, AwaitVisible, Goto, SamePublication, Publishing
<1>5. ILoads' /\ IPublisher'
  BY <1>1, CalmLoads, CalmPublisher
     DEF IType, TPc, AwaitVisible, Goto, Publishing, batchVars
<1>6. IApplied'
  BY <1>1, CalmApplied DEF IType, TPc, AwaitVisible, Goto, Marked, batchVars
<1>7. IVisible'
  BY <1>1, <1>4, CalmVisible DEF IType, TPc, AwaitVisible, Goto, seqVars
<1>8. ICommit'
  BY <1>1, <1>4, CalmCommit DEF IType, TPc, AwaitVisible, Goto, batchVars, walVars
<1> QED BY <1>1, <1>2, <1>3, <1>5, <1>6, <1>7, <1>8, CalmQueue, CalmProducer, CalmOrder

LEMMA PrepareStep ==
  ASSUME NEW p \in Procs, IInv, Prepare(p)
  PROVE  IInv'
<1> USE DEF IInv
<1>1. Calm(p)
  BY DEF IType, TPc, TLocal, Prepare, Goto, Forget, Calm, Others, Assigned, queueVars, seqVars, walVars, batchVars, localVars
<1>2. IType'
  BY DEF IType, TPc, TQueue, TSeq, TBatch, TLocal, TWal, Prepare, Goto, Forget, States, Preparing,
         Dequeuing, Publishing, Batch, queueVars, seqVars, walVars, batchVars, localVars
<1>3. IMutex'
  BY ProcsAssumption DEF IType, TPc, IMutex, Prepare, Goto, Locked
<1>4. SamePublication(p)
  BY DEF IType, TPc, Prepare, Goto, SamePublication, Publishing, queueVars, seqVars, walVars, batchVars, localVars
<1>5. ILoads'
  BY <1>1, CalmLoads DEF IType, TPc, Prepare, Goto, queueVars, seqVars, walVars, batchVars, localVars
<1>6. IPublisher'
  BY <1>1, CalmPublisher DEF IType, TPc, Prepare, Goto, Publishing
<1>7. IApplied'
  BY <1>1, CalmApplied DEF IType, TPc, Prepare, Goto, Marked, queueVars, seqVars, walVars, batchVars, localVars
<1>8. IVisible'
  BY <1>1, <1>4, CalmVisible DEF IType, TPc, Prepare, Goto, queueVars, seqVars, walVars, batchVars, localVars
<1>9. ICommit'
  BY <1>1, <1>4, CalmCommit DEF IType, TPc, Prepare, Goto, queueVars, seqVars, walVars, batchVars, localVars
<1> QED BY <1>1, <1>2, <1>3, <1>5, <1>6, <1>7, <1>8, <1>9, CalmQueue, CalmProducer, CalmOrder

LEMMA ApplyOpStep ==
  ASSUME NEW p \in Procs, IInv, ApplyOp(p)
  PROVE  IInv'
<1> USE DEF IInv
<1>1. Calm(p)
  BY DEF IType, TPc, TLocal, ApplyOp, Goto, Forget, Calm, Others, Assigned, queueVars, seqVars, walVars, batchVars, localVars
<1>2. IType'
  <2>1. TPc'
    BY DEF IType, TPc, ApplyOp, Goto, States, Preparing, Dequeuing, Publishing, Batch
  <2>2. TQueue'
    BY DEF IType, TQueue, ApplyOp, queueVars
  <2>3. TSeq'
    BY DEF IType, TSeq, ApplyOp, seqVars, batchVars
  <2>4. TBatch'
    BY DEF IType, TBatch, ApplyOp, walVars, batchVars
  <2>5. TLocal'
    BY DEF IType, TLocal, ApplyOp, localVars
  <2>6. TWal'
    BY DEF IType, TWal, TSeq, ApplyOp, walVars
  <2> QED BY <2>1, <2>2, <2>3, <2>4, <2>5, <2>6 DEF IType
<1>3. IMutex'
  BY DEF IType, TPc, IMutex, ApplyOp, Goto, Locked
<1>4. SamePublication(p)
  BY DEF IType, TPc, ApplyOp, Goto, SamePublication, Publishing, queueVars, seqVars, walVars, batchVars, localVars
<1>5. ILoads'
  BY <1>1, CalmLoads DEF IType, TPc, ApplyOp, Goto, queueVars, seqVars, walVars, batchVars, localVars
<1>6. IPublisher'
  BY <1>1, CalmPublisher DEF IType, TPc, ApplyOp, Goto, Publishing
<1>7. IApplied'
  <2>1. \A q \in Procs : pc'[q] = pc[q] /\ (q # p => done'[q] = done[q])
    BY DEF IType, TSeq, ApplyOp
  <2>2. pc[p] \notin Marked \union {"mark"}
    BY DEF ApplyOp, Marked
  <2> QED BY <1>1, <2>1, <2>2, CalmPredicates DEF Calm, ApplyOp, IApplied
<1>8. IVisible'
  BY <1>1, <1>4, CalmVisible DEF IType, TPc, ApplyOp, Goto, queueVars, seqVars, walVars, batchVars, localVars
<1>9. ICommit'
  BY <1>1, <1>4, CalmCommit DEF IType, TPc, ApplyOp, Goto, queueVars, seqVars, walVars, batchVars, localVars
<1> QED BY <1>1, <1>2, <1>3, <1>5, <1>6, <1>7, <1>8, <1>9, CalmQueue, CalmProducer, CalmOrder

LEMMA EndApplyStep ==
  ASSUME NEW p \in Procs, IInv, EndApply(p)
  PROVE  IInv'
<1> USE DEF IInv
<1>1. Calm(p)
  BY DEF IType, TPc, TLocal, EndApply, Goto, Forget, Calm, Others, Assigned, queueVars, seqVars, walVars, batchVars, localVars
<1>2. IType'
  BY DEF IType, TPc, TQueue, TSeq, TBatch, TLocal, TWal, EndApply, Goto, Forget, States, Preparing,
         Dequeuing, Publishing, Batch, queueVars, seqVars, walVars, batchVars, localVars
<1>3. IMutex'
  BY DEF IType, TPc, IMutex, EndApply, Goto, Locked
<1>4. SamePublication(p)
  BY DEF IType, TPc, EndApply, Goto, SamePublication, Publishing, queueVars, seqVars, walVars, batchVars, localVars
<1>5. ILoads'
  BY <1>1, CalmLoads DEF IType, TPc, EndApply, Goto, queueVars, seqVars, walVars, batchVars, localVars
<1>6. IPublisher'
  BY <1>1, CalmPublisher DEF IType, TPc, EndApply, Goto, Publishing
<1>7. IApplied'
  BY <1>1, CalmApplied DEF IType, TPc, EndApply, Goto, Marked, queueVars, seqVars, walVars, batchVars, localVars
<1>8. IVisible'
  BY <1>1, <1>4, CalmVisible DEF IType, TPc, EndApply, Goto, queueVars, seqVars, walVars, batchVars, localVars
<1>9. ICommit'
  BY <1>1, <1>4, CalmCommit DEF IType, TPc, EndApply, Goto, queueVars, seqVars, walVars, batchVars, localVars
<1> QED BY <1>1, <1>2, <1>3, <1>5, <1>6, <1>7, <1>8, <1>9, CalmQueue, CalmProducer, CalmOrder

LEMMA ApplyIngestStep ==
  ASSUME NEW p \in Procs, IInv, ApplyIngest(p)
  PROVE  IInv'
<1> USE DEF IInv
<1>1. Calm(p)
  BY DEF IType, TPc, TLocal, ApplyIngest, Goto, Forget, Calm, Others, Assigned, queueVars, seqVars, walVars, batchVars, localVars
<1>2. IType'
  BY DEF IType, TPc, TQueue, TSeq, TBatch, TLocal, TWal, ApplyIngest, Goto, Forget, States, Preparing,
         Dequeuing, Publishing, Batch, queueVars, seqVars, walVars, batchVars, localVars
<1>3. IMutex'
  BY DEF IType, TPc, IMutex, ApplyIngest, Goto, Locked
<1>4. SamePublication(p)
  BY DEF IType, TPc, ApplyIngest, Goto, SamePublication, Publishing, queueVars, seqVars, walVars, batchVars, localVars
<1>5. ILoads'
  BY <1>1, CalmLoads DEF IType, TPc, ApplyIngest, Goto, queueVars, seqVars, walVars, batchVars, localVars
<1>6. IPublisher'
  BY <1>1, CalmPublisher DEF IType, TPc, ApplyIngest, Goto, Publishing
<1>7. IApplied'
  <2>1. \A q \in Procs : q # p => pc'[q] = pc[q] /\ done'[q] = done[q]
    BY DEF IType, TPc, TSeq, ApplyIngest, Goto
  <2>2. pc[p] \notin Marked /\ pc'[p] = "mark" /\ done'[p] = count[p]
    BY DEF IType, TPc, TSeq, ApplyIngest, Goto, Marked
  <2>3. "mark" \notin Marked
    BY DEF Marked
  <2> QED BY <1>1, <2>1, <2>2, <2>3, CalmPredicates DEF Calm, ApplyIngest, IApplied
<1>8. IVisible'
  BY <1>1, <1>4, CalmVisible DEF IType, TPc, ApplyIngest, Goto, queueVars, seqVars, walVars, batchVars, localVars
<1>9. ICommit'
  BY <1>1, <1>4, CalmCommit DEF IType, TPc, ApplyIngest, Goto, queueVars, seqVars, walVars, batchVars, localVars
<1> QED BY <1>1, <1>2, <1>3, <1>5, <1>6, <1>7, <1>8, <1>9, CalmQueue, CalmProducer, CalmOrder

LEMMA MarkAppliedStep ==
  ASSUME NEW p \in Procs, IInv, MarkApplied(p)
  PROVE  IInv'
<1> USE DEF IInv
<1>1. Calm(p)
  BY DEF IType, TPc, TLocal, MarkApplied, Goto, Forget, Calm, Others, Assigned, queueVars, seqVars, walVars, batchVars, localVars
<1>2. IType'
  BY DEF IType, TPc, TQueue, TSeq, TBatch, TLocal, TWal, MarkApplied, Goto, Forget, States, Preparing,
         Dequeuing, Publishing, Batch, queueVars, seqVars, walVars, batchVars, localVars
<1>3. IMutex'
  BY DEF IType, TPc, IMutex, MarkApplied, Goto, Locked
<1>4. SamePublication(p)
  BY DEF IType, TPc, MarkApplied, Goto, SamePublication, Publishing, queueVars, seqVars, walVars, batchVars, localVars
<1>5. ILoads'
  BY <1>1, CalmLoads DEF IType, TPc, TBatch, MarkApplied, Goto
<1>6. IPublisher'
  BY <1>1, CalmPublisher DEF IType, TPc, MarkApplied, Goto, Publishing
<1>7. IApplied'
  <2>1. \A q \in Procs : q # p => pc'[q] = pc[q] /\ applied'[q] = applied[q]
    BY DEF IType, TPc, TBatch, MarkApplied, Goto
  <2>2. pc[p] = "mark" /\ pc'[p] \in Marked /\ applied'[p]
    BY DEF IType, TPc, TBatch, MarkApplied, Goto, Marked
  <2> QED BY <1>1, <2>1, <2>2, CalmPredicates DEF Calm, MarkApplied, IApplied
<1>8. IVisible'
  BY <1>1, <1>4, CalmVisible DEF IType, TPc, MarkApplied, Goto, queueVars, seqVars, walVars, batchVars, localVars
<1>9. ICommit'
  BY <1>1, <1>4, CalmCommit DEF IType, TPc, MarkApplied, Goto, queueVars, seqVars, walVars, batchVars, localVars
<1> QED BY <1>1, <1>2, <1>3, <1>5, <1>6, <1>7, <1>8, <1>9, CalmQueue, CalmProducer, CalmOrder

(* The WAL's WaitGroup passes from the record's write to the flush loop. *)
LEMMA WriteStep ==
  ASSUME NEW p \in Procs, IInv, Write(p)
  PROVE  IInv'
<1> USE DEF IInv
<1>1. Calm(p)
  BY DEF IType, TPc, TLocal, Write, Goto, Forget, Calm, Others, Assigned, queueVars, seqVars, walVars, batchVars, localVars
<1>2. IType'
  <2>1. TPc'
    BY DEF IType, TPc, Write, Goto, States, Preparing, Dequeuing, Publishing, Batch
  <2>2. TQueue'
    BY DEF IType, TQueue, Write, queueVars
  <2>3. TSeq'
    BY DEF IType, TSeq, Write, seqVars, batchVars
  <2>4. TBatch'
    BY DEF IType, TBatch, Write, walVars, batchVars
  <2>5. TLocal'
    BY DEF IType, TLocal, Write, localVars
  <2>6. TWal'
    BY DEF IType, TWal, TSeq, Write, walVars
  <2> QED BY <2>1, <2>2, <2>3, <2>4, <2>5, <2>6 DEF IType
<1>3. IMutex'
  BY ProcsAssumption DEF IType, TPc, IMutex, Write, Goto, Locked
<1>4. SamePublication(p)
  BY DEF IType, TPc, Write, Goto, SamePublication, Publishing, queueVars, seqVars, walVars, batchVars, localVars
<1>5. ILoads'
  BY <1>1, CalmLoads DEF IType, TPc, Write, Goto, queueVars, seqVars, walVars, batchVars, localVars
<1>6. IPublisher'
  BY <1>1, CalmPublisher DEF IType, TPc, Write, Goto, Publishing
<1>7. IApplied'
  BY <1>1, CalmApplied DEF IType, TPc, Write, Goto, Marked, queueVars, seqVars, walVars, batchVars, localVars
<1>8. IVisible'
  BY <1>1, <1>4, CalmVisible DEF IType, TPc, Write, Goto, queueVars, seqVars, walVars, batchVars, localVars
<1>9. ICommit'
  <2>1. \A q \in Procs : PublishDue(q)' <=> PublishDue(q)
    BY <1>1, <1>4, CalmPublished, CalmPredicates DEF Calm, Others, Assigned, PublishDue
  <2>2. pc[p] = "write" /\ pc'[p] = "apply" /\ UNCHANGED <<commit, syncWAL, kind>>
    BY DEF IType, TPc, Write, Goto, batchVars
  <2>3. \A q \in Procs : q \in syncQ' <=> q \in syncQ \/ (q = p /\ syncWAL[p])
    BY DEF Write
  <2>4. \A q \in Procs : q # p => pc'[q] = pc[q]
    BY <1>1 DEF Calm, Others
  <2>5. \A q \in Procs : SyncDue(q)' <=> SyncDue(q)
    BY <2>2, <2>3, <2>4 DEF SyncDue
  <2>6. \A q \in Procs : q \in syncQ' =>
          syncWAL[q] /\ Live(q)' /\ pc'[q] \notin {"assign", "write"}
    BY <1>1, <2>2, <2>3, <2>4, CalmPredicates DEF ICommit, Live
  <2> QED BY <2>1, <2>2, <2>5, <2>6 DEF ICommit
<1> QED BY <1>1, <1>2, <1>3, <1>5, <1>6, <1>7, <1>8, <1>9, CalmQueue, CalmProducer, CalmOrder

(* The loads of dequeue. *)
LEMMA LoadPtrsStep ==
  ASSUME NEW p \in Procs, IInv, LoadPtrs(p)
  PROVE  IInv'
<1> USE DEF IInv
<1>1. Calm(p)
  BY DEF IType, TPc, TLocal, LoadPtrs, Goto, Forget, Calm, Others, Assigned, queueVars, seqVars, walVars, batchVars, localVars
<1>2. IType'
  <2>1. TPc'
    BY DEF IType, TPc, LoadPtrs, Goto, States, Preparing, Dequeuing, Publishing, Batch
  <2>2. TQueue'
    BY DEF IType, TQueue, LoadPtrs, queueVars
  <2>3. TSeq'
    BY DEF IType, TSeq, LoadPtrs, seqVars, batchVars
  <2>4. TBatch'
    BY DEF IType, TBatch, LoadPtrs, walVars, batchVars
  <2>5. TLocal'
    <3>1. <<head, tail>> \in Nat \X Nat
      BY DEF IType, TQueue
    <3>2. t \in [Procs -> Batch] /\ ptrs \in [Procs -> Nat \X Nat] /\ seen \in [Procs -> Nat]
      BY DEF IType, TLocal
    <3> QED BY <3>1, <3>2 DEF TLocal, LoadPtrs, Forget
  <2>6. TWal'
    BY DEF IType, TWal, TSeq, LoadPtrs, walVars
  <2> QED BY <2>1, <2>2, <2>3, <2>4, <2>5, <2>6 DEF IType
<1>3. IMutex'
  BY DEF IType, TPc, IMutex, LoadPtrs, Goto, Locked
<1>4. SamePublication(p)
  BY DEF IType, TPc, LoadPtrs, Goto, SamePublication, Publishing, queueVars, seqVars, walVars, batchVars, localVars
<1>5. ILoads'
  <2>1. CASE head = tail
    BY <1>1, <2>1, CalmLoads DEF IType, TPc, LoadPtrs, Goto, batchVars
  <2>2. CASE head # tail
    <3>1. pc'[p] = "peek" /\ ptrs'[p] = <<head, tail>>
      BY <2>2 DEF IType, TPc, TLocal, LoadPtrs, Goto
    <3>2. tail < head
      BY <2>2 DEF IType, TQueue, IQueue
    <3>3. \A q \in Procs : q # p => pc'[q] = pc[q] /\ ptrs'[q] = ptrs[q] /\ t'[q] = t[q]
      BY <1>1 DEF Calm, Others
    <3>4. UNCHANGED <<head, tail, slots, applied>>
      BY DEF LoadPtrs, queueVars, batchVars
    <3> QED BY <3>1, <3>2, <3>3, <3>4 DEF ILoads, IType, TQueue, Slot
  <2> QED BY <2>1, <2>2
<1>6. IPublisher'
  BY <1>1, CalmPublisher DEF IType, TPc, LoadPtrs, Goto, Publishing
<1>7. IApplied'
  BY <1>1, CalmApplied DEF IType, TPc, LoadPtrs, Goto, Marked, queueVars, seqVars, walVars, batchVars, localVars
<1>8. IVisible'
  BY <1>1, <1>4, CalmVisible DEF IType, TPc, LoadPtrs, Goto, queueVars, seqVars, walVars, batchVars, localVars
<1>9. ICommit'
  BY <1>1, <1>4, CalmCommit DEF IType, TPc, LoadPtrs, Goto, queueVars, seqVars, walVars, batchVars, localVars
<1> QED BY <1>1, <1>2, <1>3, <1>5, <1>6, <1>7, <1>8, <1>9, CalmQueue, CalmProducer, CalmOrder

LEMMA LoadSlotStep ==
  ASSUME NEW p \in Procs, IInv, LoadSlot(p)
  PROVE  IInv'
<1> USE DEF IInv
<1>1. Calm(p)
  BY DEF IType, TPc, TLocal, LoadSlot, Goto, Forget, Calm, Others, Assigned, queueVars, seqVars, walVars, batchVars, localVars
<1>2. IType'
  <2>1. TPc'
    BY DEF IType, TPc, LoadSlot, Goto, States, Preparing, Dequeuing, Publishing, Batch
  <2>2. TQueue'
    BY DEF IType, TQueue, LoadSlot, queueVars
  <2>3. TSeq'
    BY DEF IType, TSeq, LoadSlot, seqVars, batchVars
  <2>4. TBatch'
    BY DEF IType, TBatch, LoadSlot, walVars, batchVars
  <2>5. TLocal'
    <3>1. slots[Slot(ptrs[p][2])] \in Batch /\ <<0, 0>> \in Nat \X Nat
      BY SlotType DEF IType, TQueue, TLocal
    <3>2. t \in [Procs -> Batch] /\ ptrs \in [Procs -> Nat \X Nat] /\ seen \in [Procs -> Nat]
      BY DEF IType, TLocal
    <3>3. NoBatch \in Batch
      BY DEF Batch
    <3> QED BY <3>1, <3>2, <3>3 DEF TLocal, LoadSlot, Forget
  <2>6. TWal'
    BY DEF IType, TWal, TSeq, LoadSlot, walVars
  <2> QED BY <2>1, <2>2, <2>3, <2>4, <2>5, <2>6 DEF IType
<1>3. IMutex'
  BY DEF IType, TPc, IMutex, LoadSlot, Goto, Locked
<1>4. SamePublication(p)
  BY DEF IType, TPc, LoadSlot, Goto, SamePublication, Publishing, queueVars, seqVars, walVars, batchVars, localVars
<1>5. ILoads'
  <2> DEFINE b == slots[Slot(ptrs[p][2])]
  <2>1. CASE b = NoBatch
    BY <1>1, <2>1, CalmLoads DEF IType, TPc, LoadSlot, Goto, batchVars
  <2>2. CASE b # NoBatch
    <3>1. pc[p] = "peek" /\ pc'[p] = "check" /\ ptrs'[p] = ptrs[p] /\ t'[p] = b
      BY <2>2 DEF IType, TPc, TLocal, LoadSlot, Goto
    <3>2. b \in Procs
      BY <2>2, SlotType DEF IType, TQueue, TLocal, Batch
    <3>3. \A q \in Procs : q # p => pc'[q] = pc[q] /\ ptrs'[q] = ptrs[q] /\ t'[q] = t[q]
      BY <1>1 DEF Calm, Others
    <3>4. UNCHANGED <<head, tail, slots, applied>>
      BY DEF LoadSlot, queueVars, batchVars
    <3> QED BY <3>1, <3>2, <3>3, <3>4 DEF ILoads, Slot
  <2> QED BY <2>1, <2>2
<1>6. IPublisher'
  BY <1>1, CalmPublisher DEF IType, TPc, LoadSlot, Goto, Publishing
<1>7. IApplied'
  BY <1>1, CalmApplied DEF IType, TPc, LoadSlot, Goto, Marked, queueVars, seqVars, walVars, batchVars, localVars
<1>8. IVisible'
  BY <1>1, <1>4, CalmVisible DEF IType, TPc, LoadSlot, Goto, queueVars, seqVars, walVars, batchVars, localVars
<1>9. ICommit'
  BY <1>1, <1>4, CalmCommit DEF IType, TPc, LoadSlot, Goto, queueVars, seqVars, walVars, batchVars, localVars
<1> QED BY <1>1, <1>2, <1>3, <1>5, <1>6, <1>7, <1>8, <1>9, CalmQueue, CalmProducer, CalmOrder

LEMMA LoadAppliedStep ==
  ASSUME NEW p \in Procs, IInv, LoadApplied(p)
  PROVE  IInv'
<1> USE DEF IInv
<1>1. Calm(p)
  BY DEF IType, TPc, TLocal, LoadApplied, Goto, Forget, Calm, Others, Assigned, queueVars, seqVars, walVars, batchVars, localVars
<1>2. IType'
  <2>1. TPc'
    BY DEF IType, TPc, LoadApplied, Goto, States, Preparing, Dequeuing, Publishing, Batch
  <2>2. TQueue'
    BY DEF IType, TQueue, LoadApplied, queueVars
  <2>3. TSeq'
    BY DEF IType, TSeq, LoadApplied, seqVars, batchVars
  <2>4. TBatch'
    BY DEF IType, TBatch, LoadApplied, walVars, batchVars
  <2>5. TLocal'
    <3>1. NoBatch \in Batch /\ <<0, 0>> \in Nat \X Nat
      BY DEF Batch
    <3>2. t \in [Procs -> Batch] /\ ptrs \in [Procs -> Nat \X Nat] /\ seen \in [Procs -> Nat]
      BY DEF IType, TLocal
    <3> QED BY <3>1, <3>2 DEF TLocal, LoadApplied, Forget
  <2>6. TWal'
    BY DEF IType, TWal, TSeq, LoadApplied, walVars
  <2> QED BY <2>1, <2>2, <2>3, <2>4, <2>5, <2>6 DEF IType
<1>3. IMutex'
  BY DEF IType, TPc, IMutex, LoadApplied, Goto, Locked
<1>4. SamePublication(p)
  BY DEF IType, TPc, LoadApplied, Goto, SamePublication, Publishing, queueVars, seqVars, walVars, batchVars, localVars
<1>5. ILoads'
  <2>1. CASE ~applied[t[p]]
    BY <1>1, <2>1, CalmLoads DEF IType, TPc, LoadApplied, Goto, batchVars
  <2>2. CASE applied[t[p]]
    <3>1. pc[p] = "check" /\ pc'[p] = "cas" /\ ptrs'[p] = ptrs[p] /\ t'[p] = t[p]
      BY <2>2 DEF IType, TPc, LoadApplied, Goto
    <3>3. \A q \in Procs : q # p => pc'[q] = pc[q] /\ ptrs'[q] = ptrs[q] /\ t'[q] = t[q]
      BY <1>1 DEF Calm, Others
    <3>4. UNCHANGED <<head, tail, slots, applied>>
      BY DEF LoadApplied, queueVars, batchVars
    <3> QED BY <2>2, <3>1, <3>3, <3>4 DEF ILoads, Slot
  <2> QED BY <2>1, <2>2
<1>6. IPublisher'
  BY <1>1, CalmPublisher DEF IType, TPc, LoadApplied, Goto, Publishing
<1>7. IApplied'
  BY <1>1, CalmApplied DEF IType, TPc, LoadApplied, Goto, Marked, queueVars, seqVars, walVars, batchVars, localVars
<1>8. IVisible'
  BY <1>1, <1>4, CalmVisible DEF IType, TPc, LoadApplied, Goto, queueVars, seqVars, walVars, batchVars, localVars
<1>9. ICommit'
  BY <1>1, <1>4, CalmCommit DEF IType, TPc, LoadApplied, Goto, queueVars, seqVars, walVars, batchVars, localVars
<1> QED BY <1>1, <1>2, <1>3, <1>5, <1>6, <1>7, <1>8, <1>9, CalmQueue, CalmProducer, CalmOrder

-----------------------------------------------------------------------------
(* The steps of publishing.  A dequeued batch is marked and has its numbers. *)
LEMMA PublishedBatch ==
  ASSUME NEW p \in Procs, IInv, pc[p] \in Publishing
  PROVE  /\ t[p] \in Procs /\ Live(t[p]) /\ pos[t[p]] < tail
         /\ applied[t[p]] /\ pc[t[p]] \in Marked /\ Assigned(t[p])
         /\ NewSeqNum(p) = EndSeqNum(t[p]) /\ NewSeqNum(p) \in Nat
<1>1. t[p] \in Procs /\ Live(t[p]) /\ pos[t[p]] < tail
  BY DEF IInv, IPublisher
<1>2. applied[t[p]] /\ pc[t[p]] \in Marked
  BY <1>1 DEF IInv, IApplied
<1>3. Assigned(t[p])
  BY <1>2 DEF Marked, Assigned
<1>4. NewSeqNum(p) = EndSeqNum(t[p]) /\ NewSeqNum(p) \in Nat
  BY <1>1 DEF NewSeqNum, EndSeqNum, IInv, IType, TSeq
<1> QED BY <1>1, <1>2, <1>3, <1>4

LEMMA LoadVisibleStep ==
  ASSUME NEW p \in Procs, IInv, LoadVisible(p)
  PROVE  IInv'
<1> USE DEF IInv
<1>0. /\ pc[p] = "ratchet" /\ pc'[p] \in {"swap", "signal"}
      /\ pc'[p] = "swap" => seen'[p] < NewSeqNum(p)
      /\ pc'[p] = "signal" => NewSeqNum(p) <= visibleSeqNum
      /\ UNCHANGED <<t, applied, done, commit, syncQ, syncWAL, kind, visibleSeqNum>>
  <2>1. pc[p] \in Publishing /\ pc[p] = "ratchet"
    BY DEF LoadVisible, Publishing
  <2>2. NewSeqNum(p) \in Nat
    BY <2>1, PublishedBatch
  <2> QED BY <2>1, <2>2
      DEF LoadVisible, Goto, IType, TPc, TLocal, TSeq, seqVars, walVars, batchVars
<1>1. Calm(p)
  BY DEF IType, TPc, TLocal, LoadVisible, Goto, Calm, Others, Assigned, queueVars, seqVars, batchVars
<1>2. IType'
  <2>1. TPc'
    BY DEF IType, TPc, LoadVisible, Goto, States, Preparing, Dequeuing, Publishing, Batch
  <2>2. TQueue'
    BY DEF IType, TQueue, LoadVisible, queueVars
  <2>3. TSeq'
    BY DEF IType, TSeq, LoadVisible, seqVars, batchVars
  <2>4. TBatch'
    BY DEF IType, TBatch, LoadVisible, walVars, batchVars
  <2>5. TLocal'
    BY DEF IType, TLocal, TSeq, LoadVisible, localVars
  <2>6. TWal'
    BY DEF IType, TWal, LoadVisible, walVars
  <2> QED BY <2>1, <2>2, <2>3, <2>4, <2>5, <2>6 DEF IType
<1>3. IMutex'
  BY DEF IType, TPc, IMutex, LoadVisible, Goto, Locked
<1>4. SamePublication(p)
  BY <1>0 DEF SamePublication, Publishing
<1>5. ILoads' /\ IPublisher'
  BY <1>0, <1>1, CalmLoads, CalmPublisher DEF Publishing
<1>6. IApplied'
  BY <1>0, <1>1, CalmApplied DEF Marked
<1>7. IVisible' /\ ICommit'
  BY <1>0, <1>1, <1>4, CalmVisible, CalmCommit
<1> QED BY <1>1, <1>2, <1>3, <1>5, <1>6, <1>7, CalmQueue, CalmProducer, CalmOrder

(* The new value is above the old one, the end of a batch, and below every
   batch that is still queued. *)
LEMMA SwapVisibleStep ==
  ASSUME NEW p \in Procs, IInv, SwapVisible(p)
  PROVE  IInv' /\ visibleSeqNum <= visibleSeqNum'
<1> USE DEF IInv
<1>a. pc[p] \in Publishing /\ pc[p] = "swap"
  BY DEF SwapVisible, Publishing
<1>b. /\ t[p] \in Procs /\ pos[t[p]] < tail /\ Assigned(t[p])
      /\ NewSeqNum(p) = EndSeqNum(t[p]) /\ NewSeqNum(p) \in Nat
  BY <1>a, PublishedBatch
<1>0. /\ pc'[p] \in {"ratchet", "signal"}
      /\ visibleSeqNum <= visibleSeqNum'
      /\ visibleSeqNum' = visibleSeqNum \/ visibleSeqNum' = NewSeqNum(p)
      /\ pc'[p] = "signal" => visibleSeqNum' = NewSeqNum(p)
      /\ UNCHANGED <<t, applied, done, commit, syncQ, syncWAL, kind>>
  BY <1>a, <1>b DEF SwapVisible, Goto, IType, TPc, TSeq, IPublisher, walVars, batchVars
<1>1. Calm(p)
  BY DEF IType, TPc, TLocal, SwapVisible, Goto, Calm, Others, Assigned, queueVars, batchVars
<1>2. IType'
  <2>1. TPc'
    BY DEF IType, TPc, SwapVisible, Goto, States, Preparing, Dequeuing, Publishing, Batch
  <2>2. TQueue'
    BY DEF IType, TQueue, SwapVisible, queueVars
  <2>3. TSeq'
    BY <1>b DEF IType, TSeq, SwapVisible, seqVars, batchVars
  <2>4. TBatch'
    BY DEF IType, TBatch, SwapVisible, walVars, batchVars
  <2>5. TLocal'
    BY DEF IType, TLocal, SwapVisible, localVars
  <2>6. TWal'
    BY DEF IType, TWal, SwapVisible, walVars
  <2> QED BY <2>1, <2>2, <2>3, <2>4, <2>5, <2>6 DEF IType
<1>3. IMutex'
  BY <1>a DEF IType, TPc, IMutex, SwapVisible, Goto, Locked
<1>4. SamePublication(p)
  BY <1>0, <1>a DEF SamePublication, Publishing
<1>5. ILoads' /\ IPublisher'
  BY <1>0, <1>a, <1>1, CalmLoads, CalmPublisher DEF Publishing
<1>6. IApplied'
  BY <1>0, <1>a, <1>1, CalmApplied DEF Marked
<1>7. ICommit'
  BY <1>0, <1>a, <1>1, <1>4, CalmCommit
<1>8. IVisible'
  <2>1. CASE visibleSeqNum' = visibleSeqNum
    BY <2>1, <1>0, <1>b, <1>1, <1>4, CalmVisible
  <2>2. CASE visibleSeqNum' = NewSeqNum(p)
    <3> DEFINE b == t[p]
    <3>0. visibleSeqNum' = EndSeqNum(b)
      BY <1>0, <1>1, <1>b, <2>2 DEF Calm
    <3>a. tail' = tail /\ pos' = pos /\ seqNum' = seqNum /\ count' = count /\ logSeqNum' = logSeqNum
      BY <1>1 DEF Calm
    <3>1. visibleSeqNum' <= logSeqNum
      BY <3>0, <1>b DEF IOrder
    <3>2. \A q \in Procs : Assigned(q) /\ tail <= pos[q] => visibleSeqNum' <= seqNum[q]
      <4> SUFFICES ASSUME NEW q \in Procs, Assigned(q), tail <= pos[q]
                   PROVE  EndSeqNum(b) <= seqNum[q]
        BY <3>0
      <4>1. pos[b] < pos[q]
        BY <1>b DEF IType, TQueue
      <4> QED BY <4>1, <1>b DEF IOrder
    <3>3. \A q \in Procs : pc'[q] = "signal" => NewSeqNum(q) <= visibleSeqNum'
      <4> SUFFICES ASSUME NEW q \in Procs, pc'[q] = "signal"
                   PROVE  NewSeqNum(q) <= visibleSeqNum'
        OBVIOUS
      <4>1. CASE q = p
        BY <4>1, <2>2, <1>b
      <4>2. CASE q # p
        <5>1. pc[q] = "signal" /\ pc[q] \in Publishing
          BY <4>2, <1>1 DEF Calm, Others, Publishing
        <5>2. NewSeqNum(q) \in Nat
          BY <5>1, PublishedBatch
        <5>3. NewSeqNum(q) <= visibleSeqNum
          BY <5>1 DEF IVisible
        <5> QED BY <5>2, <5>3, <1>0, <1>2 DEF IType, TSeq
      <4> QED BY <4>1, <4>2
    <3>4. \A q \in Procs : EndSeqNum(q) \in Nat /\ seqNum[q] \in Nat
      BY DEF EndSeqNum, IType, TSeq
    <3>5. \A q \in Procs : Live(q) /\ pos[q] < tail /\ ~BeingPublished(q) =>
            EndSeqNum(q) <= visibleSeqNum'
      BY <3>4, <1>0, <1>2 DEF IVisible, IType, TSeq
    <3>6. \A q \in Procs : Assigned(q) =>
            ~(seqNum[q] < visibleSeqNum' /\ visibleSeqNum' < EndSeqNum(q))
      <4> SUFFICES ASSUME NEW q \in Procs, Assigned(q), q # b
                   PROVE  ~(seqNum[q] < EndSeqNum(b) /\ EndSeqNum(b) < EndSeqNum(q))
        BY <3>0, <3>4, <1>b
      <4>1. pos[q] # pos[b] /\ pos[q] \in Nat /\ pos[b] \in Nat
        BY <1>b DEF IQueue, IType, TQueue, Live, Assigned
      <4>2. CASE pos[q] < pos[b]
        <5>1. EndSeqNum(q) <= seqNum[b]
          BY <4>2, <1>b DEF IOrder
        <5>2. seqNum[b] <= EndSeqNum(b)
          BY <1>b DEF EndSeqNum, IType, TSeq
        <5> QED BY <5>1, <5>2, <3>4, <1>b
      <4>3. CASE pos[b] < pos[q]
        <5>1. EndSeqNum(b) <= seqNum[q]
          BY <4>3, <1>b DEF IOrder
        <5> QED BY <5>1, <3>4, <1>b
      <4> QED BY <4>1, <4>2, <4>3
    <3>8. \A q \in Procs : NewSeqNum(q)' = NewSeqNum(q)
      BY <3>a, <1>0 DEF NewSeqNum
    <3>9. \A q \in Procs : BeingPublished(q)' <=> BeingPublished(q)
      BY <1>1, <1>4, CalmPublished
    <3>10. \A q \in Procs : Assigned(q)' /\ tail' <= pos'[q] => visibleSeqNum' <= seqNum'[q]
      BY <1>1, <3>2, CalmPredicates DEF Calm
    <3>11. \A q \in Procs : pc'[q] = "signal" => NewSeqNum(q)' <= visibleSeqNum'
      BY <3>3, <3>8
    <3>12. \A q \in Procs : Live(q)' /\ pos'[q] < tail' /\ ~BeingPublished(q)' =>
             EndSeqNum(q)' <= visibleSeqNum'
      BY <1>1, <3>5, <3>9, CalmPredicates DEF Calm
    <3>13. \A q \in Procs : Assigned(q)' =>
             ~(seqNum'[q] < visibleSeqNum' /\ visibleSeqNum' < EndSeqNum(q)')
      BY <1>1, <3>6, CalmPredicates DEF Calm
    <3> QED BY <3>a, <3>1, <3>10, <3>11, <3>12, <3>13 DEF IVisible
  <2> QED BY <2>1, <2>2, <1>0
<1> QED BY <1>0, <1>1, <1>2, <1>3, <1>5, <1>6, <1>7, <1>8, CalmQueue, CalmProducer, CalmOrder

LEMMA SignalStep ==
  ASSUME NEW p \in Procs, IInv, Signal(p)
  PROVE  IInv'
<1> USE DEF IInv
<1>a. pc[p] \in Publishing /\ pc[p] = "signal" /\ pc'[p] = "load"
  BY DEF Signal, Publishing, Goto, IType, TPc
<1>b. t[p] \in Procs /\ NewSeqNum(p) = EndSeqNum(t[p]) /\ pos[t[p]] < tail /\ Live(t[p])
  BY <1>a, PublishedBatch
<1>1. Calm(p)
  BY <1>a DEF IType, TPc, TLocal, Signal, Forget, Goto, Calm, Others, Assigned, queueVars, seqVars,
         batchVars
<1>2. IType'
  <2>1. TPc'
    BY DEF IType, TPc, Signal, Goto, States, Preparing, Dequeuing, Publishing, Batch
  <2>2. TQueue'
    BY DEF IType, TQueue, Signal, queueVars
  <2>3. TSeq'
    BY DEF IType, TSeq, Signal, seqVars, batchVars
  <2>4. TBatch'
    BY <1>b DEF IType, TBatch, Signal, walVars, batchVars
  <2>5. TLocal'
    <3>1. NoBatch \in Batch /\ <<0, 0>> \in Nat \X Nat
      BY DEF Batch
    <3> QED BY <3>1 DEF IType, TLocal, Signal, Forget
  <2>6. TWal'
    BY DEF IType, TWal, Signal, walVars
  <2> QED BY <2>1, <2>2, <2>3, <2>4, <2>5, <2>6 DEF IType
<1>3. IMutex'
  BY <1>a DEF IType, TPc, IMutex, Signal, Goto, Locked
<1>4. ILoads' /\ IPublisher'
  BY <1>a, <1>1, CalmLoads, CalmPublisher DEF Publishing, Signal, batchVars
<1>5. IApplied'
  BY <1>a, <1>1, CalmApplied DEF Marked, Signal, batchVars
<1>6. \A q \in Procs : BeingPublished(q)' <=> BeingPublished(q) /\ q # t[p]
  <2>1. \A x \in Procs : x # p => pc'[x] = pc[x] /\ t'[x] = t[x]
    BY <1>1 DEF Calm, Others
  <2>2. pc'[p] \notin Publishing
    BY <1>a DEF Publishing
  <2>3. \A x \in Procs : x # p /\ pc[x] \in Publishing => t[x] # t[p]
    BY <1>a DEF IPublisher
  <2> QED BY <2>1, <2>2, <2>3, <1>a DEF BeingPublished
<1>7. IVisible'
  <2>1. \A q \in Procs : pc'[q] = "signal" => pc[q] = "signal" /\ t'[q] = t[q]
    BY <1>a, <1>1 DEF Calm, Others
  <2>2. EndSeqNum(t[p]) <= visibleSeqNum
    BY <1>a, <1>b DEF IVisible
  <2>3. \A q \in Procs : Live(q) /\ pos[q] < tail /\ ~BeingPublished(q)' =>
          EndSeqNum(q) <= visibleSeqNum
    BY <2>2, <1>6 DEF IVisible
  <2>4. visibleSeqNum' = visibleSeqNum
    BY DEF Signal, seqVars
  <2> QED BY <2>1, <2>3, <2>4, <1>1, CalmPredicates DEF Calm, IVisible, NewSeqNum
<1>8. ICommit'
  <2>1. \A q \in Procs : PublishDue(q)' <=> PublishDue(q) /\ q # t[p]
    <3>1. \A q \in Procs : pc'[q] \in {"lock", "enqSlot", "enqHead"} <=>
                           pc[q] \in {"lock", "enqSlot", "enqHead"}
      BY <1>1 DEF Calm, Others, Assigned
    <3>2. ~(tail <= pos[t[p]])
      BY <1>b DEF IType, TQueue
    <3>3. pc[t[p]] \notin {"lock", "enqSlot", "enqHead"}
      BY <1>b DEF Live
    <3> QED BY <1>1, <1>6, <3>1, <3>2, <3>3, CalmPredicates DEF PublishDue, Calm
  <2>2. PublishDue(t[p])
    BY <1>a, <1>b DEF PublishDue, BeingPublished
  <2>3. UNCHANGED <<syncQ, syncWAL, kind>>
    BY DEF Signal, walVars, batchVars
  <2>4. \A q \in Procs : SyncDue(q)' <=> SyncDue(q)
    BY <1>a, <1>1, <2>3 DEF Calm, Others, SyncDue
  <2>5. \A q \in Procs : pc'[q] \in {"assign", "write"} => pc[q] \in {"assign", "write"}
    BY <1>a, <1>1 DEF Calm, Others
  <2>6. \A q \in Procs : commit'[q] = IF q = t[p] THEN commit[q] - 1 ELSE commit[q]
    BY <1>b DEF Signal, IType, TBatch
  <2>7. \A q \in Procs :
          commit'[q] = (IF PublishDue(q)' THEN 1 ELSE 0) + (IF SyncDue(q)' THEN 1 ELSE 0)
    BY <2>1, <2>2, <2>4, <2>6 DEF ICommit
  <2> QED BY <1>1, <2>3, <2>5, <2>7, CalmPredicates DEF ICommit
<1> QED BY <1>1, <1>2, <1>3, <1>4, <1>5, <1>7, <1>8, CalmQueue, CalmProducer, CalmOrder

-----------------------------------------------------------------------------
(* The steps of a call before its batch enters the queue. *)
Outside(p) ==
  /\ UNCHANGED <<head, tail, slots, pos, seqNum, logSeqNum, visibleSeqNum, t, ptrs, seen,
                 applied, done>>
  /\ pc[p] \in {"idle", "lock"} /\ pc'[p] \in {"lock", "enqSlot"}
  /\ \A q \in Procs : q # p => pc'[q] = pc[q] /\ count'[q] = count[q]

LEMMA OutsidePredicates ==
  ASSUME NEW p \in Procs, Outside(p)
  PROVE  \A q \in Procs :
           /\ Live(q)' <=> Live(q)
           /\ Assigned(q)' <=> Assigned(q)
           /\ Live(q) => q # p /\ EndSeqNum(q)' = EndSeqNum(q)
  BY DEF Outside, Live, Assigned, EndSeqNum

LEMMA OutsidePublished ==
  ASSUME NEW p \in Procs, Outside(p)
  PROVE  \A q \in Procs : BeingPublished(q)' <=> BeingPublished(q)
  BY DEF Outside, BeingPublished, Publishing

LEMMA OutsideInv ==
  ASSUME NEW p \in Procs, IInv, Outside(p)
  PROVE  IQueue' /\ IProducer' /\ ILoads' /\ IPublisher' /\ IApplied' /\ IOrder' /\ IVisible'
<1> USE DEF IInv
<1>0. \A q \in Procs : pc[q] \in Publishing => t[q] \in Procs /\ t[q] # p /\ NewSeqNum(q)' = NewSeqNum(q)
  <2> SUFFICES ASSUME NEW q \in Procs, pc[q] \in Publishing
               PROVE  t[q] \in Procs /\ t[q] # p /\ NewSeqNum(q)' = NewSeqNum(q)
    OBVIOUS
  <2>1. t[q] \in Procs /\ Live(t[q])
    BY PublishedBatch
  <2> QED BY <2>1 DEF Outside, Live, NewSeqNum
<1>1. IQueue'
  BY OutsidePredicates DEF Outside, IQueue, Slot
<1>2. IProducer'
  BY DEF Outside, IProducer, Slot
<1>3. ILoads'
  BY DEF Outside, ILoads, Slot
<1>4. IPublisher'
  <2>1. \A q \in Procs : pc'[q] \in Publishing <=> pc[q] \in Publishing
    BY DEF Outside, Publishing
  <2>2. \A q \in Procs : \A x \in {"clear", "swap", "enqHead"} : pc'[q] = x <=> pc[q] = x
    BY DEF Outside
  <2> QED BY <1>0, <2>1, <2>2, OutsidePredicates DEF Outside, IPublisher, Slot, Publishing
<1>5. IApplied'
  BY DEF Outside, IApplied, Marked, Live
<1>6. IOrder'
  BY OutsidePredicates DEF Outside, IOrder, Assigned, Live
<1>7. IVisible'
  <2>1. \A q \in Procs : pc'[q] = "signal" => pc[q] = "signal" /\ pc[q] \in Publishing
    BY DEF Outside, Publishing
  <2>2. \A q \in Procs : Assigned(q) => Live(q)
    BY DEF Assigned, Live
  <2> QED BY <1>0, <2>1, <2>2, OutsidePredicates, OutsidePublished DEF Outside, IVisible
<1> QED BY <1>1, <1>2, <1>3, <1>4, <1>5, <1>6, <1>7

LEMMA LockStep ==
  ASSUME NEW p \in Procs, IInv, Lock(p)
  PROVE  IInv'
<1> USE DEF IInv
<1>1. Outside(p)
  BY DEF IType, TPc, Lock, Goto, Outside, queueVars, seqVars, batchVars, localVars
<1>2. IType'
  <2>1. TPc'
    BY DEF IType, TPc, Lock, Goto, States, Preparing, Dequeuing, Publishing, Batch
  <2>2. TQueue'
    BY DEF IType, TQueue, Lock, queueVars
  <2>3. TSeq'
    BY DEF IType, TSeq, Lock, seqVars, batchVars
  <2>4. TBatch'
    BY DEF IType, TBatch, Lock, walVars, batchVars
  <2>5. TLocal'
    BY DEF IType, TLocal, Lock, localVars
  <2>6. TWal'
    BY DEF IType, TWal, Lock, walVars
  <2> QED BY <2>1, <2>2, <2>3, <2>4, <2>5, <2>6 DEF IType
<1>3. IMutex'
  BY ProcsAssumption DEF IType, TPc, IMutex, Lock, Goto, Locked
<1>4. ICommit'
  <2>1. \A q \in Procs : pc'[q] \in {"lock", "enqSlot", "enqHead"} <=>
                         pc[q] \in {"lock", "enqSlot", "enqHead"}
    BY DEF IType, TPc, Lock, Goto
  <2>2. UNCHANGED <<tail, pos, commit, syncQ, syncWAL, kind>>
    BY DEF Lock, queueVars, walVars, batchVars
  <2>3. \A q \in Procs : PublishDue(q)' <=> PublishDue(q)
    BY <1>1, <2>1, <2>2, OutsidePredicates, OutsidePublished DEF PublishDue
  <2>4. \A q \in Procs : SyncDue(q)' <=> SyncDue(q)
    BY <2>2 DEF IType, TPc, Lock, Goto, SyncDue
  <2>5. \A q \in Procs : pc'[q] \in {"assign", "write"} => pc[q] \in {"assign", "write"}
    BY DEF IType, TPc, Lock, Goto
  <2> QED BY <1>1, <2>2, <2>3, <2>4, <2>5, OutsidePredicates DEF ICommit
<1> QED BY <1>1, <1>2, <1>3, <1>4, OutsideInv

LEMMA BeginStep ==
  ASSUME NEW p \in Procs, NEW k \in {"Commit", "AllocateSeqNum"}, NEW n \in Nat, NEW sync \in BOOLEAN,
         sync => k = "Commit", IInv, Begin(p, k, n, sync)
  PROVE  IInv'
<1> USE DEF IInv
<1>1. Outside(p)
  BY DEF IType, TPc, TSeq, Begin, Goto, Outside, queueVars, seqVars, localVars
<1>2. IType'
  <2>1. TPc'
    BY DEF IType, TPc, Begin, Goto, States, Preparing, Dequeuing, Publishing, Batch
  <2>2. TQueue'
    BY DEF IType, TQueue, Begin, queueVars
  <2>3. TSeq'
    BY DEF IType, TSeq, Begin, seqVars, batchVars
  <2>4. TBatch'
    BY DEF IType, TBatch, Begin, walVars, batchVars
  <2>5. TLocal'
    BY DEF IType, TLocal, Begin, localVars
  <2>6. TWal'
    BY ConcurrencyAssumption DEF IType, TWal, Begin, walVars
  <2> QED BY <2>1, <2>2, <2>3, <2>4, <2>5, <2>6 DEF IType
<1>3. IMutex'
  BY DEF IType, TPc, IMutex, Begin, Goto, Locked
<1>4. ICommit'
  <2>1. /\ pc[p] = "idle" /\ pc'[p] = "lock" /\ syncWAL'[p] = sync /\ kind'[p] = k
        /\ commit'[p] = IF sync THEN 2 ELSE 1
    BY DEF IType, TPc, TBatch, Begin, Goto
  <2>2. \A q \in Procs : q # p => /\ pc'[q] = pc[q] /\ syncWAL'[q] = syncWAL[q]
                                 /\ kind'[q] = kind[q] /\ commit'[q] = commit[q]
    BY DEF IType, TPc, TBatch, Begin, Goto
  <2>3. UNCHANGED <<tail, pos, syncQ>>
    BY DEF Begin, queueVars, walVars
  <2>4. p \notin syncQ
    BY <2>1 DEF ICommit, Live
  <2>5. \A q \in Procs : q # p => (PublishDue(q)' <=> PublishDue(q))
    BY <1>1, <2>2, <2>3, OutsidePredicates, OutsidePublished DEF PublishDue
  <2>6. \A q \in Procs : q # p => (SyncDue(q)' <=> SyncDue(q))
    BY <2>2, <2>3 DEF SyncDue
  <2>7. PublishDue(p)' /\ (SyncDue(p)' <=> sync)
    BY <2>1, <2>3, <2>4 DEF PublishDue, SyncDue
  <2>8. \A q \in Procs :
          commit'[q] = (IF PublishDue(q)' THEN 1 ELSE 0) + (IF SyncDue(q)' THEN 1 ELSE 0)
    <3>1. commit'[p] = (IF PublishDue(p)' THEN 1 ELSE 0) + (IF SyncDue(p)' THEN 1 ELSE 0)
      BY <2>1, <2>7
    <3>2. ASSUME NEW q \in Procs, q # p
          PROVE  commit'[q] = (IF PublishDue(q)' THEN 1 ELSE 0) + (IF SyncDue(q)' THEN 1 ELSE 0)
      BY <3>2, <2>2, <2>5, <2>6 DEF ICommit
    <3> QED BY <3>1, <3>2
  <2> QED BY <1>1, <2>1, <2>2, <2>3, <2>4, <2>8, OutsidePredicates DEF ICommit
<1> QED BY <1>1, <1>2, <1>3, <1>4, OutsideInv

-----------------------------------------------------------------------------
(* The producer.  A filled slot is one that no queued batch and no consumer
   still clearing its slot uses. *)
LEMMA SlotWraps == \A i \in Nat : Slot(i + SyncConcurrency) = Slot(i)
<1> SUFFICES ASSUME NEW i \in Nat PROVE (i + SyncConcurrency) % SyncConcurrency = i % SyncConcurrency
  BY DEF Slot
<1> DEFINE a == i \div SyncConcurrency
           b == (i + SyncConcurrency) \div SyncConcurrency
           x == i % SyncConcurrency
           y == (i + SyncConcurrency) % SyncConcurrency
<1>1. /\ a \in Int /\ b \in Int
      /\ x \in 0 .. SyncConcurrency - 1 /\ y \in 0 .. SyncConcurrency - 1
      /\ i = SyncConcurrency * a + x
      /\ i + SyncConcurrency = SyncConcurrency * b + y
  BY ConcurrencyAssumption
<1>2. PICK k \in Int : k = b - a - 1
  BY <1>1
<1>3. SyncConcurrency * b - SyncConcurrency * a - SyncConcurrency = SyncConcurrency * k
  BY <1>1, <1>2, ConcurrencyAssumption
<1>4. x - y = SyncConcurrency * k
  BY <1>1, <1>3, ConcurrencyAssumption
<1>5. CASE k >= 1
  <2>1. SyncConcurrency * k >= SyncConcurrency
    BY <1>5, ConcurrencyAssumption
  <2> QED BY <2>1, <1>1, <1>4, ConcurrencyAssumption
<1>6. CASE k <= -1
  <2>1. SyncConcurrency * k <= -SyncConcurrency
    BY <1>6, ConcurrencyAssumption
  <2> QED BY <2>1, <1>1, <1>4, ConcurrencyAssumption
<1>7. CASE k = 0
  <2>1. SyncConcurrency * k = 0
    BY <1>7, ConcurrencyAssumption
  <2>2. x = y
    BY <2>1, <1>1, <1>4, ConcurrencyAssumption
  <2> QED BY <2>2
<1>8. \A m \in Int : m >= 1 \/ m <= -1 \/ m = 0
  OBVIOUS
<1> QED BY <1>2, <1>8, <1>5, <1>6, <1>7

LEMMA EnqueueSlotStep ==
  ASSUME NEW p \in Procs, IInv, EnqueueSlot(p)
  PROVE  IInv'
<1> USE DEF IInv
<1>1. /\ pc[p] = "enqSlot" /\ pc'[p] = "enqHead" /\ pos'[p] = head
      /\ slots[Slot(head)] = NoBatch
      /\ slots'[Slot(head)] = p
      /\ \A i \in Nat : Slot(i) # Slot(head) => slots'[Slot(i)] = slots[Slot(i)]
      /\ \A q \in Procs : q # p => pc'[q] = pc[q] /\ pos'[q] = pos[q]
      /\ head < tail + SyncConcurrency
  BY SlotType, ConcurrencyAssumption
     DEF EnqueueSlot, QueueFull, Goto, IType, TPc, TQueue, IQueue
<1>2. /\ head' = head /\ tail' = tail /\ logSeqNum' = logSeqNum /\ visibleSeqNum' = visibleSeqNum
      /\ seqNum' = seqNum /\ count' = count /\ applied' = applied /\ done' = done
      /\ commit' = commit /\ syncQ' = syncQ /\ syncWAL' = syncWAL /\ kind' = kind
      /\ ptrs' = ptrs /\ t' = t /\ seen' = seen
  BY DEF EnqueueSlot, seqVars, walVars, batchVars, localVars
<1>3. /\ head \in Nat /\ tail \in Nat /\ tail <= head /\ SyncConcurrency \in Nat
      /\ \A q \in Procs : pos[q] \in Nat
  BY ConcurrencyAssumption DEF IType, TQueue, IQueue
<1>4. \A i \in Nat : tail <= i /\ i < head => Slot(i) # Slot(head)
  BY <1>1, <1>3, SlotDistinct
<1>5. \A q \in Procs : Live(q) => q # p
  BY <1>1 DEF Live
<1>6. \A q \in Procs : Live(q)' <=> Live(q)
  BY <1>1 DEF Live
<1>7. \A q \in Procs : Assigned(q)' <=> Assigned(q)
  BY <1>1 DEF Assigned
<1>8. IType'
  <2>1. TPc'
    BY DEF IType, TPc, EnqueueSlot, Goto, States, Preparing, Dequeuing, Publishing, Batch
  <2>2. TQueue'
    BY SlotType DEF IType, TQueue, EnqueueSlot, Batch
  <2>3. TSeq'
    BY DEF IType, TSeq, EnqueueSlot, seqVars, batchVars
  <2>4. TBatch'
    BY DEF IType, TBatch, EnqueueSlot, walVars, batchVars
  <2>5. TLocal'
    BY DEF IType, TLocal, EnqueueSlot, localVars
  <2>6. TWal'
    BY DEF IType, TWal, EnqueueSlot, walVars
  <2> QED BY <2>1, <2>2, <2>3, <2>4, <2>5, <2>6 DEF IType
<1>9. IMutex'
  BY DEF IType, TPc, IMutex, EnqueueSlot, Goto, Locked
<1>10. IQueue'
  <2>1. \A q \in Procs : Live(q)' => pos'[q] = pos[q] /\ Live(q)
    BY <1>1, <1>5, <1>6
  <2>2. \A q \in Procs : Live(q)' /\ tail <= pos[q] => slots'[Slot(pos[q])] = q
    BY <2>1, <1>1, <1>3, <1>4 DEF IQueue
  <2>3. \A i \in Nat : tail <= i /\ i < head => slots'[Slot(i)] = slots[Slot(i)]
    BY <1>1, <1>4
  <2>4. \A i \in Nat : tail <= i /\ i < head =>
          \E b \in Procs : slots'[Slot(i)] = b /\ Live(b)' /\ pos'[b] = i
    <3> SUFFICES ASSUME NEW i \in Nat, tail <= i, i < head
                 PROVE  \E b \in Procs : slots'[Slot(i)] = b /\ Live(b)' /\ pos'[b] = i
      OBVIOUS
    <3>1. PICK b \in Procs : slots[Slot(i)] = b /\ Live(b) /\ pos[b] = i
      BY DEF IQueue
    <3>2. slots'[Slot(i)] = b
      BY <2>3, <3>1
    <3>3. Live(b)' /\ pos'[b] = pos[b]
      BY <3>1, <1>1, <1>5, <1>6
    <3> QED BY <3>1, <3>2, <3>3
  <2>5. \A i : Slot(i)' = Slot(i)
    BY DEF Slot
  <2>6. \A q \in Procs : Live(q)' => pos'[q] < head
    BY <2>1 DEF IQueue
  <2>7. \A q, x \in Procs : Live(q)' /\ Live(x)' /\ q # x => pos'[q] # pos'[x]
    BY <2>1 DEF IQueue
  <2>8. \A q \in Procs : Live(q)' /\ tail <= pos'[q] => slots'[Slot(pos'[q])] = q
    BY <2>1, <2>2
  <2> QED BY <1>1, <1>2, <1>3, <2>4, <2>5, <2>6, <2>7, <2>8 DEF IQueue, Slot
<1>11. IProducer'
  <2>1. \A q \in Procs : q # p => pc'[q] \notin {"enqHead", "assign"}
    BY <1>1 DEF IMutex, Locked
  <2> QED BY <2>1, <1>1, <1>2 DEF IProducer, Slot
<1>12. ILoads'
  <2>1. \A q \in Procs : pc'[q] \in {"peek", "check", "cas"} => pc[q] = pc'[q]
    BY <1>1
  <2>2. \A q \in Procs : pc[q] \in {"check", "cas"} /\ ptrs[q][2] = tail =>
          slots'[Slot(tail)] = slots[Slot(tail)]
    <3> SUFFICES ASSUME NEW q \in Procs, pc[q] \in {"check", "cas"}, ptrs[q][2] = tail
                 PROVE  slots'[Slot(tail)] = slots[Slot(tail)]
      OBVIOUS
    <3>1. ptrs[q][1] <= head /\ tail < ptrs[q][1] /\ ptrs[q][1] \in Nat
      BY DEF ILoads, IType, TLocal
    <3>2. tail < head
      BY <3>1, <1>3
    <3> QED BY <3>2, <1>1, <1>3, <1>4
  <2> QED BY <2>1, <2>2, <1>2 DEF ILoads, Slot
<1>13. IPublisher'
  <2>1. \A q \in Procs : pc'[q] \in Publishing => pc[q] = pc'[q]
    BY <1>1 DEF Publishing
  <2>2. \A q \in Procs : pc[q] \in Publishing =>
          /\ t[q] \in Procs /\ Live(t[q])' /\ pos'[t[q]] = pos[t[q]] /\ pos[t[q]] < tail
          /\ NewSeqNum(q)' = NewSeqNum(q)
    BY PublishedBatch, <1>1, <1>2, <1>5, <1>6 DEF NewSeqNum
  <2>3. ASSUME NEW q \in Procs, pc[q] = "clear"
        PROVE  /\ slots'[Slot(ptrs[q][2])] = t[q]
               /\ head < ptrs[q][2] + SyncConcurrency
    <3>1. /\ slots[Slot(ptrs[q][2])] = t[q] /\ head <= ptrs[q][2] + SyncConcurrency
          /\ t[q] \in Procs
      BY <2>3 DEF IPublisher, Publishing
    <3>2. ptrs[q][2] \in Nat
      BY DEF IType, TLocal
    <3>3. Slot(ptrs[q][2]) # Slot(head)
      BY <3>1, <1>1, ProcsAssumption
    <3>4. head # ptrs[q][2] + SyncConcurrency
      BY <3>2, <3>3, SlotWraps
    <3> QED BY <3>1, <3>2, <3>3, <3>4, <1>1, <1>3
  <2> QED BY <2>1, <2>2, <2>3, <1>2 DEF IPublisher, Publishing, Slot
<1>14. IApplied'
  BY <1>1, <1>2, <1>5, <1>6 DEF IApplied, Marked
<1>15. IOrder'
  <2>1. \A q \in Procs : Assigned(q)' => Assigned(q) /\ pos'[q] = pos[q]
    BY <1>1, <1>7 DEF Assigned
  <2> QED BY <2>1, <1>2 DEF IOrder, EndSeqNum
<1>16. \A q \in Procs : BeingPublished(q)' <=> BeingPublished(q)
  BY <1>1, <1>2 DEF BeingPublished, Publishing
<1>17. IVisible'
  <2>1. \A q \in Procs : Live(q) => pos'[q] = pos[q]
    BY <1>1, <1>5
  <2>2. \A q \in Procs : Assigned(q) => Live(q)
    BY DEF Assigned, Live
  <2>3. \A q \in Procs : pc'[q] = "signal" => pc[q] = "signal"
    BY <1>1
  <2> QED BY <2>1, <2>2, <2>3, <1>2, <1>6, <1>7, <1>16 DEF IVisible, EndSeqNum, NewSeqNum
<1>18. ICommit'
  <2>1. \A q \in Procs : Live(q) => pos'[q] = pos[q]
    BY <1>1, <1>5
  <2>2. \A q \in Procs : pc'[q] \in {"lock", "enqSlot", "enqHead"} <=>
                         pc[q] \in {"lock", "enqSlot", "enqHead"}
    BY <1>1
  <2>3. \A q \in Procs : PublishDue(q)' <=> PublishDue(q)
    BY <2>1, <2>2, <1>2, <1>6, <1>16 DEF PublishDue
  <2>4. \A q \in Procs : SyncDue(q)' <=> SyncDue(q)
    BY <1>1, <1>2 DEF SyncDue
  <2>5. \A q \in Procs : pc'[q] \in {"assign", "write"} => pc[q] \in {"assign", "write"}
    BY <1>1
  <2> QED BY <1>2, <1>6, <2>3, <2>4, <2>5 DEF ICommit
<1> QED BY <1>8, <1>9, <1>10, <1>11, <1>12, <1>13, <1>14, <1>15, <1>17, <1>18

LEMMA EnqueueHeadStep ==
  ASSUME NEW p \in Procs, IInv, EnqueueHead(p)
  PROVE  IInv'
<1> USE DEF IInv
<1>1. /\ pc[p] = "enqHead" /\ pc'[p] = "assign" /\ head' = head + 1
      /\ \A q \in Procs : q # p => pc'[q] = pc[q]
  BY DEF EnqueueHead, Goto, IType, TPc
<1>2. /\ tail' = tail /\ slots' = slots /\ pos' = pos
      /\ logSeqNum' = logSeqNum /\ visibleSeqNum' = visibleSeqNum
      /\ seqNum' = seqNum /\ count' = count /\ applied' = applied /\ done' = done
      /\ commit' = commit /\ syncQ' = syncQ /\ syncWAL' = syncWAL /\ kind' = kind
      /\ ptrs' = ptrs /\ t' = t /\ seen' = seen
  BY DEF EnqueueHead, seqVars, walVars, batchVars, localVars
<1>3. /\ head \in Nat /\ tail \in Nat /\ tail <= head /\ SyncConcurrency \in Nat
      /\ \A q \in Procs : pos[q] \in Nat /\ ptrs[q] \in Nat \X Nat
  BY ConcurrencyAssumption DEF IType, TQueue, TLocal, IQueue
<1>4. pos[p] = head /\ slots[Slot(head)] = p /\ head < tail + SyncConcurrency
  BY <1>1 DEF IProducer
<1>5. \A q \in Procs : Live(q)' <=> (Live(q) \/ q = p)
  BY <1>1 DEF Live
<1>6. \A q \in Procs : Assigned(q)' <=> Assigned(q)
  BY <1>1 DEF Assigned
<1>7. ~Live(p) /\ \A q \in Procs : q # p => pc[q] \notin Locked
  BY <1>1 DEF Live, IMutex, Locked
<1>8. IType'
  <2>1. TPc'
    BY ProcsAssumption DEF IType, TPc, EnqueueHead, Goto, States, Preparing, Dequeuing, Publishing, Batch
  <2>2. TQueue'
    BY DEF IType, TQueue, EnqueueHead, queueVars
  <2>3. TSeq'
    BY DEF IType, TSeq, EnqueueHead, seqVars, batchVars
  <2>4. TBatch'
    BY DEF IType, TBatch, EnqueueHead, walVars, batchVars
  <2>5. TLocal'
    BY DEF IType, TLocal, TSeq, EnqueueHead, localVars
  <2>6. TWal'
    BY DEF IType, TWal, TSeq, EnqueueHead, walVars
  <2> QED BY <2>1, <2>2, <2>3, <2>4, <2>5, <2>6 DEF IType
<1>9. IMutex'
  BY DEF IType, TPc, IMutex, EnqueueHead, Goto, Locked
<1>10. IQueue'
  <2>1. tail' <= head' /\ head' <= tail' + SyncConcurrency
    BY <1>1, <1>2, <1>3, <1>4
  <2>2. \A q \in Procs : Live(q)' => pos'[q] < head'
    BY <1>1, <1>2, <1>3, <1>4, <1>5 DEF IQueue
  <2>3. \A q, x \in Procs : Live(q)' /\ Live(x)' /\ q # x => pos'[q] # pos'[x]
    <3>1. \A q \in Procs : Live(q) => pos[q] # pos[p]
      BY <1>3, <1>4 DEF IQueue
    <3> QED BY <3>1, <1>2, <1>5 DEF IQueue
  <2>4. \A q \in Procs : Live(q)' /\ tail' <= pos'[q] => slots'[Slot(pos'[q])] = q
    BY <1>2, <1>4, <1>5 DEF IQueue
  <2>5. \A i \in Nat : tail' <= i /\ i < head' =>
          \E b \in Procs : slots'[Slot(i)] = b /\ Live(b)' /\ pos'[b] = i
    <3> SUFFICES ASSUME NEW i \in Nat, tail <= i, i < head + 1
                 PROVE  \E b \in Procs : slots[Slot(i)] = b /\ Live(b)' /\ pos[b] = i
      BY <1>1, <1>2
    <3>1. CASE i = head
      BY <3>1, <1>4, <1>5
    <3>2. CASE i < head
      BY <3>2, <1>5 DEF IQueue
    <3> QED BY <3>1, <3>2, <1>3
  <2> QED BY <2>1, <2>2, <2>3, <2>4, <2>5 DEF IQueue, Slot
<1>11. IProducer'
  BY <1>1, <1>2, <1>3, <1>4, <1>7 DEF IProducer, Locked, Slot
<1>12. ILoads'
  <2>1. \A q \in Procs : pc'[q] \in {"peek", "check", "cas"} => pc[q] = pc'[q]
    BY <1>1
  <2>2. \A q \in Procs : ptrs[q][1] <= head => ptrs'[q][1] <= head'
    BY <1>1, <1>2, <1>3
  <2> QED BY <2>1, <2>2, <1>2 DEF ILoads, Slot
<1>13. IPublisher'
  <2>1. \A q \in Procs : pc'[q] \in Publishing => pc[q] = pc'[q]
    BY <1>1 DEF Publishing
  <2>2. \A q \in Procs : pc[q] \in Publishing => NewSeqNum(q)' = NewSeqNum(q)
    BY <1>2 DEF NewSeqNum
  <2>3. \A q \in Procs : pc[q] = "clear" => head' <= ptrs[q][2] + SyncConcurrency
    BY <1>1, <1>3 DEF IPublisher
  <2>4. \A q \in Procs : pc'[q] # "enqHead"
    BY <1>1, <1>7 DEF Locked
  <2> QED BY <2>1, <2>2, <2>3, <2>4, <1>2, <1>5 DEF IPublisher, Publishing, Slot
<1>14. IApplied'
  <2>1. \A q \in Procs : pc'[q] \in Marked \union {"mark"} <=> pc[q] \in Marked \union {"mark"}
    BY <1>1 DEF Marked
  <2>2. \A q \in Procs : pc'[q] \in Marked <=> pc[q] \in Marked
    BY <1>1 DEF Marked
  <2>3. \A q \in Procs : Live(q)' /\ pos[q] < tail => Live(q)
    BY <1>3, <1>4, <1>5
  <2> QED BY <2>1, <2>2, <2>3, <1>2 DEF IApplied
<1>15. IOrder'
  BY <1>2, <1>6 DEF IOrder, EndSeqNum
<1>16. \A q \in Procs : BeingPublished(q)' <=> BeingPublished(q)
  BY <1>1, <1>2 DEF BeingPublished, Publishing
<1>17. IVisible'
  <2>1. \A q \in Procs : Live(q)' /\ pos[q] < tail => Live(q)
    BY <1>3, <1>4, <1>5
  <2>2. \A q \in Procs : pc'[q] = "signal" => pc[q] = "signal"
    BY <1>1
  <2> QED BY <2>1, <2>2, <1>2, <1>6, <1>16 DEF IVisible, EndSeqNum, NewSeqNum
<1>18. ICommit'
  <2>1. \A q \in Procs : PublishDue(q)' <=> PublishDue(q)
    <3>1. PublishDue(p)' /\ PublishDue(p)
      BY <1>1, <1>2, <1>3, <1>4, <1>5 DEF PublishDue
    <3>2. ASSUME NEW q \in Procs, q # p PROVE PublishDue(q)' <=> PublishDue(q)
      BY <3>2, <1>1, <1>2, <1>5, <1>16 DEF PublishDue
    <3> QED BY <3>1, <3>2
  <2>2. \A q \in Procs : SyncDue(q)' <=> SyncDue(q)
    BY <1>1, <1>2 DEF SyncDue
  <2>3. \A q \in Procs : q \in syncQ => q # p
    BY <1>7 DEF ICommit
  <2> QED BY <1>1, <1>2, <1>5, <2>1, <2>2, <2>3 DEF ICommit
<1> QED BY <1>8, <1>9, <1>10, <1>11, <1>12, <1>13, <1>14, <1>15, <1>17, <1>18

(* Sequence numbers are handed out above everything handed out before, to the
   batch at the head of the queue, which nobody can have dequeued. *)
Sequenced(p) ==
  /\ UNCHANGED <<head, tail, slots, pos, count, visibleSeqNum, applied, done, ptrs, t,
                 commit, syncQ, syncWAL, kind>>
  /\ pc[p] = "assign" /\ pc'[p] \in {"write", "spin"}
  /\ syncWAL[p] => pc'[p] = "write"
  /\ \A q \in Procs : q # p => pc'[q] = pc[q] /\ seqNum'[q] = seqNum[q] /\ seen'[q] = seen[q]
  /\ logSeqNum <= seqNum'[p] /\ logSeqNum' = seqNum'[p] + count[p]

LEMMA SequencedInv ==
  ASSUME NEW p \in Procs, IInv, TSeq', Sequenced(p)
  PROVE  /\ IQueue' /\ IProducer' /\ ILoads' /\ IPublisher' /\ IApplied' /\ IOrder'
         /\ IVisible' /\ ICommit'
<1> USE DEF IInv
<1>1. UNCHANGED <<head, tail, slots, pos, count, visibleSeqNum, applied, done, ptrs, t,
                 commit, syncQ, syncWAL, kind>>
  BY DEF Sequenced
<1>2. /\ pc[p] = "assign" /\ pc'[p] \in {"write", "spin"} /\ (syncWAL[p] => pc'[p] = "write")
      /\ \A q \in Procs : q # p => pc'[q] = pc[q] /\ seqNum'[q] = seqNum[q] /\ seen'[q] = seen[q]
  BY DEF Sequenced
<1>3. /\ head \in Nat /\ tail \in Nat /\ logSeqNum \in Nat /\ logSeqNum' \in Nat
      /\ visibleSeqNum \in Nat
      /\ \A q \in Procs : pos[q] \in Nat /\ count[q] \in Nat /\ seqNum[q] \in Nat /\ seqNum'[q] \in Nat
  BY <1>1 DEF IType, TQueue, TSeq
<1>4. logSeqNum <= seqNum'[p] /\ logSeqNum' = seqNum'[p] + count[p] /\ logSeqNum <= logSeqNum'
  BY <1>3 DEF Sequenced
<1>5. \A q \in Procs : Live(q)' <=> Live(q)
  BY <1>2 DEF Live
<1>6. \A q \in Procs : Assigned(q)' <=> (Assigned(q) \/ q = p)
  BY <1>2 DEF Assigned
<1>7. Live(p) /\ ~Assigned(p) /\ pos[p] = head - 1
  BY <1>2 DEF Live, Assigned, IProducer
<1>8. tail <= pos[p]
  BY <1>2, <1>3, <1>7 DEF IApplied, Marked
<1>9. \A q \in Procs : pc[q] \in Publishing => t[q] # p
  BY <1>3, <1>8 DEF IPublisher
<1>10. \A q \in Procs : pc'[q] \in Publishing \/ pc'[q] \in {"peek", "check", "cas", "enqHead", "assign"} => q # p /\ pc[q] = pc'[q]
  BY <1>2 DEF Publishing
<1>11. \A q \in Procs : pc[q] \in Publishing => t[q] \in Procs /\ NewSeqNum(q)' = NewSeqNum(q)
  <2> SUFFICES ASSUME NEW q \in Procs, pc[q] \in Publishing
               PROVE  t[q] \in Procs /\ NewSeqNum(q)' = NewSeqNum(q)
    OBVIOUS
  <2>1. t[q] \in Procs /\ t[q] # p
    BY <1>9 DEF IPublisher
  <2> QED BY <2>1, <1>1, <1>2 DEF NewSeqNum
<1>12. IQueue'
  BY <1>1, <1>5 DEF IQueue, Slot
<1>13. IProducer'
  BY <1>1, <1>10 DEF IProducer, Slot
<1>14. ILoads'
  BY <1>1, <1>10 DEF ILoads, Slot
<1>15. IPublisher'
  <2>1. \A q \in Procs : pc'[q] \in Publishing => pc[q] = pc'[q] /\ seen'[q] = seen[q]
    BY <1>2, <1>10
  <2>2. \A q \in Procs : pc'[q] = "enqHead" => pc[q] = "enqHead"
    BY <1>10
  <2> QED BY <2>1, <2>2, <1>1, <1>5, <1>11 DEF IPublisher, Publishing, Slot
<1>16. IApplied'
  BY <1>1, <1>2, <1>5 DEF IApplied, Marked
<1>17. \A q \in Procs : Assigned(q) => EndSeqNum(q)' = EndSeqNum(q) /\ seqNum'[q] = seqNum[q]
  BY <1>1, <1>2, <1>7 DEF EndSeqNum
<1>18. EndSeqNum(p)' = logSeqNum'
  BY <1>1, <1>4 DEF EndSeqNum
<1>19. \A q \in Procs : EndSeqNum(q) \in Nat /\ EndSeqNum(q)' \in Nat
  BY <1>1, <1>3 DEF EndSeqNum
<1>20. \A q \in Procs : Assigned(q) => Live(q) /\ pos[q] < pos[p]
  <2> SUFFICES ASSUME NEW q \in Procs, Assigned(q) PROVE Live(q) /\ pos[q] < pos[p]
    OBVIOUS
  <2>1. Live(q) /\ q # p
    BY <1>7 DEF Live, Assigned
  <2>2. pos[q] < head /\ pos[q] # pos[p]
    BY <2>1, <1>7 DEF IQueue
  <2> QED BY <2>1, <2>2, <1>3, <1>7
<1>21. IOrder'
  <2>1. \A q \in Procs : Assigned(q)' => EndSeqNum(q)' <= logSeqNum'
    <3>1. \A q \in Procs : Assigned(q) => EndSeqNum(q) <= logSeqNum'
      BY <1>3, <1>4, <1>19 DEF IOrder
    <3> QED BY <3>1, <1>3, <1>6, <1>17, <1>18
  <2>2. ASSUME NEW q \in Procs, NEW x \in Procs, Assigned(q)', Assigned(x)', pos[q] < pos[x]
        PROVE  EndSeqNum(q)' <= seqNum'[x]
    <3>1. q # p
      BY <2>2, <1>3, <1>6, <1>20
    <3>2. CASE x = p
      BY <3>1, <3>2, <2>2, <1>3, <1>4, <1>6, <1>17, <1>19 DEF IOrder
    <3>3. CASE x # p
      BY <3>1, <3>3, <2>2, <1>6, <1>17 DEF IOrder
    <3> QED BY <3>2, <3>3
  <2> QED BY <2>1, <2>2, <1>1 DEF IOrder
<1>22. \A q \in Procs : BeingPublished(q)' <=> BeingPublished(q)
  BY <1>1, <1>2 DEF BeingPublished, Publishing
<1>23. IVisible'
  <2>1. visibleSeqNum <= logSeqNum /\ visibleSeqNum <= logSeqNum' /\ visibleSeqNum <= seqNum'[p]
    BY <1>3, <1>4 DEF IVisible
  <2>2. \A q \in Procs : Assigned(q)' /\ tail <= pos[q] => visibleSeqNum <= seqNum'[q]
    BY <2>1, <1>6, <1>17 DEF IVisible
  <2>3. \A q \in Procs : pc'[q] = "signal" => NewSeqNum(q)' <= visibleSeqNum
    BY <1>10, <1>11 DEF IVisible, Publishing
  <2>4. \A q \in Procs : Live(q)' /\ pos[q] < tail /\ ~BeingPublished(q)' =>
          EndSeqNum(q)' <= visibleSeqNum
    <3>1. \A q \in Procs : Live(q) /\ pos[q] < tail => Assigned(q)
      BY <1>2, <1>3, <1>8 DEF Live, Assigned, IApplied, Marked
    <3> QED BY <3>1, <1>5, <1>17, <1>22 DEF IVisible
  <2>5. \A q \in Procs : Assigned(q)' =>
          ~(seqNum'[q] < visibleSeqNum /\ visibleSeqNum < EndSeqNum(q)')
    BY <2>1, <1>3, <1>6, <1>17 DEF IVisible
  <2> QED BY <2>1, <2>2, <2>3, <2>4, <2>5, <1>1 DEF IVisible
<1>24. ICommit'
  <2>1. \A q \in Procs : PublishDue(q)' <=> PublishDue(q)
    BY <1>1, <1>2, <1>5, <1>22 DEF PublishDue
  <2>2. \A q \in Procs : q \in syncQ => q # p
    BY <1>2 DEF ICommit
  <2>3. \A q \in Procs : SyncDue(q)' <=> SyncDue(q)
    BY <1>1, <1>2, <2>2 DEF SyncDue
  <2> QED BY <1>1, <1>2, <1>5, <2>1, <2>2, <2>3 DEF ICommit
<1> QED BY <1>12, <1>13, <1>14, <1>15, <1>16, <1>21, <1>23, <1>24

LEMMA AssignCommitStep ==
  ASSUME NEW p \in Procs, IInv, AssignCommit(p)
  PROVE  IInv'
<1> USE DEF IInv
<1>1. IType'
  <2>1. TPc'
    BY ProcsAssumption DEF IType, TPc, AssignCommit, Goto, States, Preparing, Dequeuing, Publishing, Batch
  <2>2. TQueue'
    BY DEF IType, TQueue, AssignCommit, queueVars
  <2>3. TSeq'
    BY DEF IType, TSeq, AssignCommit, seqVars, batchVars
  <2>4. TBatch'
    BY DEF IType, TBatch, AssignCommit, walVars, batchVars
  <2>5. TLocal'
    BY DEF IType, TLocal, TSeq, AssignCommit, localVars
  <2>6. TWal'
    BY DEF IType, TWal, TSeq, AssignCommit, walVars
  <2> QED BY <2>1, <2>2, <2>3, <2>4, <2>5, <2>6 DEF IType
<1>2. IMutex'
  BY DEF IType, TPc, IMutex, AssignCommit, Goto, Locked
<1>3. Sequenced(p)
  <2>1. UNCHANGED <<head, tail, slots, pos, count, visibleSeqNum, applied, done, ptrs, t, seen,
                 commit, syncQ, syncWAL, kind>>
    BY DEF AssignCommit, queueVars, walVars, localVars
  <2>2. /\ pc[p] = "assign" /\ pc'[p] = "write" /\ seqNum'[p] = logSeqNum
        /\ logSeqNum' = logSeqNum + count[p] /\ logSeqNum \in Nat
        /\ \A q \in Procs : q # p => pc'[q] = pc[q] /\ seqNum'[q] = seqNum[q]
    BY DEF AssignCommit, Goto, IType, TPc, TSeq
  <2> QED BY <2>1, <2>2 DEF Sequenced
<1> QED BY <1>1, <1>2, <1>3, SequencedInv DEF IType

LEMMA AssignAllocateStep ==
  ASSUME NEW p \in Procs, IInv, AssignAllocate(p)
  PROVE  IInv'
<1> USE DEF IInv
<1>1. IType'
  <2>1. TPc'
    BY ProcsAssumption DEF IType, TPc, AssignAllocate, Goto, States, Preparing, Dequeuing, Publishing, Batch
  <2>2. TQueue'
    BY DEF IType, TQueue, AssignAllocate, queueVars
  <2>3. TSeq'
    BY DEF IType, TSeq, AssignAllocate, seqVars, batchVars
  <2>4. TBatch'
    BY DEF IType, TBatch, AssignAllocate, walVars, batchVars
  <2>5. TLocal'
    BY DEF IType, TLocal, TSeq, AssignAllocate, localVars
  <2>6. TWal'
    BY DEF IType, TWal, TSeq, AssignAllocate, walVars
  <2> QED BY <2>1, <2>2, <2>3, <2>4, <2>5, <2>6 DEF IType
<1>2. IMutex'
  BY DEF IType, TPc, IMutex, AssignAllocate, Goto, Locked
<1>3. Sequenced(p)
  <2>1. UNCHANGED <<head, tail, slots, pos, count, visibleSeqNum, applied, done, ptrs, t,
                 commit, syncQ, syncWAL, kind>>
    BY DEF AssignAllocate, queueVars, walVars
  <2>2. /\ pc[p] = "assign" /\ pc'[p] = "spin" /\ kind[p] = "AllocateSeqNum"
        /\ \A q \in Procs : q # p => pc'[q] = pc[q] /\ seqNum'[q] = seqNum[q] /\ seen'[q] = seen[q]
    BY DEF AssignAllocate, Goto, IType, TPc, TSeq, TLocal
  <2>3. logSeqNum <= seqNum'[p] /\ logSeqNum' = seqNum'[p] + count[p]
    BY DEF AssignAllocate, IType, TSeq
  <2>4. ~syncWAL[p]
    BY <2>2 DEF ICommit
  <2> QED BY <2>1, <2>2, <2>3, <2>4 DEF Sequenced
<1> QED BY <1>1, <1>2, <1>3, SequencedInv DEF IType

-----------------------------------------------------------------------------
(* The consumer that wins the compare-and-swap holds the batch at the tail:
   headTail did not move, so its loads are not stale. *)
LEMMA SwapTailFails ==
  ASSUME NEW p \in Procs, IInv, SwapTail(p), ptrs[p] # <<head, tail>>
  PROVE  IInv'
<1> USE DEF IInv
<1>1. /\ pc[p] = "cas" /\ pc'[p] = "load"
      /\ UNCHANGED <<head, tail, slots, pos, seqNum, count, done, applied, logSeqNum, visibleSeqNum,
                     commit, syncQ, syncWAL, kind>>
      /\ Others(p)
  BY DEF SwapTail, Goto, Forget, IType, TPc, TLocal, Others, seqVars, batchVars, walVars
<1>2. Calm(p)
  BY <1>1 DEF Calm, Assigned
<1>3. IType'
  <2>0. <<0, 0>> \in Nat \X Nat /\ NoBatch \in Batch
    BY DEF Batch
  <2>1. TPc'
    BY ProcsAssumption DEF IType, TPc, SwapTail, Goto, States, Preparing, Dequeuing, Publishing, Batch
  <2>2. TQueue'
    BY DEF IType, TQueue, SwapTail, queueVars
  <2>3. TSeq'
    BY DEF IType, TSeq, SwapTail, seqVars, batchVars
  <2>4. TBatch'
    BY DEF IType, TBatch, SwapTail, walVars, batchVars
  <2>5. TLocal'
    BY <2>0 DEF IType, TLocal, Forget, TSeq, SwapTail, localVars
  <2>6. TWal'
    BY DEF IType, TWal, TSeq, SwapTail, walVars
  <2> QED BY <2>1, <2>2, <2>3, <2>4, <2>5, <2>6 DEF IType
<1>4. IMutex'
  BY DEF IType, TPc, IMutex, SwapTail, Goto, Locked
<1>5. SamePublication(p)
  BY <1>1 DEF SamePublication, Publishing
<1>6. ILoads' /\ IPublisher'
  BY <1>1, <1>2, CalmLoads, CalmPublisher DEF Publishing
<1>7. IApplied'
  BY <1>1, <1>2, CalmApplied DEF Marked
<1>8. IVisible' /\ ICommit'
  BY <1>1, <1>2, <1>5, CalmVisible, CalmCommit
<1> QED BY <1>2, <1>3, <1>4, <1>6, <1>7, <1>8, CalmQueue, CalmProducer, CalmOrder

LEMMA SwapTailWins ==
  ASSUME NEW p \in Procs, IInv, SwapTail(p), ptrs[p] = <<head, tail>>
  PROVE  IInv'
<1> USE DEF IInv
<1>1. /\ pc[p] = "cas" /\ pc'[p] = "clear" /\ tail' = tail + 1
      /\ \A q \in Procs : q # p => pc'[q] = pc[q]
  BY DEF SwapTail, Goto, IType, TPc
<1>2. /\ head' = head /\ slots' = slots /\ pos' = pos
      /\ logSeqNum' = logSeqNum /\ visibleSeqNum' = visibleSeqNum
      /\ seqNum' = seqNum /\ count' = count /\ applied' = applied /\ done' = done
      /\ commit' = commit /\ syncQ' = syncQ /\ syncWAL' = syncWAL /\ kind' = kind
      /\ ptrs' = ptrs /\ t' = t /\ seen' = seen
  BY DEF SwapTail, seqVars, walVars, batchVars
<1>3. /\ head \in Nat /\ tail \in Nat /\ SyncConcurrency \in Nat
      /\ \A q \in Procs : pos[q] \in Nat /\ ptrs[q] \in Nat \X Nat
  BY ConcurrencyAssumption DEF IType, TQueue, TLocal
<1>4. ptrs[p][1] = head /\ ptrs[p][2] = tail /\ tail < head
  BY <1>1, <1>3 DEF ILoads
<1>5. t[p] = slots[Slot(tail)] /\ applied[t[p]]
  BY <1>1, <1>4 DEF ILoads
<1>6. t[p] \in Procs /\ Live(t[p]) /\ pos[t[p]] = tail
  BY <1>3, <1>4, <1>5 DEF IQueue
<1>7. \A q \in Procs : (Live(q)' <=> Live(q)) /\ (Assigned(q)' <=> Assigned(q))
  BY <1>1 DEF Live, Assigned
<1>8. \A q \in Procs : Live(q) /\ q # t[p] => pos[q] # tail
  BY <1>6 DEF IQueue
<1>9. \A q \in Procs : pc[q] \in Publishing => t[q] # t[p]
  BY <1>3, <1>6 DEF IPublisher
<1>10. \A q \in Procs : BeingPublished(q)' <=> (BeingPublished(q) \/ q = t[p])
  BY <1>1, <1>2 DEF BeingPublished, Publishing
<1>11. IType'
  <2>1. TPc'
    BY ProcsAssumption DEF IType, TPc, SwapTail, Goto, States, Preparing, Dequeuing, Publishing, Batch
  <2>2. TQueue'
    BY DEF IType, TQueue, SwapTail, queueVars
  <2>3. TSeq'
    BY DEF IType, TSeq, SwapTail, seqVars, batchVars
  <2>4. TBatch'
    BY DEF IType, TBatch, SwapTail, walVars, batchVars
  <2>5. TLocal'
    BY DEF IType, TLocal, TSeq, SwapTail, localVars
  <2>6. TWal'
    BY DEF IType, TWal, TSeq, SwapTail, walVars
  <2> QED BY <2>1, <2>2, <2>3, <2>4, <2>5, <2>6 DEF IType
<1>12. IMutex'
  BY DEF IType, TPc, IMutex, SwapTail, Goto, Locked
<1>13. IQueue'
  <2>1. tail' <= head' /\ head' <= tail' + SyncConcurrency
    BY <1>1, <1>2, <1>3, <1>4 DEF IQueue
  <2>2. \A q \in Procs : Live(q) /\ tail' <= pos[q] => slots[Slot(pos[q])] = q
    BY <1>1, <1>3 DEF IQueue
  <2>3. \A i \in Nat : tail' <= i /\ i < head =>
          \E b \in Procs : slots[Slot(i)] = b /\ Live(b) /\ pos[b] = i
    BY <1>1, <1>3 DEF IQueue
  <2> QED BY <2>1, <2>2, <2>3, <1>2, <1>7 DEF IQueue, Slot
<1>14. IProducer'
  BY <1>1, <1>2, <1>3 DEF IProducer, Slot
<1>15. ILoads'
  <2>1. \A q \in Procs : pc'[q] \in {"peek", "check", "cas"} => pc[q] = pc'[q]
    BY <1>1
  <2>2. \A q \in Procs : pc'[q] \in {"peek", "check", "cas"} => ptrs[q][2] <= tail' /\ ptrs[q][2] # tail'
    BY <2>1, <1>1, <1>3 DEF ILoads
  <2> QED BY <2>1, <2>2, <1>2 DEF ILoads
<1>16. IPublisher'
  <2>1. \A q \in Procs : pc'[q] \in Publishing => q = p \/ pc[q] \in Publishing
    BY <1>1
  <2>2. \A q \in Procs : pc'[q] \in Publishing => t[q] \in Procs /\ Live(t[q]) /\ pos[t[q]] < tail'
    BY <2>1, <1>1, <1>3, <1>6 DEF IPublisher
  <2>3. \A q, x \in Procs : pc'[q] \in Publishing /\ pc'[x] \in Publishing /\ q # x => t[q] # t[x]
    BY <2>1, <1>9 DEF IPublisher
  <2>4. \A x \in Procs : pc'[x] = "enqHead" => pc[x] = "enqHead"
    BY <1>1
  <2>5. /\ ptrs[p][2] = pos[t[p]] /\ slots[Slot(ptrs[p][2])] = t[p]
        /\ head <= ptrs[p][2] + SyncConcurrency
        /\ \A q \in Procs : pc'[q] = "enqHead" => head < ptrs[p][2] + SyncConcurrency
    BY <2>4, <1>4, <1>5, <1>6 DEF IQueue, IProducer
  <2>6. \A q \in Procs : pc'[q] = "clear" =>
          /\ ptrs[q][2] = pos[t[q]] /\ slots[Slot(ptrs[q][2])] = t[q]
          /\ head <= ptrs[q][2] + SyncConcurrency
          /\ \A x \in Procs : pc'[x] = "enqHead" => head < ptrs[q][2] + SyncConcurrency
    BY <2>4, <2>5, <1>1 DEF IPublisher
  <2>7. \A q \in Procs : pc'[q] = "swap" => seen[q] < NewSeqNum(q)
    BY <1>1 DEF IPublisher
  <2> QED BY <2>2, <2>3, <2>6, <2>7, <1>2, <1>7 DEF IPublisher, NewSeqNum, Slot
<1>17. IApplied'
  <2>1. \A q \in Procs : pc'[q] \in Marked <=> pc[q] \in Marked
    BY <1>1 DEF Marked
  <2>2. \A q \in Procs : pc'[q] = "mark" <=> pc[q] = "mark"
    BY <1>1
  <2>3. \A q \in Procs : Live(q) /\ pos[q] < tail' => applied[q]
    BY <1>1, <1>3, <1>5, <1>6, <1>8 DEF IApplied
  <2> QED BY <2>1, <2>2, <2>3, <1>2, <1>7 DEF IApplied
<1>18. IOrder'
  BY <1>2, <1>7 DEF IOrder, EndSeqNum
<1>19. IVisible'
  <2>1. \A q \in Procs : tail' <= pos[q] => tail <= pos[q]
    BY <1>1, <1>3
  <2>2. \A q \in Procs : Live(q) /\ pos[q] < tail' /\ ~BeingPublished(q)' => pos[q] < tail /\ ~BeingPublished(q)
    BY <1>1, <1>3, <1>8, <1>10
  <2>3. \A q \in Procs : pc'[q] = "signal" => pc[q] = "signal"
    BY <1>1
  <2> QED BY <2>1, <2>2, <2>3, <1>2, <1>7 DEF IVisible, EndSeqNum, NewSeqNum
<1>20. ICommit'
  <2>1. \A q \in Procs : Live(q) => ((tail' <= pos[q] \/ BeingPublished(q)') <=>
                                     (tail <= pos[q] \/ BeingPublished(q)))
    BY <1>1, <1>3, <1>6, <1>8, <1>10
  <2>2. \A q \in Procs : PublishDue(q)' <=> PublishDue(q)
    BY <2>1, <1>1, <1>2, <1>7 DEF PublishDue
  <2>3. \A q \in Procs : SyncDue(q)' <=> SyncDue(q)
    BY <1>1, <1>2 DEF SyncDue
  <2> QED BY <2>2, <2>3, <1>1, <1>2, <1>7 DEF ICommit
<1> QED BY <1>11, <1>12, <1>13, <1>14, <1>15, <1>16, <1>17, <1>18, <1>19, <1>20

(* Releasing a slot late disturbs neither the queued batches, which are less
   than SyncConcurrency above it, nor the slots other consumers still own. *)
LEMMA ClearSlotStep ==
  ASSUME NEW p \in Procs, IInv, ClearSlot(p)
  PROVE  IInv'
<1> USE DEF IInv
<1> DEFINE i0 == ptrs[p][2]
<1>0. i0 \in Nat
  BY DEF IType, TLocal
<1>1. /\ pc[p] = "clear" /\ pc'[p] = "ratchet"
      /\ \A q \in Procs : q # p => pc'[q] = pc[q] /\ ptrs'[q] = ptrs[q]
      /\ \A i \in Nat : Slot(i) # Slot(i0) => slots'[Slot(i)] = slots[Slot(i)]
  BY <1>0, SlotType DEF ClearSlot, Goto, IType, TPc, TQueue, TLocal
<1>2. /\ head' = head /\ tail' = tail /\ pos' = pos
      /\ logSeqNum' = logSeqNum /\ visibleSeqNum' = visibleSeqNum
      /\ seqNum' = seqNum /\ count' = count /\ applied' = applied /\ done' = done
      /\ commit' = commit /\ syncQ' = syncQ /\ syncWAL' = syncWAL /\ kind' = kind
      /\ t' = t /\ seen' = seen
  BY DEF ClearSlot, seqVars, walVars, batchVars
<1>3. /\ head \in Nat /\ tail \in Nat /\ SyncConcurrency \in Nat /\ tail <= head
      /\ \A q \in Procs : pos[q] \in Nat /\ ptrs[q] \in Nat \X Nat
  BY ConcurrencyAssumption DEF IType, TQueue, TLocal, IQueue
<1>4. /\ t[p] \in Procs /\ i0 = pos[t[p]] /\ i0 < tail /\ head <= i0 + SyncConcurrency
      /\ \A q \in Procs : pc[q] = "enqHead" => head < i0 + SyncConcurrency
  BY <1>1 DEF IPublisher, Publishing
<1>5. \A i \in Nat : tail <= i /\ i < i0 + SyncConcurrency => slots'[Slot(i)] = slots[Slot(i)]
  BY <1>0, <1>1, <1>3, <1>4, SlotDistinct
<1>6. \A i \in Nat : tail <= i /\ i < head => slots'[Slot(i)] = slots[Slot(i)]
  BY <1>0, <1>3, <1>4, <1>5
<1>7. \A q \in Procs : (Live(q)' <=> Live(q)) /\ (Assigned(q)' <=> Assigned(q))
  BY <1>1 DEF Live, Assigned
<1>8. \A q \in Procs : pc'[q] \in Publishing <=> pc[q] \in Publishing
  BY <1>1 DEF Publishing
<1>9. \A q \in Procs : BeingPublished(q)' <=> BeingPublished(q)
  BY <1>2, <1>8 DEF BeingPublished
<1>10. IType'
  <2>0. <<0, 0>> \in Nat \X Nat /\ NoBatch \in Batch
    BY DEF Batch
  <2>1. TPc'
    BY ProcsAssumption DEF IType, TPc, ClearSlot, Goto, States, Preparing, Dequeuing, Publishing, Batch
  <2>2. TQueue'
    BY <2>0, <1>0, SlotType DEF IType, TQueue, ClearSlot, queueVars
  <2>3. TSeq'
    BY DEF IType, TSeq, ClearSlot, seqVars, batchVars
  <2>4. TBatch'
    BY DEF IType, TBatch, ClearSlot, walVars, batchVars
  <2>5. TLocal'
    BY <2>0 DEF IType, TLocal, TSeq, ClearSlot, localVars
  <2>6. TWal'
    BY DEF IType, TWal, TSeq, ClearSlot, walVars
  <2> QED BY <2>1, <2>2, <2>3, <2>4, <2>5, <2>6 DEF IType
<1>11. IMutex'
  BY DEF IType, TPc, IMutex, ClearSlot, Goto, Locked
<1>12. IQueue'
  <2>1. \A q \in Procs : Live(q) /\ tail <= pos[q] => slots'[Slot(pos[q])] = q
    BY <1>3, <1>6 DEF IQueue
  <2>2. \A i \in Nat : tail <= i /\ i < head =>
          \E b \in Procs : slots'[Slot(i)] = b /\ Live(b) /\ pos[b] = i
    BY <1>6 DEF IQueue
  <2> QED BY <2>1, <2>2, <1>2, <1>7 DEF IQueue, Slot
<1>13. IProducer'
  <2>1. \A q \in Procs : pc'[q] \in {"enqHead", "assign"} => pc[q] = pc'[q]
    BY <1>1
  <2>2. \A q \in Procs : pc[q] = "enqHead" => slots'[Slot(head)] = slots[Slot(head)]
    BY <1>3, <1>4, <1>5
  <2> QED BY <2>1, <2>2, <1>2 DEF IProducer, Slot
<1>14. ILoads'
  <2>1. \A q \in Procs : pc'[q] \in {"peek", "check", "cas"} => pc[q] = pc'[q] /\ ptrs'[q] = ptrs[q]
    BY <1>1
  <2>2. \A q \in Procs : pc[q] \in {"check", "cas"} /\ ptrs[q][2] = tail =>
          slots'[Slot(tail)] = slots[Slot(tail)]
    BY <1>3, <1>6 DEF ILoads
  <2> QED BY <2>1, <2>2, <1>2 DEF ILoads, Slot
<1>15. IPublisher'
  <2>1. ASSUME NEW q \in Procs, q # p, pc[q] = "clear"
        PROVE  slots'[Slot(ptrs[q][2])] = slots[Slot(ptrs[q][2])]
    <3>1. /\ ptrs[q][2] \in Nat /\ t[q] \in Procs /\ ptrs[q][2] = pos[t[q]] /\ Live(t[q])
          /\ ptrs[q][2] < tail /\ head <= ptrs[q][2] + SyncConcurrency
      BY <2>1, <1>3 DEF IPublisher, Publishing
    <3>2. t[q] # t[p] /\ Live(t[p])
      BY <2>1, <1>1 DEF IPublisher, Publishing
    <3>3. ptrs[q][2] # i0
      BY <3>1, <3>2, <1>4 DEF IQueue
    <3>4. i0 < ptrs[q][2] + SyncConcurrency /\ ptrs[q][2] < i0 + SyncConcurrency
      BY <3>1, <1>0, <1>3, <1>4
    <3>5. Slot(ptrs[q][2]) # Slot(i0)
      BY <3>1, <3>3, <3>4, <1>0, SlotDistinct
    <3> QED BY <3>1, <3>5, <1>1
  <2>2. \A q \in Procs : pc'[q] = "clear" => q # p /\ pc[q] = "clear" /\ ptrs'[q] = ptrs[q]
    BY <1>1
  <2>3. \A q \in Procs : pc'[q] = "clear" => slots'[Slot(ptrs'[q][2])] = slots[Slot(ptrs[q][2])]
    BY <2>1, <2>2
  <2>4. \A q \in Procs : \A x \in {"swap", "enqHead"} : pc'[q] = x <=> pc[q] = x
    BY <1>1
  <2> QED BY <2>2, <2>3, <2>4, <1>2, <1>7, <1>8 DEF IPublisher, NewSeqNum, Slot
<1>16. IApplied'
  BY <1>1, <1>2, <1>7 DEF IApplied, Marked
<1>17. IOrder'
  BY <1>2, <1>7 DEF IOrder, EndSeqNum
<1>18. IVisible'
  <2>1. \A q \in Procs : pc'[q] = "signal" => pc[q] = "signal"
    BY <1>1
  <2> QED BY <2>1, <1>2, <1>7, <1>9 DEF IVisible, EndSeqNum, NewSeqNum
<1>19. ICommit'
  <2>1. \A q \in Procs : PublishDue(q)' <=> PublishDue(q)
    BY <1>1, <1>2, <1>7, <1>9 DEF PublishDue
  <2>2. \A q \in Procs : SyncDue(q)' <=> SyncDue(q)
    BY <1>1, <1>2 DEF SyncDue
  <2> QED BY <2>1, <2>2, <1>1, <1>2, <1>7 DEF ICommit
<1> QED BY <1>10, <1>11, <1>12, <1>13, <1>14, <1>15, <1>16, <1>17, <1>18, <1>19

(* A call returns only when nobody refers to its batch any more. *)
LEMMA ReturnStep ==
  ASSUME NEW p \in Procs, IInv, Return(p)
  PROVE  IInv'
<1> USE DEF IInv
<1>1. /\ pc[p] = "wait" /\ pc'[p] = "idle" /\ commit[p] = 0
      /\ \A q \in Procs : q # p =>
           /\ pc'[q] = pc[q] /\ pos'[q] = pos[q] /\ seqNum'[q] = seqNum[q] /\ count'[q] = count[q]
           /\ done'[q] = done[q]
      /\ \A q \in Procs : q # p =>
           applied'[q] = applied[q] /\ syncWAL'[q] = syncWAL[q] /\ kind'[q] = kind[q]
  BY DEF Return, Goto, IType, TPc, TQueue, TSeq, TBatch
<1>2. /\ head' = head /\ tail' = tail /\ slots' = slots
      /\ logSeqNum' = logSeqNum /\ visibleSeqNum' = visibleSeqNum
      /\ commit' = commit /\ syncQ' = syncQ /\ ptrs' = ptrs /\ t' = t /\ seen' = seen
  BY DEF Return, queueVars, seqVars, localVars
<1>3. applied'[p] = FALSE /\ syncWAL'[p] = FALSE
  BY DEF Return, IType, TBatch
<1>4. /\ head \in Nat /\ tail \in Nat
      /\ \A q \in Procs : pos[q] \in Nat /\ ptrs[q] \in Nat \X Nat
  BY DEF IType, TQueue, TLocal
<1>5. ~PublishDue(p) /\ ~SyncDue(p)
  BY <1>1 DEF ICommit
<1>6. Live(p) /\ pos[p] < tail /\ ~BeingPublished(p) /\ p \notin syncQ
  BY <1>1, <1>4, <1>5 DEF ICommit, PublishDue, SyncDue, Live
<1>7. \A q \in Procs : /\ Live(q)' <=> Live(q) /\ q # p
                       /\ Assigned(q)' <=> Assigned(q) /\ q # p
  BY <1>1 DEF Live, Assigned
<1>8. \A q \in Procs : pc[q] \in Publishing => t[q] \in Procs /\ t[q] # p /\ NewSeqNum(q)' = NewSeqNum(q)
  <2> SUFFICES ASSUME NEW q \in Procs, pc[q] \in Publishing
               PROVE  t[q] \in Procs /\ t[q] # p /\ NewSeqNum(q)' = NewSeqNum(q)
    OBVIOUS
  <2>1. t[q] \in Procs /\ t[q] # p
    BY <1>6 DEF BeingPublished, IPublisher
  <2> QED BY <2>1, <1>1, <1>2 DEF NewSeqNum
<1>9. \A q \in Procs : pc'[q] # "idle" => q # p /\ pc'[q] = pc[q]
  BY <1>1
<1>10. \A q \in Procs : BeingPublished(q)' <=> BeingPublished(q)
  BY <1>1, <1>2 DEF BeingPublished, Publishing
<1>11. IType'
  <2>1. TPc'
    BY ProcsAssumption DEF IType, TPc, Return, Goto, States, Preparing, Dequeuing, Publishing, Batch
  <2>2. TQueue'
    BY DEF IType, TQueue, Return, queueVars
  <2>3. TSeq'
    BY DEF IType, TSeq, Return, seqVars, batchVars
  <2>4. TBatch'
    BY DEF IType, TBatch, Return, walVars, batchVars
  <2>5. TLocal'
    BY DEF IType, TLocal, TSeq, Return, localVars
  <2>6. TWal'
    BY DEF IType, TWal, TSeq, Return, walVars
  <2> QED BY <2>1, <2>2, <2>3, <2>4, <2>5, <2>6 DEF IType
<1>12. IMutex'
  BY DEF IType, TPc, IMutex, Return, Goto, Locked
<1>13. IQueue'
  <2>1. \A q \in Procs : Live(q)' => Live(q) /\ pos'[q] = pos[q]
    BY <1>1, <1>7
  <2>2. \A i \in Nat : tail <= i /\ i < head =>
          \E b \in Procs : slots[Slot(i)] = b /\ Live(b)' /\ pos'[b] = i
    <3> SUFFICES ASSUME NEW i \in Nat, tail <= i, i < head
                 PROVE  \E b \in Procs : slots[Slot(i)] = b /\ Live(b)' /\ pos'[b] = i
      OBVIOUS
    <3>1. PICK b \in Procs : slots[Slot(i)] = b /\ Live(b) /\ pos[b] = i
      BY DEF IQueue
    <3>2. b # p
      BY <3>1, <1>4, <1>6
    <3> QED BY <3>1, <3>2, <1>1, <1>7
  <2> QED BY <2>1, <2>2, <1>2 DEF IQueue, Slot
<1>14. IProducer'
  BY <1>1, <1>2 DEF IProducer, Slot
<1>15. ILoads'
  <2>1. \A q \in Procs : pc'[q] \in {"peek", "check", "cas"} => pc[q] = pc'[q]
    BY <1>1
  <2>2. ASSUME NEW q \in Procs, pc[q] = "cas", ptrs[q][2] = tail PROVE applied'[t[q]]
    <3>1. t[q] = slots[Slot(tail)] /\ applied[t[q]] /\ tail < head
      BY <2>2, <1>4 DEF ILoads
    <3>2. t[q] \in Procs /\ pos[t[q]] = tail
      BY <3>1, <1>4 DEF IQueue
    <3>3. t[q] # p
      BY <3>2, <1>4, <1>6
    <3> QED BY <3>1, <3>2, <3>3, <1>1
  <2> QED BY <2>1, <2>2, <1>2 DEF ILoads, Slot
<1>16. IPublisher'
  <2>1. \A q \in Procs : pc'[q] \in Publishing => pc[q] \in Publishing
    BY <1>1 DEF Publishing
  <2>2. \A q \in Procs : \A x \in {"clear", "swap", "enqHead"} : pc'[q] = x => pc[q] = x /\ q # p
    BY <1>1
  <2>3. \A q \in Procs : pc[q] \in Publishing => Live(t[q])' /\ pos'[t[q]] = pos[t[q]]
    BY <1>1, <1>2, <1>7, <1>8 DEF IPublisher, Live
  <2> QED BY <2>1, <2>2, <2>3, <1>2, <1>8 DEF IPublisher, Publishing, Slot
<1>17. IApplied'
  <2>1. \A q \in Procs : q # p => (Live(q)' <=> Live(q))
    BY <1>7
  <2> QED BY <2>1, <1>1, <1>2, <1>3, <1>7 DEF IApplied, Marked
<1>18. \A q \in Procs : q # p => EndSeqNum(q)' = EndSeqNum(q)
  BY <1>1 DEF EndSeqNum
<1>19. IOrder'
  BY <1>1, <1>2, <1>7, <1>18 DEF IOrder
<1>20. IVisible'
  <2>1. \A q \in Procs : pc'[q] = "signal" => pc[q] = "signal" /\ pc[q] \in Publishing
    BY <1>1 DEF Publishing
  <2> QED BY <2>1, <1>1, <1>2, <1>7, <1>8, <1>10, <1>18 DEF IVisible
<1>21. ICommit'
  <2>1. \A q \in Procs : q # p => (PublishDue(q)' <=> PublishDue(q))
    BY <1>1, <1>2, <1>7, <1>10 DEF PublishDue
  <2>2. \A q \in Procs : q # p => (SyncDue(q)' <=> SyncDue(q))
    BY <1>1, <1>2 DEF SyncDue
  <2>3. ~PublishDue(p)' /\ ~SyncDue(p)'
    BY <1>1, <1>3, <1>7 DEF PublishDue, SyncDue
  <2>4. ASSUME NEW q \in Procs
        PROVE  commit'[q] = (IF PublishDue(q)' THEN 1 ELSE 0) + (IF SyncDue(q)' THEN 1 ELSE 0)
    <3>1. CASE q = p
      BY <3>1, <2>3, <1>1, <1>2
    <3>2. CASE q # p
      BY <3>2, <2>1, <2>2, <1>2 DEF ICommit
    <3> QED BY <3>1, <3>2
  <2>5. \A q \in Procs : /\ q \in syncQ' => syncWAL'[q] /\ Live(q)' /\ pc'[q] \notin {"assign", "write"}
                         /\ syncWAL'[q] => kind'[q] = "Commit"
    BY <1>1, <1>2, <1>3, <1>6, <1>7 DEF ICommit
  <2> QED BY <2>4, <2>5 DEF ICommit
<1> QED BY <1>11, <1>12, <1>13, <1>14, <1>15, <1>16, <1>17, <1>19, <1>20, <1>21

-----------------------------------------------------------------------------
(* Steps no goroutine of the pipeline takes part in. *)
Still ==
  UNCHANGED <<pc, mu, head, tail, slots, pos, seqNum, count, done, applied, kind, syncWAL,
              ptrs, t, seen>>

LEMMA StillPredicates ==
  ASSUME Still
  PROVE  \A q \in Procs :
           /\ Live(q)' <=> Live(q)
           /\ Assigned(q)' <=> Assigned(q)
           /\ EndSeqNum(q)' = EndSeqNum(q)
           /\ NewSeqNum(q)' = NewSeqNum(q)
           /\ BeingPublished(q)' <=> BeingPublished(q)
           /\ PublishDue(q)' <=> PublishDue(q)
  BY DEF Still, Live, Assigned, EndSeqNum, NewSeqNum, BeingPublished, PublishDue

LEMMA StillInv ==
  ASSUME IInv, Still
  PROVE  TPc' /\ TQueue' /\ TLocal' /\ IMutex' /\ IQueue' /\ IProducer' /\ ILoads' /\ IPublisher' /\ IApplied'
<1> USE DEF IInv, Still
<1>1. TPc' /\ TQueue' /\ TLocal'
  BY DEF IType, TPc, TQueue, TLocal
<1>2. IMutex'
  BY DEF IMutex
<1>3. IQueue'
  BY StillPredicates DEF IQueue, Slot
<1>4. IProducer' /\ ILoads'
  BY DEF IProducer, ILoads, Slot
<1>5. IPublisher'
  <2>1. \A q \in Procs : Live(t[q])' <=> Live(t[q])
    BY DEF Live
  <2> QED BY <2>1, StillPredicates DEF IPublisher, Slot
<1>6. IApplied'
  BY StillPredicates DEF IApplied
<1> QED BY <1>1, <1>2, <1>3, <1>4, <1>5, <1>6

LEMMA StillOrder ==
  ASSUME IInv, Still, UNCHANGED <<logSeqNum, visibleSeqNum>>
  PROVE  TSeq' /\ IOrder' /\ IVisible'
<1>1. TSeq'
  BY DEF IInv, IType, TSeq, Still
<1>2. IOrder'
  BY StillPredicates DEF IInv, IOrder, Still
<1>3. IVisible'
  BY StillPredicates DEF IInv, IVisible, Still
<1> QED BY <1>1, <1>2, <1>3

LEMMA StillCommit ==
  ASSUME IInv, Still, UNCHANGED <<commit, syncQ>>
  PROVE  TBatch' /\ ICommit'
<1>1. TBatch'
  BY DEF IInv, IType, TBatch, Still
<1>2. \A q \in Procs : SyncDue(q)' <=> SyncDue(q)
  BY DEF Still, SyncDue
<1>3. ICommit'
  BY <1>2, StillPredicates DEF IInv, ICommit, Still
<1> QED BY <1>1, <1>3

LEMMA StutterStep ==
  ASSUME IInv, UNCHANGED vars
  PROVE  IInv'
<1>1. Still /\ UNCHANGED <<logSeqNum, visibleSeqNum, commit, syncQ>>
  BY DEF vars, Still, queueVars, seqVars, walVars, batchVars, localVars
<1>2. TWal'
  BY DEF IInv, IType, TWal, vars, walVars
<1> QED BY <1>1, <1>2, StillInv, StillOrder, StillCommit DEF IInv, IType

LEMMA SyncLogStep ==
  ASSUME IInv, SyncLog
  PROVE  IInv'
<1>1. Still /\ UNCHANGED <<logSeqNum, visibleSeqNum, commit, syncQ>>
  BY DEF SyncLog, Still, queueVars, seqVars, batchVars, localVars
<1>2. TWal'
  BY DEF IInv, IType, TWal, SyncLog
<1> QED BY <1>1, <1>2, StillInv, StillOrder, StillCommit DEF IInv, IType

LEMMA SyncDoneStep ==
  ASSUME NEW p \in Procs, IInv, SyncDone(p)
  PROVE  IInv'
<1>1. Still /\ UNCHANGED <<logSeqNum, visibleSeqNum>>
  BY DEF SyncDone, Still, queueVars, seqVars, batchVars, localVars
<1>2. TWal'
  BY DEF IInv, IType, TWal, SyncDone
<1>3. TBatch'
  BY DEF IInv, IType, TBatch, SyncDone, batchVars
<1>4. ICommit'
  <2>1. /\ p \in syncQ /\ p \notin syncQ' /\ commit'[p] = commit[p] - 1 /\ commit[p] \in Int
        /\ \A q \in Procs : q # p => (q \in syncQ' <=> q \in syncQ) /\ commit'[q] = commit[q]
    BY DEF SyncDone, IInv, IType, TBatch
  <2>2. syncWAL[p] /\ Live(p) /\ pc[p] \notin {"assign", "write"}
    BY <2>1 DEF IInv, ICommit
  <2>3. SyncDue(p) /\ ~SyncDue(p)'
    BY <1>1, <2>1, <2>2 DEF SyncDue, Live, Still
  <2>4. \A q \in Procs : q # p => (SyncDue(q)' <=> SyncDue(q))
    BY <1>1, <2>1 DEF SyncDue, Still
  <2>5. ASSUME NEW q \in Procs
        PROVE  commit'[q] = (IF PublishDue(q)' THEN 1 ELSE 0) + (IF SyncDue(q)' THEN 1 ELSE 0)
    <3>1. CASE q = p
      BY <3>1, <1>1, <2>1, <2>3, StillPredicates DEF IInv, ICommit
    <3>2. CASE q # p
      BY <3>2, <1>1, <2>1, <2>4, StillPredicates DEF IInv, ICommit
    <3> QED BY <3>1, <3>2
  <2>6. \A q \in Procs : /\ q \in syncQ' => syncWAL'[q] /\ Live(q)' /\ pc'[q] \notin {"assign", "write"}
                         /\ syncWAL'[q] => kind'[q] = "Commit"
    BY <1>1, <2>1, StillPredicates DEF IInv, ICommit, Still
  <2> QED BY <2>5, <2>6 DEF ICommit
<1> QED BY <1>1, <1>2, <1>3, <1>4, StillInv, StillOrder DEF IInv, IType

LEMMA RatchetSeqNumStep ==
  ASSUME NEW next \in RatchetTargets, IInv, RatchetSeqNum(next)
  PROVE  IInv' /\ visibleSeqNum <= visibleSeqNum'
<1>1. Still /\ UNCHANGED <<commit, syncQ>>
  BY DEF RatchetSeqNum, Still, queueVars, walVars, batchVars, localVars
<1>2. TWal'
  BY DEF IInv, IType, TWal, RatchetSeqNum, walVars
<1>3. next \in Nat /\ logSeqNum' = next /\ visibleSeqNum' = next /\ logSeqNum < next
  BY SeqNumAssumption DEF RatchetSeqNum
<1>4. TSeq'
  BY <1>1, <1>3 DEF IInv, IType, TSeq, Still
<1>5. \A q \in Procs : pc[q] = "idle" /\ pc'[q] = "idle"
  BY <1>1 DEF RatchetSeqNum, Still
<1>6. \A q \in Procs : ~Live(q)' /\ ~Assigned(q)' /\ pc'[q] # "signal"
  BY <1>5 DEF Live, Assigned
<1>7. IOrder' /\ IVisible'
  BY <1>3, <1>6 DEF IOrder, IVisible
<1>8. visibleSeqNum <= visibleSeqNum'
  BY <1>3 DEF IInv, IType, TSeq, IVisible
<1> QED BY <1>1, <1>2, <1>4, <1>7, <1>8, StillInv, StillCommit DEF IInv, IType

-----------------------------------------------------------------------------
LEMMA InitInv == Init => IInv
<1> SUFFICES ASSUME Init PROVE IInv
  OBVIOUS
<1>0. \A p \in Procs : pc[p] = "idle"
  BY DEF Init
<1>1. \A p \in Procs : ~Live(p) /\ ~Assigned(p)
  BY <1>0 DEF Live, Assigned
<1>2. IType
  <2>0. <<0, 0>> \in Nat \X Nat /\ NoBatch \in Batch
    BY DEF Batch
  <2>1. TPc
    BY <2>0 DEF Init, TPc, States
  <2>2. TQueue
    BY <2>0 DEF Init, TQueue
  <2>3. TSeq
    BY SeqNumAssumption DEF Init, TSeq
  <2>4. TBatch
    BY DEF Init, TBatch
  <2>5. TLocal
    BY <2>0 DEF Init, TLocal
  <2>6. TWal
    BY DEF Init, TWal
  <2> QED BY <2>1, <2>2, <2>3, <2>4, <2>5, <2>6 DEF IType
<1>3. IMutex
  BY <1>0, ProcsAssumption DEF Init, IMutex, Locked
<1>4. IQueue
  BY <1>1, ConcurrencyAssumption DEF Init, IQueue
<1>5. IProducer /\ ILoads
  BY <1>0 DEF IProducer, ILoads
<1>6. IPublisher
  BY <1>0 DEF IPublisher, Publishing
<1>7. IApplied
  BY <1>0, <1>1 DEF Init, IApplied, Marked
<1>8. IOrder
  BY <1>1 DEF IOrder
<1>9. IVisible
  BY <1>0, <1>1, SeqNumAssumption DEF Init, IVisible
<1>10. ICommit
  BY <1>0, <1>1 DEF Init, ICommit, PublishDue, SyncDue
<1> QED BY <1>2, <1>3, <1>4, <1>5, <1>6, <1>7, <1>8, <1>9, <1>10 DEF IInv

LEMMA NextInv == IInv /\ [Next]_vars => IInv'
<1> SUFFICES ASSUME IInv, [Next]_vars PROVE IInv'
  OBVIOUS
<1>1. ASSUME NEW p \in Procs, BeginCommit(p) PROVE IInv'
  BY <1>1, BeginStep, CountsAssumption DEF BeginCommit
<1>2. ASSUME NEW p \in Procs, BeginAllocate(p) PROVE IInv'
  BY <1>2, BeginStep, CountsAssumption DEF BeginAllocate
<1>3. ASSUME NEW p \in Procs, Step(p) PROVE IInv'
  <2>1. CASE SwapTail(p)
    BY <2>1, SwapTailWins, SwapTailFails
  <2> QED BY <1>3, <2>1, LockStep, EnqueueSlotStep, EnqueueHeadStep, AssignCommitStep,
             AssignAllocateStep, WriteStep, AwaitVisibleStep, PrepareStep, ApplyOpStep, EndApplyStep,
             ApplyIngestStep, MarkAppliedStep, LoadPtrsStep, LoadSlotStep, LoadAppliedStep,
             ClearSlotStep, LoadVisibleStep, SwapVisibleStep, SignalStep, ReturnStep
          DEF Step
<1>4. CASE FlushLoop
  BY <1>4, SyncLogStep, SyncDoneStep DEF FlushLoop
<1>5. ASSUME NEW next \in RatchetTargets, RatchetSeqNum(next) PROVE IInv'
  BY <1>5, RatchetSeqNumStep
<1>6. CASE UNCHANGED vars
  BY <1>6, StutterStep
<1> QED BY <1>1, <1>2, <1>3, <1>4, <1>5, <1>6 DEF Next, Terminated

(* The inductive invariant holds of every behaviour of the pipeline. *)
THEOREM PipelineInvariant == Spec => []IInv
  BY InitInv, NextInv, PTL DEF Spec

=============================================================================
