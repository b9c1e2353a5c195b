----------------------- MODULE CommitPipelineTheorems -----------------------
(***************************************************************************)
(* What the commit pipeline guarantees, proved for any set of goroutines,   *)
(* any number of slots, any batch sizes and any number of batches.  The     *)
(* theorems rest on the inductive invariant of CommitPipelineProofs and on  *)
(* three smaller ones stated here: the semaphore, the WAL and ingestion.    *)
(***************************************************************************)
EXTENDS CommitPipelineProofs, FiniteSetTheorems

-----------------------------------------------------------------------------
(* A batch that another goroutine is still applying is never visible. *)
THEOREM VisibleAppliedAlways == Spec => []VisibleApplied
<1>1. IInv => VisibleApplied
  <2> SUFFICES ASSUME IInv, NEW p \in Procs, Assigned(p), done[p] < count[p]
               PROVE  visibleSeqNum <= seqNum[p]
    BY DEF VisibleApplied
  <2>1. done[p] # count[p] /\ Live(p)
    BY DEF IInv, IType, TSeq, Assigned, Live
  <2>2. ~applied[p]
    BY <2>1 DEF IInv, IApplied
  <2>3. tail <= pos[p]
    BY <2>1, <2>2 DEF IInv, IType, TQueue, IApplied
  <2> QED BY <2>3 DEF IInv, IVisible
<1> QED BY <1>1, PipelineInvariant, PTL

(* visibleSeqNum never stops inside a batch. *)
THEOREM AtomicVisibilityAlways == Spec => []AtomicVisibility
<1>1. IInv => AtomicVisibility
  BY DEF IInv, IVisible, AtomicVisibility
<1> QED BY <1>1, PipelineInvariant, PTL

(* A call that may return finds its own batch visible. *)
THEOREM ReadYourWritesAlways == Spec => []ReadYourWrites
<1>1. IInv => ReadYourWrites
  <2> SUFFICES ASSUME IInv, NEW p \in Procs, pc[p] = "wait", commit[p] = 0
               PROVE  EndSeqNum(p) <= visibleSeqNum
    BY DEF ReadYourWrites
  <2>1. ~PublishDue(p) /\ Live(p)
    BY DEF IInv, ICommit, Live
  <2>2. pos[p] < tail /\ ~BeingPublished(p)
    BY <2>1 DEF PublishDue, IInv, IType, TQueue
  <2> QED BY <2>1, <2>2 DEF IInv, IVisible
<1> QED BY <1>1, PipelineInvariant, PTL

(* A goroutine that won the dequeue holds an applied batch, not a recycled
   one: the panic of publish is not reached. *)
THEOREM DequeuedIsAppliedAlways == Spec => []DequeuedIsApplied
<1>1. IInv => DequeuedIsApplied
  BY DEF IInv, IPublisher, IApplied, DequeuedIsApplied
<1> QED BY <1>1, PipelineInvariant, PTL

(* The visible sequence number never goes down, whoever publishes. *)
THEOREM VisibleRatchetsAlways == Spec => VisibleRatchets
<1>1. IInv /\ [Next]_vars => [visibleSeqNum' >= visibleSeqNum]_vars
  <2> SUFFICES ASSUME IInv, Next PROVE visibleSeqNum' >= visibleSeqNum
    OBVIOUS
  <2>0. visibleSeqNum \in Nat
    BY DEF IInv, IType, TSeq
  <2>1. ASSUME NEW p \in Procs, BeginCommit(p) \/ BeginAllocate(p) PROVE visibleSeqNum' = visibleSeqNum
    BY <2>1 DEF BeginCommit, BeginAllocate, Begin, seqVars
  <2>2. ASSUME NEW p \in Procs, Step(p) PROVE visibleSeqNum' >= visibleSeqNum
    <3>1. CASE SwapVisible(p)
      <4>1. visibleSeqNum <= visibleSeqNum' /\ visibleSeqNum' \in Nat
        BY <3>1, SwapVisibleStep DEF IInv, IType, TSeq
      <4> QED BY <4>1, <2>0
    <3>2. CASE Lock(p) \/ EnqueueSlot(p) \/ EnqueueHead(p) \/ AssignCommit(p) \/ AssignAllocate(p)
               \/ Write(p) \/ AwaitVisible(p) \/ Prepare(p) \/ ApplyOp(p) \/ EndApply(p)
      <4>1. visibleSeqNum' = visibleSeqNum
        BY <3>2 DEF Lock, EnqueueSlot, EnqueueHead, AssignCommit, AssignAllocate, Write, AwaitVisible,
                    Prepare, ApplyOp, EndApply, seqVars
      <4> QED BY <4>1, <2>0
    <3>3. CASE ApplyIngest(p) \/ MarkApplied(p) \/ LoadPtrs(p) \/ LoadSlot(p) \/ LoadApplied(p)
               \/ SwapTail(p) \/ ClearSlot(p) \/ LoadVisible(p) \/ Signal(p) \/ Return(p)
      <4>1. visibleSeqNum' = visibleSeqNum
        BY <3>3 DEF ApplyIngest, MarkApplied, LoadPtrs, LoadSlot, LoadApplied, SwapTail, ClearSlot,
                    LoadVisible, Signal, Return, seqVars
      <4> QED BY <4>1, <2>0
    <3> QED BY <2>2, <3>1, <3>2, <3>3 DEF Step
  <2>3. CASE FlushLoop
    BY <2>0, <2>3 DEF FlushLoop, SyncLog, SyncDone, seqVars
  <2>4. ASSUME NEW next \in RatchetTargets, RatchetSeqNum(next) PROVE visibleSeqNum' >= visibleSeqNum
    <3>1. visibleSeqNum <= visibleSeqNum' /\ visibleSeqNum' \in Nat
      BY <2>4, RatchetSeqNumStep DEF IInv, IType, TSeq
    <3> QED BY <3>1, <2>0
  <2>5. CASE Terminated
    BY <2>0, <2>5 DEF Terminated, vars, seqVars
  <2> QED BY <2>0, <2>1, <2>2, <2>3, <2>4, <2>5 DEF Next
<1> QED BY <1>1, PipelineInvariant, PTL DEF Spec, VisibleRatchets

-----------------------------------------------------------------------------
(* Steps that start, sequence, write and end no call. *)
Quiet ==
  /\ UNCHANGED <<sem, wal, synced, walPos, syncQ, syncWAL, logSeqNum, seqNum, count>>
  /\ \A q \in Procs : pc'[q] = "idle" <=> pc[q] = "idle"
  /\ \A q \in Procs : pc'[q] = "write" <=> pc[q] = "write"
  /\ \A q \in Procs : Assigned(q)' <=> Assigned(q)

QuietAction(p) ==
  \/ Lock(p) \/ EnqueueSlot(p) \/ EnqueueHead(p) \/ AwaitVisible(p) \/ Prepare(p)
  \/ ApplyOp(p) \/ EndApply(p) \/ ApplyIngest(p) \/ MarkApplied(p)
  \/ LoadPtrs(p) \/ LoadSlot(p) \/ LoadApplied(p) \/ SwapTail(p) \/ ClearSlot(p)
  \/ LoadVisible(p) \/ SwapVisible(p) \/ Signal(p)

LEMMA QuietStep ==
  ASSUME NEW p \in Procs, IInv, QuietAction(p)
  PROVE  Quiet
<1>0. pc \in [Procs -> States]
  BY DEF IInv, IType, TPc
<1>1. UNCHANGED <<sem, wal, synced, walPos, syncQ, syncWAL, logSeqNum, seqNum, count>>
  BY DEF QuietAction, Lock, EnqueueSlot, EnqueueHead, AwaitVisible, Prepare, ApplyOp, EndApply,
         ApplyIngest, MarkApplied, LoadPtrs, LoadSlot, LoadApplied, SwapTail, ClearSlot, LoadVisible,
         SwapVisible, Signal, walVars, seqVars, batchVars
<1>2. \E a, b \in States :
        /\ pc[p] = a /\ pc' = [pc EXCEPT ![p] = b]
        /\ a # "idle" /\ b # "idle" /\ a # "write" /\ b # "write"
        /\ a \in {"lock", "enqSlot", "enqHead", "assign"} <=> b \in {"lock", "enqSlot", "enqHead", "assign"}
  <2>1. CASE Lock(p) \/ EnqueueSlot(p) \/ EnqueueHead(p)
    BY <2>1 DEF Lock, EnqueueSlot, EnqueueHead, Goto, States, Preparing
  <2>2. CASE AwaitVisible(p) \/ Prepare(p) \/ EndApply(p) \/ ApplyIngest(p) \/ MarkApplied(p)
    BY <2>2 DEF AwaitVisible, Prepare, EndApply, ApplyIngest, MarkApplied, Goto, States, Dequeuing
  <2>3. CASE ApplyOp(p)
    BY <1>0, <2>3 DEF ApplyOp, States
  <2>4. CASE LoadPtrs(p) \/ LoadSlot(p) \/ LoadApplied(p) \/ SwapTail(p)
    BY <2>4 DEF LoadPtrs, LoadSlot, LoadApplied, SwapTail, Goto, States, Dequeuing, Publishing
  <2>5. CASE ClearSlot(p) \/ LoadVisible(p) \/ SwapVisible(p) \/ Signal(p)
    BY <2>5 DEF ClearSlot, LoadVisible, SwapVisible, Signal, Goto, States, Dequeuing, Publishing
  <2> QED BY <2>1, <2>2, <2>3, <2>4, <2>5 DEF QuietAction
<1>3. PICK a \in States, b \in States :
        /\ pc[p] = a /\ pc' = [pc EXCEPT ![p] = b]
        /\ a # "idle" /\ b # "idle" /\ a # "write" /\ b # "write"
        /\ a \in {"lock", "enqSlot", "enqHead", "assign"} <=> b \in {"lock", "enqSlot", "enqHead", "assign"}
  BY <1>2
<1>4. pc'[p] = b /\ \A q \in Procs : q # p => pc'[q] = pc[q]
  BY <1>0, <1>3
<1>5. \A q \in Procs : pc'[q] = "idle" <=> pc[q] = "idle"
  BY <1>3, <1>4
<1>6. \A q \in Procs : pc'[q] = "write" <=> pc[q] = "write"
  BY <1>3, <1>4
<1>7. \A q \in Procs : Assigned(q)' <=> Assigned(q)
  BY <1>3, <1>4 DEF Assigned
<1> QED BY <1>1, <1>5, <1>6, <1>7 DEF Quiet

LEMMA StepCases ==
  ASSUME NEW p \in Procs, Step(p)
  PROVE  QuietAction(p) \/ AssignCommit(p) \/ AssignAllocate(p) \/ Write(p) \/ Return(p)
  BY DEF Step, QuietAction

-----------------------------------------------------------------------------
(* A token of the semaphore is held by every call in progress. *)
Active == {p \in Procs : pc[p] # "idle"}

ISem ==
  /\ IsFiniteSet(Active)
  /\ sem = Cardinality(Active)
  /\ sem <= SyncConcurrency - 1

LEMMA InitSem == Init => ISem
<1> SUFFICES ASSUME Init PROVE ISem
  OBVIOUS
<1>1. Active = {}
  BY DEF Init, Active
<1> QED BY <1>1, FS_EmptySet, ConcurrencyAssumption DEF Init, ISem

LEMMA SameSem ==
  ASSUME ISem, sem' = sem, \A q \in Procs : pc'[q] = "idle" <=> pc[q] = "idle"
  PROVE  ISem'
<1>1. Active' = Active
  BY DEF Active
<1> QED BY <1>1 DEF ISem

LEMMA NextSem == IInv /\ ISem /\ [Next]_vars => ISem'
<1> SUFFICES ASSUME IInv, ISem, [Next]_vars PROVE ISem'
  OBVIOUS
<1>0. pc \in [Procs -> States] /\ SyncConcurrency \in Nat /\ Cardinality(Active) \in Nat
  BY ConcurrencyAssumption, FS_CardinalityType DEF IInv, IType, TPc, ISem
<1>1. ASSUME NEW p \in Procs, NEW k, NEW n, NEW sync, Begin(p, k, n, sync) PROVE ISem'
  <2>1. Active' = Active \union {p} /\ p \notin Active
    BY <1>0, <1>1 DEF Begin, Goto, Active
  <2>2. IsFiniteSet(Active \union {p}) /\ Cardinality(Active \union {p}) = Cardinality(Active) + 1
    BY <2>1, FS_AddElement DEF ISem
  <2>3. sem' = sem + 1 /\ sem < SyncConcurrency - 1
    BY <1>1 DEF Begin
  <2> QED BY <2>1, <2>2, <2>3, <1>0 DEF ISem
<1>2. ASSUME NEW p \in Procs, Return(p) PROVE ISem'
  <2>1. Active' = Active \ {p} /\ p \in Active
    BY <1>0, <1>2 DEF Return, Goto, Active
  <2>2. IsFiniteSet(Active \ {p}) /\ Cardinality(Active \ {p}) = Cardinality(Active) - 1
    BY <2>1, FS_RemoveElement DEF ISem
  <2>3. sem' = sem - 1
    BY <1>2 DEF Return
  <2> QED BY <2>1, <2>2, <2>3, <1>0 DEF ISem
<1>3. ASSUME NEW p \in Procs, AssignCommit(p) \/ AssignAllocate(p) \/ Write(p) PROVE ISem'
  <2>1. sem' = sem /\ \A q \in Procs : pc'[q] = "idle" <=> pc[q] = "idle"
    BY <1>0, <1>3 DEF AssignCommit, AssignAllocate, Write, Goto
  <2> QED BY <2>1, SameSem
<1>4. ASSUME NEW p \in Procs, QuietAction(p) PROVE ISem'
  BY <1>4, QuietStep, SameSem DEF Quiet
<1>5. CASE FlushLoop \/ (\E next \in RatchetTargets : RatchetSeqNum(next)) \/ UNCHANGED vars
  <2>1. sem' = sem /\ pc' = pc
    BY <1>5 DEF FlushLoop, SyncLog, SyncDone, RatchetSeqNum, vars
  <2> QED BY <2>1, SameSem
<1> QED BY <1>1, <1>2, <1>3, <1>4, <1>5, StepCases DEF Next, BeginCommit, BeginAllocate, Terminated

LEMMA SemInvariant == Spec => []ISem
  BY InitSem, NextSem, PipelineInvariant, PTL DEF Spec

(* Every variable keeps its type: the WaitGroups never go negative and the
   semaphore never exceeds its capacity. *)
THEOREM TypeCorrect == Spec => []TypeOK
<1>1. IInv /\ ISem => TypeOK
  <2> SUFFICES ASSUME IInv, ISem PROVE TypeOK
    OBVIOUS
  <2>1. sem \in 0 .. SyncConcurrency - 1
    BY FS_CardinalityType, ConcurrencyAssumption DEF ISem
  <2>2. commit \in [Procs -> 0 .. 2]
    <3>1. \A p \in Procs : commit[p] \in 0 .. 2
      BY DEF IInv, ICommit
    <3> QED BY <3>1 DEF IInv, IType, TBatch
  <2> QED BY <2>1, <2>2 DEF TypeOK, IInv, IType, TPc, TQueue, TSeq, TBatch, TLocal, TWal, Batch
<1> QED BY <1>1, PipelineInvariant, SemInvariant, PTL

(* The producer never finds the queue full, "pebble: not reached" in enqueue:
   every queued batch belongs to a call that holds a token, so does the
   producer, and there is one token less than there are slots. *)
THEOREM NeverFullAlways == Spec => []NeverFull
<1>1. IInv /\ ISem => NeverFull
  <2> SUFFICES ASSUME IInv, ISem, NEW p \in Procs, pc[p] = "enqSlot" PROVE ~QueueFull
    BY DEF NeverFull
  <2> DEFINE Queued == {q \in Procs : Live(q)}
             f == [i \in tail .. head - 1 |-> slots[Slot(i)]]
  <2>0. head \in Nat /\ tail \in Nat /\ tail <= head /\ SyncConcurrency \in Nat
    BY ConcurrencyAssumption DEF IInv, IType, TQueue, IQueue
  <2>1. \A i \in tail .. head - 1 : slots[Slot(i)] \in Queued /\ pos[slots[Slot(i)]] = i
    BY <2>0 DEF IInv, IQueue
  <2>2. f \in [tail .. head - 1 -> Queued]
    BY <2>1
  <2>3. \A i, j \in tail .. head - 1 : f[i] = f[j] => i = j
    <3> SUFFICES ASSUME NEW i \in tail .. head - 1, NEW j \in tail .. head - 1,
                        slots[Slot(i)] = slots[Slot(j)]
                 PROVE  i = j
      OBVIOUS
    <3> QED BY <2>1
  <2>4. f \in Injection(tail .. head - 1, Queued)
    BY <2>2, <2>3 DEF Injection, IsInjective
  <2>5. Queued \union {p} \in SUBSET Active /\ p \notin Queued
    BY DEF Live, Active
  <2>6. IsFiniteSet(Queued \union {p}) /\ Cardinality(Queued \union {p}) <= Cardinality(Active)
    BY <2>5, FS_Subset DEF ISem
  <2>7. IsFiniteSet(Queued)
    <3>1. Queued \in SUBSET (Queued \union {p})
      OBVIOUS
    <3> QED BY <3>1, <2>6, FS_Subset
  <2>8. Cardinality(Queued \union {p}) = Cardinality(Queued) + 1
    BY <2>5, <2>7, FS_AddElement
  <2>9. Cardinality(tail .. head - 1) <= Cardinality(Queued)
    BY <2>4, <2>7, FS_Injection
  <2>10. Cardinality(tail .. head - 1) = head - tail
    BY <2>0, FS_Interval
  <2>11. Cardinality(Queued) \in Nat /\ Cardinality(Active) \in Nat
    BY <2>7, FS_CardinalityType DEF ISem
  <2> HIDE DEF Queued
  <2>12. head - tail + 1 <= SyncConcurrency - 1
    BY <2>0, <2>6, <2>8, <2>9, <2>10, <2>11 DEF ISem
  <2> QED BY <2>0, <2>12 DEF QueueFull
<1> QED BY <1>1, PipelineInvariant, SemInvariant, PTL

-----------------------------------------------------------------------------
(* The WAL: records are below the next sequence number and below the batch
   that is about to be written; a synced commit is waiting or durable. *)
ILog ==
  /\ \A i, j \in DOMAIN wal : i <= j => wal[i] <= wal[j]
  /\ \A i \in DOMAIN wal : wal[i] <= logSeqNum
  /\ \A p \in Procs : pc[p] = "write" => \A i \in DOMAIN wal : wal[i] <= seqNum[p]
ISynced ==
  \A p \in Procs : syncWAL[p] /\ Assigned(p) /\ pc[p] # "write" /\ p \notin syncQ => walPos[p] <= synced

LEMMA QuietLog ==
  ASSUME ILog, ISynced, Quiet
  PROVE  ILog' /\ ISynced'
<1>1. ILog'
  BY DEF ILog, Quiet
<1>2. ISynced'
  BY DEF ISynced, Quiet
<1> QED BY <1>1, <1>2

LEMMA NextLog == IInv /\ ILog /\ ISynced /\ [Next]_vars => ILog' /\ ISynced'
<1> SUFFICES ASSUME IInv, ILog, ISynced, [Next]_vars PROVE ILog' /\ ISynced'
  OBVIOUS
<1>0. /\ pc \in [Procs -> States] /\ wal \in Seq(Nat) /\ synced \in Nat /\ walPos \in [Procs -> Nat]
      /\ logSeqNum \in Nat /\ seqNum \in [Procs -> Nat] /\ count \in [Procs -> Nat]
      /\ syncQ \subseteq Procs /\ syncWAL \in [Procs -> BOOLEAN]
      /\ \A i \in DOMAIN wal : wal[i] \in Nat
  BY DEF IInv, IType, TPc, TSeq, TWal, TBatch
<1>1. ASSUME NEW p \in Procs, NEW k, NEW n, NEW sync, Begin(p, k, n, sync) PROVE ILog' /\ ISynced'
  <2>1. /\ UNCHANGED <<wal, synced, walPos, syncQ, logSeqNum, seqNum>>
        /\ pc[p] = "idle" /\ pc'[p] = "lock"
        /\ \A q \in Procs : q # p => pc'[q] = pc[q] /\ syncWAL'[q] = syncWAL[q]
    BY <1>0, <1>1 DEF Begin, Goto, walVars, seqVars
  <2>2. ILog'
    BY <2>1 DEF ILog
  <2>3. ISynced'
    BY <2>1 DEF ISynced, Assigned
  <2> QED BY <2>2, <2>3
<1>2. ASSUME NEW p \in Procs, Return(p) PROVE ILog' /\ ISynced'
  <2>1. /\ UNCHANGED <<wal, synced, syncQ, logSeqNum>>
        /\ pc'[p] = "idle"
        /\ \A q \in Procs : q # p => pc'[q] = pc[q] /\ syncWAL'[q] = syncWAL[q]
                                   /\ seqNum'[q] = seqNum[q] /\ walPos'[q] = walPos[q]
    BY <1>0, <1>2 DEF Return, Goto, seqVars
  <2>2. ILog'
    BY <2>1 DEF ILog
  <2>3. ISynced'
    BY <2>1 DEF ISynced, Assigned
  <2> QED BY <2>2, <2>3
<1>3. ASSUME NEW p \in Procs, AssignCommit(p) PROVE ILog' /\ ISynced'
  <2>1. /\ UNCHANGED <<wal, synced, walPos, syncQ, syncWAL>>
        /\ pc'[p] = "write" /\ seqNum'[p] = logSeqNum /\ logSeqNum' = logSeqNum + count[p]
        /\ \A q \in Procs : q # p => pc'[q] = pc[q] /\ seqNum'[q] = seqNum[q]
    BY <1>0, <1>3 DEF AssignCommit, Goto, walVars
  <2>2. logSeqNum <= logSeqNum' /\ logSeqNum' \in Nat
    BY <1>0, <2>1
  <2>3. ILog'
    <3>1. \A i \in DOMAIN wal : wal[i] <= logSeqNum' /\ wal[i] <= seqNum'[p]
      BY <1>0, <2>1, <2>2 DEF ILog
    <3>2. \A q \in Procs : pc'[q] = "write" /\ q # p => pc[q] = "write" /\ seqNum'[q] = seqNum[q]
      BY <2>1
    <3> QED BY <3>1, <3>2, <2>1 DEF ILog
  <2>4. ISynced'
    BY <2>1 DEF ISynced, Assigned
  <2> QED BY <2>3, <2>4
<1>4. ASSUME NEW p \in Procs, AssignAllocate(p) PROVE ILog' /\ ISynced'
  <2>1. /\ UNCHANGED <<wal, synced, walPos, syncQ, syncWAL>>
        /\ pc'[p] = "spin" /\ kind[p] = "AllocateSeqNum"
        /\ \A q \in Procs : q # p => pc'[q] = pc[q] /\ seqNum'[q] = seqNum[q]
    BY <1>0, <1>4 DEF AssignAllocate, Goto, walVars
  <2>2. logSeqNum <= logSeqNum' /\ logSeqNum' \in Nat
    BY <1>0, <1>4 DEF AssignAllocate
  <2>3. ~syncWAL[p]
    BY <2>1 DEF IInv, ICommit
  <2>4. ILog'
    <3>1. \A i \in DOMAIN wal : wal[i] <= logSeqNum'
      BY <1>0, <2>2 DEF ILog
    <3>2. \A q \in Procs : pc'[q] = "write" => pc[q] = "write" /\ seqNum'[q] = seqNum[q]
      BY <2>1
    <3> QED BY <3>1, <3>2, <2>1 DEF ILog
  <2>5. ISynced'
    BY <2>1, <2>3 DEF ISynced, Assigned
  <2> QED BY <2>4, <2>5
<1>5. ASSUME NEW p \in Procs, Write(p) PROVE ILog' /\ ISynced'
  <2>1. /\ wal' = Append(wal, seqNum[p]) /\ seqNum[p] \in Nat
        /\ UNCHANGED <<synced, logSeqNum, seqNum, syncWAL>>
        /\ pc[p] = "write" /\ pc'[p] = "apply"
        /\ \A q \in Procs : q # p => pc'[q] = pc[q] /\ walPos'[q] = walPos[q]
        /\ \A q \in Procs : q \in syncQ' <=> q \in syncQ \/ (q = p /\ syncWAL[p])
    BY <1>0, <1>5 DEF Write, Goto, seqVars, batchVars
  <2>2. \A q \in Procs : pc'[q] # "write"
    BY <2>1 DEF IInv, IMutex, Locked
  <2>3. seqNum[p] <= logSeqNum
    <3>1. EndSeqNum(p) <= logSeqNum
      BY <2>1 DEF IInv, IOrder, Assigned
    <3> QED BY <3>1, <1>0 DEF EndSeqNum
  <2>4. /\ DOMAIN wal' = 1 .. Len(wal) + 1 /\ DOMAIN wal = 1 .. Len(wal) /\ Len(wal) \in Nat
        /\ \A i \in 1 .. Len(wal) : wal'[i] = wal[i] /\ wal[i] <= seqNum[p] /\ wal[i] \in Nat
        /\ wal'[Len(wal) + 1] = seqNum[p]
    BY <1>0, <2>1 DEF ILog
  <2>5. \A i \in DOMAIN wal' : wal'[i] <= logSeqNum' /\ wal'[i] <= seqNum[p]
    <3> SUFFICES ASSUME NEW i \in 1 .. Len(wal) + 1 PROVE wal'[i] <= logSeqNum /\ wal'[i] <= seqNum[p]
      BY <2>1, <2>4
    <3>1. CASE i = Len(wal) + 1
      BY <3>1, <2>1, <2>3, <2>4
    <3>2. CASE i \in 1 .. Len(wal)
      BY <3>2, <1>0, <2>1, <2>3, <2>4
    <3> QED BY <3>1, <3>2, <2>4
  <2>6. \A i, j \in DOMAIN wal' : i <= j => wal'[i] <= wal'[j]
    <3> SUFFICES ASSUME NEW i \in 1 .. Len(wal) + 1, NEW j \in 1 .. Len(wal) + 1, i <= j
                 PROVE  wal'[i] <= wal'[j]
      BY <2>4
    <3>1. CASE j = Len(wal) + 1
      BY <3>1, <2>4, <2>5
    <3>2. CASE j \in 1 .. Len(wal)
      BY <3>2, <2>4 DEF ILog
    <3> QED BY <3>1, <3>2, <2>4
  <2>7. ILog'
    BY <2>2, <2>5, <2>6 DEF ILog
  <2>8. ISynced'
    BY <2>1 DEF ISynced, Assigned
  <2> QED BY <2>7, <2>8
<1>6. ASSUME NEW p \in Procs, QuietAction(p) PROVE ILog' /\ ISynced'
  BY <1>6, QuietStep, QuietLog
<1>7. CASE SyncLog
  <2>1. /\ UNCHANGED <<pc, wal, walPos, syncQ, syncWAL, logSeqNum, seqNum>>
        /\ synced <= synced' /\ synced' \in Nat
    BY <1>0, <1>7 DEF SyncLog, seqVars, batchVars
  <2>2. ILog'
    BY <2>1 DEF ILog
  <2>3. ISynced'
    BY <1>0, <2>1 DEF ISynced, Assigned
  <2> QED BY <2>2, <2>3
<1>8. ASSUME NEW p \in Procs, SyncDone(p) PROVE ILog' /\ ISynced'
  <2>1. /\ UNCHANGED <<pc, wal, synced, walPos, syncWAL, logSeqNum, seqNum>>
        /\ syncQ' = syncQ \ {p} /\ walPos[p] <= synced
    BY <1>8 DEF SyncDone, Durable, seqVars, batchVars
  <2>2. ILog'
    BY <2>1 DEF ILog
  <2>3. ISynced'
    BY <2>1 DEF ISynced, Assigned
  <2> QED BY <2>2, <2>3
<1>9. ASSUME NEW next \in RatchetTargets, RatchetSeqNum(next) PROVE ILog' /\ ISynced'
  <2>1. /\ UNCHANGED <<pc, wal, synced, walPos, syncQ, syncWAL, seqNum>>
        /\ logSeqNum <= logSeqNum' /\ logSeqNum' \in Nat
    BY <1>0, <1>9, SeqNumAssumption DEF RatchetSeqNum, walVars, batchVars
  <2>2. ILog'
    BY <1>0, <2>1 DEF ILog
  <2>3. ISynced'
    BY <2>1 DEF ISynced, Assigned
  <2> QED BY <2>2, <2>3
<1>10. CASE UNCHANGED vars
  <2>1. UNCHANGED <<pc, wal, synced, walPos, syncQ, syncWAL, logSeqNum, seqNum>>
    BY <1>10 DEF vars, walVars, seqVars, batchVars
  <2>2. ILog'
    BY <2>1 DEF ILog
  <2>3. ISynced'
    BY <2>1 DEF ISynced, Assigned
  <2> QED BY <2>2, <2>3
<1> QED BY <1>1, <1>2, <1>3, <1>4, <1>5, <1>6, <1>7, <1>8, <1>9, <1>10, StepCases
        DEF Next, BeginCommit, BeginAllocate, FlushLoop, Terminated

LEMMA LogInvariant == Spec => [](ILog /\ ISynced)
<1>1. Init => ILog /\ ISynced
  BY DEF Init, ILog, ISynced, Assigned
<1> QED BY <1>1, NextLog, PipelineInvariant, PTL DEF Spec

(* "Batches need to be written to the WAL in sequence number order": the
   mutex covers sequencing and writing. *)
THEOREM WALInOrderAlways == Spec => []WALInOrder
<1>1. ILog => WALInOrder
  BY DEF ILog, WALInOrder
<1> QED BY <1>1, LogInvariant, PTL

(* A commit that asked for a sync returns only when its record is durable. *)
THEOREM SyncedOnReturnAlways == Spec => []SyncedOnReturn
<1>1. IInv /\ ISynced => SyncedOnReturn
  <2> SUFFICES ASSUME IInv, ISynced, NEW p \in Procs, pc[p] = "wait", commit[p] = 0, syncWAL[p]
               PROVE  walPos[p] <= synced
    BY DEF SyncedOnReturn, Durable
  <2>1. ~SyncDue(p)
    BY DEF IInv, ICommit
  <2> QED BY <2>1 DEF SyncDue, ISynced, Assigned
<1> QED BY <1>1, PipelineInvariant, LogInvariant, PTL

-----------------------------------------------------------------------------
(* An ingestion holds the mutex from its sequence number to the end of its
   prepare callback: everything sequenced before is below what it waits for. *)
IIngest ==
  \A p, q \in Procs : q # p /\ Assigned(q) =>
    /\ pc[p] = "spin" => EndSeqNum(q) <= seen[p]
    /\ pc[p] = "prepare" => EndSeqNum(q) <= visibleSeqNum
IDone ==
  \A p \in Procs : done[p] <= count[p] /\ (pc[p] = "idle" => done[p] = 0)

(* A step of p that sequences nothing, while visibility does not go down. *)
LEMMA IngestStep ==
  ASSUME NEW p \in Procs, IInv, IIngest, visibleSeqNum <= visibleSeqNum', visibleSeqNum' \in Nat,
         \A q \in Procs : Assigned(q)' => Assigned(q) /\ EndSeqNum(q)' = EndSeqNum(q),
         \A q \in Procs : pc'[q] = "spin" => pc[q] = "spin" /\ seen'[q] = seen[q],
         \A q \in Procs : pc'[q] = "prepare" => pc[q] = "prepare" \/ (pc[q] = "spin" /\ visibleSeqNum = seen[q])
  PROVE  IIngest'
<1>1. /\ visibleSeqNum \in Nat
      /\ \A q \in Procs : EndSeqNum(q) \in Nat /\ seen[q] \in Nat
  BY DEF IInv, IType, TSeq, TLocal, EndSeqNum
<1> SUFFICES ASSUME NEW x \in Procs, NEW q \in Procs, q # x, Assigned(q)'
             PROVE  /\ pc'[x] = "spin" => EndSeqNum(q)' <= seen'[x]
                    /\ pc'[x] = "prepare" => EndSeqNum(q)' <= visibleSeqNum'
  BY DEF IIngest
<1>2. Assigned(q) /\ EndSeqNum(q)' = EndSeqNum(q)
  OBVIOUS
<1>3. pc'[x] = "spin" => EndSeqNum(q)' <= seen'[x]
  BY <1>2 DEF IIngest
<1>4. pc'[x] = "prepare" => EndSeqNum(q) <= visibleSeqNum
  BY <1>2 DEF IIngest
<1> QED BY <1>1, <1>2, <1>3, <1>4

LEMMA NextIngest == IInv /\ IIngest /\ IDone /\ [Next]_vars => IIngest' /\ IDone'
<1> SUFFICES ASSUME IInv, IIngest, IDone, [Next]_vars PROVE IIngest' /\ IDone'
  OBVIOUS
<1>0. /\ pc \in [Procs -> States] /\ seen \in [Procs -> Nat] /\ seqNum \in [Procs -> Nat]
      /\ count \in [Procs -> Nat] /\ done \in [Procs -> Nat] /\ visibleSeqNum \in Nat /\ logSeqNum \in Nat
  BY DEF IInv, IType, TPc, TSeq, TLocal
<1>1. ASSUME NEW p \in Procs, NEW k, NEW n \in Nat, NEW sync, Begin(p, k, n, sync) PROVE IIngest' /\ IDone'
  <2>1. /\ UNCHANGED <<visibleSeqNum, seqNum, seen, done>>
        /\ pc[p] = "idle" /\ pc'[p] = "lock" /\ count'[p] = n
        /\ \A q \in Procs : q # p => pc'[q] = pc[q] /\ count'[q] = count[q]
    BY <1>0, <1>1 DEF Begin, Goto, seqVars, localVars
  <2>2. IDone'
    BY <1>0, <2>1 DEF IDone
  <2>3. \A q \in Procs : Assigned(q)' => Assigned(q) /\ EndSeqNum(q)' = EndSeqNum(q)
    BY <2>1 DEF Assigned, EndSeqNum
  <2> QED BY <1>0, <2>1, <2>2, <2>3, IngestStep
<1>2. ASSUME NEW p \in Procs, Return(p) PROVE IIngest' /\ IDone'
  <2>1. /\ UNCHANGED <<visibleSeqNum, seen>>
        /\ pc'[p] = "idle" /\ count'[p] = 0 /\ done'[p] = 0
        /\ \A q \in Procs : q # p => /\ pc'[q] = pc[q] /\ count'[q] = count[q]
                                     /\ seqNum'[q] = seqNum[q] /\ done'[q] = done[q]
    BY <1>0, <1>2 DEF Return, Goto, seqVars, localVars
  <2>2. IDone'
    BY <1>0, <2>1 DEF IDone
  <2>3. \A q \in Procs : Assigned(q)' => Assigned(q) /\ EndSeqNum(q)' = EndSeqNum(q)
    BY <2>1 DEF Assigned, EndSeqNum
  <2> QED BY <1>0, <2>1, <2>2, <2>3, IngestStep
<1>3. ASSUME NEW p \in Procs, AssignCommit(p) PROVE IIngest' /\ IDone'
  <2>1. /\ UNCHANGED <<visibleSeqNum, count, done>>
        /\ pc[p] = "assign" /\ pc'[p] = "write"
        /\ \A q \in Procs : q # p => pc'[q] = pc[q]
    BY <1>0, <1>3 DEF AssignCommit, Goto
  <2>2. IDone'
    BY <2>1 DEF IDone
  <2>3. \A q \in Procs : pc'[q] \notin {"spin", "prepare"}
    BY <2>1 DEF IInv, IMutex, Locked
  <2> QED BY <2>2, <2>3 DEF IIngest
<1>4. ASSUME NEW p \in Procs, AssignAllocate(p) PROVE IIngest' /\ IDone'
  <2>1. /\ UNCHANGED <<visibleSeqNum, count, done>>
        /\ pc[p] = "assign" /\ pc'[p] = "spin" /\ seen'[p] = logSeqNum
        /\ \A q \in Procs : q # p => pc'[q] = pc[q] /\ seqNum'[q] = seqNum[q]
    BY <1>0, <1>4 DEF AssignAllocate, Goto
  <2>2. IDone'
    BY <2>1 DEF IDone
  <2>3. \A q \in Procs : q # p => pc'[q] \notin {"spin", "prepare"}
    BY <2>1 DEF IInv, IMutex, Locked
  <2>4. \A q \in Procs : q # p /\ Assigned(q)' => EndSeqNum(q)' <= logSeqNum
    BY <2>1 DEF IInv, IOrder, Assigned, EndSeqNum
  <2> QED BY <2>1, <2>2, <2>3, <2>4 DEF IIngest
<1>5. ASSUME NEW p \in Procs, Write(p) PROVE IIngest' /\ IDone'
  <2>1. /\ UNCHANGED <<visibleSeqNum, seqNum, seen, count, done>>
        /\ pc[p] = "write" /\ pc'[p] = "apply"
        /\ \A q \in Procs : q # p => pc'[q] = pc[q]
    BY <1>0, <1>5 DEF Write, Goto, seqVars, batchVars, localVars
  <2>2. IDone'
    BY <2>1 DEF IDone
  <2>3. \A q \in Procs : Assigned(q)' => Assigned(q) /\ EndSeqNum(q)' = EndSeqNum(q)
    BY <2>1 DEF Assigned, EndSeqNum
  <2> QED BY <1>0, <2>1, <2>2, <2>3, IngestStep
<1>6. ASSUME NEW p \in Procs, QuietAction(p) PROVE IIngest' /\ IDone'
  <2>1. Quiet
    BY <1>6, QuietStep
  <2>2. \A q \in Procs : Assigned(q)' => Assigned(q) /\ EndSeqNum(q)' = EndSeqNum(q)
    BY <2>1 DEF Quiet, EndSeqNum
  <2>3. visibleSeqNum <= visibleSeqNum' /\ visibleSeqNum' \in Nat
    <3>1. CASE SwapVisible(p)
      BY <3>1, SwapVisibleStep DEF IInv, IType, TSeq
    <3>2. CASE ~SwapVisible(p)
      <4>1. visibleSeqNum' = visibleSeqNum
        BY <1>6, <3>2 DEF QuietAction, Lock, EnqueueSlot, EnqueueHead, AwaitVisible, Prepare, ApplyOp,
           EndApply, ApplyIngest, MarkApplied, LoadPtrs, LoadSlot, LoadApplied, SwapTail, ClearSlot,
           LoadVisible, Signal, seqVars
      <4> QED BY <4>1, <1>0
    <3> QED BY <3>1, <3>2
  <2>4. IDone'
    <3>1. \A q \in Procs : count'[q] = count[q] /\ (pc'[q] = "idle" => pc[q] = "idle")
      BY <2>1 DEF Quiet
    <3>2. CASE ApplyOp(p)
      <4>1. /\ done'[p] = done[p] + 1 /\ done[p] < count[p] /\ pc[p] = "apply" /\ pc' = pc
            /\ \A q \in Procs : q # p => done'[q] = done[q]
        BY <1>0, <3>2 DEF ApplyOp
      <4> QED BY <1>0, <3>1, <4>1 DEF IDone
    <3>3. CASE ApplyIngest(p)
      <4>1. /\ done'[p] = count[p] /\ pc'[p] = "mark"
            /\ \A q \in Procs : q # p => done'[q] = done[q]
        BY <1>0, <3>3 DEF ApplyIngest, Goto
      <4> QED BY <1>0, <3>1, <4>1 DEF IDone
    <3>4. CASE ~ApplyOp(p) /\ ~ApplyIngest(p)
      <4>1. done' = done
        BY <1>6, <3>4 DEF QuietAction, Lock, EnqueueSlot, EnqueueHead, AwaitVisible, Prepare,
           EndApply, MarkApplied, LoadPtrs, LoadSlot, LoadApplied, SwapTail, ClearSlot,
           LoadVisible, SwapVisible, Signal, batchVars
      <4> QED BY <3>1, <4>1 DEF IDone
    <3> QED BY <3>2, <3>3, <3>4
  <2>5. \A q \in Procs : /\ pc'[q] = "spin" => pc[q] = "spin" /\ seen'[q] = seen[q]
                         /\ pc'[q] = "prepare" => pc[q] = "prepare" \/ (pc[q] = "spin" /\ visibleSeqNum = seen[q])
    <3>1. CASE AwaitVisible(p)
      BY <1>0, <3>1 DEF AwaitVisible, Goto
    <3>2. CASE Lock(p) \/ EnqueueSlot(p) \/ EnqueueHead(p) \/ Prepare(p) \/ ApplyOp(p) \/ EndApply(p)
               \/ ApplyIngest(p) \/ MarkApplied(p)
      BY <1>0, <3>2 DEF Lock, EnqueueSlot, EnqueueHead, Prepare, ApplyOp, EndApply, ApplyIngest,
         MarkApplied, Goto, localVars
    <3>3. CASE LoadPtrs(p) \/ LoadSlot(p) \/ LoadApplied(p) \/ SwapTail(p) \/ ClearSlot(p) \/ Signal(p)
      BY <1>0, <3>3 DEF LoadPtrs, LoadSlot, LoadApplied, SwapTail, ClearSlot, Signal, Goto
    <3>4. CASE LoadVisible(p) \/ SwapVisible(p)
      BY <1>0, <3>4 DEF LoadVisible, SwapVisible, Goto
    <3> QED BY <1>6, <3>1, <3>2, <3>3, <3>4 DEF QuietAction
  <2> QED BY <2>2, <2>3, <2>4, <2>5, IngestStep
<1>7. CASE FlushLoop
  <2>1. UNCHANGED <<pc, visibleSeqNum, seqNum, seen, count, done>>
    BY <1>7 DEF FlushLoop, SyncLog, SyncDone, seqVars, batchVars, localVars
  <2>2. IIngest' /\ IDone'
    BY <2>1 DEF IIngest, IDone, Assigned, EndSeqNum
  <2> QED BY <2>2
<1>8. ASSUME NEW next \in RatchetTargets, RatchetSeqNum(next) PROVE IIngest' /\ IDone'
  <2>1. /\ UNCHANGED <<pc, count, done>>
        /\ \A q \in Procs : pc[q] = "idle"
    BY <1>8 DEF RatchetSeqNum, batchVars
  <2>2. IIngest' /\ IDone'
    BY <2>1 DEF IIngest, IDone, Assigned
  <2> QED BY <2>2
<1>9. CASE UNCHANGED vars
  <2>1. UNCHANGED <<pc, visibleSeqNum, seqNum, seen, count, done>>
    BY <1>9 DEF vars, seqVars, batchVars, localVars
  <2>2. IIngest' /\ IDone'
    BY <2>1 DEF IIngest, IDone, Assigned, EndSeqNum
  <2> QED BY <2>2
<1> QED BY <1>1, <1>2, <1>3, <1>4, <1>5, <1>6, <1>7, <1>8, <1>9, StepCases, CountsAssumption
        DEF Next, BeginCommit, BeginAllocate, Terminated

(* While an ingestion decides whether it overlaps a memtable, every operation
   sequenced before it is in one and nothing is being sequenced. *)
THEOREM IngestSeesWritesAlways == Spec => []IngestSeesWrites
<1>1. Init => IIngest /\ IDone
  BY DEF Init, IIngest, IDone
<1>2. IInv /\ IIngest /\ IDone => IngestSeesWrites
  <2> SUFFICES ASSUME IInv, IIngest, IDone, NEW p \in Procs, NEW q \in Procs, pc[p] = "prepare", q # p
               PROVE  (Assigned(q) => done[q] = count[q]) /\ pc[q] \notin Locked
    BY DEF IngestSeesWrites
  <2>1. pc[q] \notin Locked
    BY DEF IInv, IMutex, Locked
  <2>2. ASSUME Assigned(q), done[q] # count[q] PROVE FALSE
    <3>1. EndSeqNum(q) <= visibleSeqNum /\ Live(q)
      BY <2>2 DEF IIngest, Assigned, Live
    <3>2. tail <= pos[q]
      BY <2>2, <3>1 DEF IInv, IApplied, IType, TQueue
    <3>3. visibleSeqNum <= seqNum[q]
      BY <2>2, <3>2 DEF IInv, IVisible
    <3>4. done[q] < count[q]
      BY <2>2 DEF IDone, IInv, IType, TSeq
    <3> QED BY <3>1, <3>3, <3>4 DEF EndSeqNum, IInv, IType, TSeq
  <2> QED BY <2>1, <2>2
<1> QED BY <1>1, <1>2, NextIngest, PipelineInvariant, PTL DEF Spec

-----------------------------------------------------------------------------
(* The refinement mapping of ImplementsCommitOrder. *)
Range0    == [p \in Procs |-> IF Assigned(p) THEN <<seqNum[p], EndSeqNum(p)>> ELSE <<>>]
Applying0 == {p \in Procs : pc[p] \in {"write", "spin", "prepare", "apply"}}

LEMMA RangeUnchanged ==
  ASSUME \A q \in Procs : /\ Assigned(q)' <=> Assigned(q)
                          /\ Assigned(q) => seqNum'[q] = seqNum[q] /\ count'[q] = count[q]
  PROVE  Range0' = Range0
<1>1. \A q \in Procs : (IF Assigned(q)' THEN <<seqNum'[q], EndSeqNum(q)'>> ELSE <<>>)
                     = (IF Assigned(q) THEN <<seqNum[q], EndSeqNum(q)>> ELSE <<>>)
  BY DEF EndSeqNum
<1> QED BY <1>1 DEF Range0

LEMMA HoldsRange ==
  \A p \in Procs : /\ Range0[p] # <<>> <=> Assigned(p)
                   /\ Assigned(p) => Range0[p][1] = seqNum[p] /\ Range0[p][2] = EndSeqNum(p)
<1> SUFFICES ASSUME NEW p \in Procs
             PROVE  /\ Range0[p] # <<>> <=> Assigned(p)
                    /\ Assigned(p) => Range0[p][1] = seqNum[p] /\ Range0[p][2] = EndSeqNum(p)
  OBVIOUS
<1>1. Range0[p] = IF Assigned(p) THEN <<seqNum[p], EndSeqNum(p)>> ELSE <<>>
  BY DEF Range0
<1>2. <<seqNum[p], EndSeqNum(p)>> # <<>>
  OBVIOUS
<1> QED BY <1>1, <1>2

(* A step maps to a step of CommitOrder or to a stutter. *)
Promised == Promise!Next \/ UNCHANGED Promise!vars

LEMMA PromisedStutter ==
  ASSUME UNCHANGED <<logSeqNum, visibleSeqNum>>, Range0' = Range0, Applying0' = Applying0
  PROVE  Promised
  BY DEF Promised, Promise!vars, Range0, Applying0

LEMMA PromisedAllocate ==
  ASSUME NEW p \in Procs, IInv, IInv', Sequenced(p),
         seqNum'[p] \in {logSeqNum, IF logSeqNum = 0 THEN 1 ELSE logSeqNum}
  PROVE  Promised
<1>1. ~Assigned(p) /\ Assigned(p)' /\ \A q \in Procs : q # p => (Assigned(q)' <=> Assigned(q))
  BY DEF Sequenced, Assigned
<1>2. EndSeqNum(p)' = logSeqNum' /\ \A q \in Procs : q # p => EndSeqNum(q)' = EndSeqNum(q) /\ seqNum'[q] = seqNum[q]
  BY DEF Sequenced, EndSeqNum
<1>3. Range0' = [Range0 EXCEPT ![p] = <<seqNum'[p], logSeqNum'>>]
  BY <1>1, <1>2 DEF Range0
<1>4. Applying0' = Applying0 \union {p}
  BY DEF Sequenced, Applying0
<1>5. Range0[p] = <<>>
  BY <1>1, HoldsRange
<1>6. logSeqNum' \in Nat /\ seqNum'[p] <= logSeqNum' /\ visibleSeqNum' = visibleSeqNum
  <2>1. seqNum'[p] \in Nat /\ count'[p] \in Nat /\ count' = count /\ logSeqNum' \in Nat
    BY DEF IInv, IType, TSeq, Sequenced
  <2> QED BY <2>1 DEF Sequenced
<1>7. Promise!Allocate(p)
  BY <1>3, <1>4, <1>5, <1>6 DEF Promise!Allocate, Promise!Holds, Range0, Applying0
<1> QED BY <1>7 DEF Promised, Promise!Next

LEMMA PromisedApply ==
  ASSUME NEW p \in Procs, UNCHANGED <<logSeqNum, visibleSeqNum>>, Range0' = Range0,
         pc[p] = "apply", pc'[p] = "mark", \A q \in Procs : q # p => pc'[q] = pc[q]
  PROVE  Promised
<1>1. Applying0' = Applying0 \ {p} /\ p \in Applying0
  BY DEF Applying0
<1>2. Promise!Apply(p)
  BY <1>1 DEF Promise!Apply, Range0, Applying0
<1> QED BY <1>2 DEF Promised, Promise!Next

(* visibleSeqNum moves to the end of a dequeued batch: what is sequenced
   below it was dequeued before, hence applied, and ends below it. *)
LEMMA PromisedPublish ==
  ASSUME NEW p \in Procs, IInv, SwapVisible(p), visibleSeqNum = seen[p], Quiet
  PROVE  Promised
<1>1. /\ pc[p] = "swap" /\ visibleSeqNum' = EndSeqNum(t[p])
      /\ visibleSeqNum < EndSeqNum(t[p]) /\ logSeqNum' = logSeqNum
  BY DEF SwapVisible, NewSeqNum, EndSeqNum, IInv, IPublisher
<1>2. t[p] \in Procs /\ Live(t[p]) /\ pos[t[p]] < tail
  BY <1>1 DEF IInv, IPublisher, Publishing
<1>3. \A q \in Procs : Live(q) /\ pos[q] < tail => Assigned(q) /\ q \notin Applying0
  BY DEF IInv, IApplied, Marked, Assigned, Applying0
<1>4. /\ head \in Nat /\ tail \in Nat
      /\ \A q \in Procs : pos[q] \in Nat /\ EndSeqNum(q) \in Nat /\ seqNum[q] \in Nat /\ seqNum[q] <= EndSeqNum(q)
  BY DEF IInv, IType, TQueue, TSeq, EndSeqNum
<1>5. ASSUME NEW q \in Procs, Assigned(q), seqNum[q] < EndSeqNum(t[p])
      PROVE  q \notin Applying0 /\ EndSeqNum(q) <= EndSeqNum(t[p])
  <2>1. Live(q) /\ Assigned(t[p])
    BY <1>2, <1>3, <1>5 DEF Assigned, Live
  <2>2. ~(pos[t[p]] < pos[q])
    BY <2>1, <1>2, <1>4, <1>5 DEF IInv, IOrder
  <2>3. CASE q = t[p]
    BY <2>3, <1>2, <1>3, <1>4
  <2>4. CASE q # t[p]
    <3>1. pos[q] # pos[t[p]]
      BY <2>1, <2>4, <1>2 DEF IInv, IQueue
    <3>2. pos[q] < pos[t[p]]
      BY <3>1, <2>2, <1>2, <1>4
    <3>3. EndSeqNum(q) <= seqNum[t[p]]
      BY <3>2, <2>1, <1>2, <1>5 DEF IInv, IOrder
    <3>4. pos[q] < tail
      BY <3>2, <1>2, <1>4
    <3> QED BY <3>3, <3>4, <2>1, <1>2, <1>3, <1>4
  <2> QED BY <2>3, <2>4
<1>6. Range0' = Range0
  BY RangeUnchanged DEF Quiet
<1>7. Applying0' = Applying0
  BY DEF SwapVisible, Goto, Applying0, IInv, IType, TPc
<1>8. Range0[t[p]] # <<>> /\ Range0[t[p]][2] = EndSeqNum(t[p])
  BY <1>2, <1>3, HoldsRange
<1>9. \A q \in Procs : Range0[q] # <<>> /\ Range0[q][1] < Range0[t[p]][2] =>
        q \notin Applying0 /\ Range0[q][2] <= Range0[t[p]][2]
  BY <1>5, <1>8, HoldsRange
<1>10. Promise!Publish(t[p])
  BY <1>1, <1>6, <1>7, <1>8, <1>9 DEF Promise!Publish, Promise!Holds, Range0, Applying0
<1> QED BY <1>2, <1>10 DEF Promised, Promise!Next

LEMMA PromisedReturn ==
  ASSUME NEW p \in Procs, IInv, Return(p)
  PROVE  Promised
<1>1. /\ pc[p] = "wait" /\ pc'[p] = "idle" /\ commit[p] = 0
      /\ UNCHANGED <<logSeqNum, visibleSeqNum>>
      /\ \A q \in Procs : q # p => /\ pc'[q] = pc[q] /\ count'[q] = count[q]
                                   /\ seqNum'[q] = seqNum[q]
  BY DEF Return, Goto, seqVars, IInv, IType, TPc, TSeq
<1>2. EndSeqNum(p) <= visibleSeqNum
  <2>1. ~PublishDue(p) /\ Live(p)
    BY <1>1 DEF IInv, ICommit, Live
  <2>2. pos[p] < tail /\ ~BeingPublished(p)
    BY <2>1 DEF PublishDue, IInv, IType, TQueue
  <2> QED BY <2>1, <2>2 DEF IInv, IVisible
<1>3. Assigned(p) /\ ~Assigned(p)' /\ \A q \in Procs : q # p => (Assigned(q)' <=> Assigned(q))
  BY <1>1 DEF Assigned
<1>4. \A q \in Procs : q # p => EndSeqNum(q)' = EndSeqNum(q)
  BY <1>1 DEF EndSeqNum
<1>5. Range0' = [Range0 EXCEPT ![p] = <<>>]
  BY <1>1, <1>3, <1>4 DEF Range0
<1>6. Applying0' = Applying0 /\ p \notin Applying0
  BY <1>1 DEF Applying0
<1>7. Range0[p] # <<>> /\ Range0[p][2] = EndSeqNum(p)
  BY <1>3, HoldsRange
<1>8. Promise!Return(p)
  BY <1>1, <1>2, <1>5, <1>6, <1>7 DEF Promise!Return, Promise!Holds, Range0, Applying0
<1> QED BY <1>8 DEF Promised, Promise!Next

LEMMA PromisedRatchet ==
  ASSUME NEW next \in RatchetTargets, IInv, RatchetSeqNum(next)
  PROVE  Promised
<1>1. /\ logSeqNum' = next /\ visibleSeqNum' = next /\ next \in Nat /\ next > logSeqNum
      /\ UNCHANGED <<pc, seqNum, count>> /\ \A p \in Procs : pc[p] = "idle"
  BY SeqNumAssumption DEF RatchetSeqNum, batchVars, IInv, IType, TSeq
<1>2. Range0' = Range0 /\ Applying0' = Applying0
  BY <1>1, RangeUnchanged DEF Assigned, Applying0
<1>3. \A p \in Procs : ~(Range0[p] # <<>>)
  BY <1>1, HoldsRange DEF Assigned
<1>4. Promise!Ratchet
  BY <1>1, <1>2, <1>3 DEF Promise!Ratchet, Promise!Holds, Range0, Applying0
<1> QED BY <1>4 DEF Promised, Promise!Next

LEMMA PromisedQuiet ==
  ASSUME NEW p \in Procs, IInv, QuietAction(p)
  PROVE  Promised
<1>0. Quiet /\ pc \in [Procs -> States]
  BY QuietStep DEF IInv, IType, TPc
<1>1. Range0' = Range0 /\ logSeqNum' = logSeqNum
  BY <1>0, RangeUnchanged DEF Quiet
<1>2. CASE SwapVisible(p) /\ visibleSeqNum = seen[p]
  BY <1>0, <1>2, PromisedPublish
<1>3. CASE EndApply(p) \/ ApplyIngest(p)
  <2>1. /\ visibleSeqNum' = visibleSeqNum /\ pc[p] = "apply" /\ pc'[p] = "mark"
        /\ \A q \in Procs : q # p => pc'[q] = pc[q]
    BY <1>0, <1>3 DEF EndApply, ApplyIngest, Goto, seqVars
  <2> QED BY <1>1, <2>1, PromisedApply
<1>4. CASE Lock(p) \/ EnqueueSlot(p) \/ EnqueueHead(p) \/ AwaitVisible(p) \/ Prepare(p)
           \/ ApplyOp(p) \/ MarkApplied(p)
  <2>1. visibleSeqNum' = visibleSeqNum /\ Applying0' = Applying0
    BY <1>0, <1>4 DEF Lock, EnqueueSlot, EnqueueHead, AwaitVisible, Prepare, ApplyOp, MarkApplied,
       Goto, Applying0, seqVars
  <2> QED BY <1>1, <2>1, PromisedStutter
<1>5. CASE LoadPtrs(p) \/ LoadSlot(p) \/ LoadApplied(p) \/ SwapTail(p) \/ ClearSlot(p)
  <2>1. visibleSeqNum' = visibleSeqNum /\ Applying0' = Applying0
    BY <1>0, <1>5 DEF LoadPtrs, LoadSlot, LoadApplied, SwapTail, ClearSlot, Goto, Applying0, seqVars
  <2> QED BY <1>1, <2>1, PromisedStutter
<1>6. CASE LoadVisible(p) \/ Signal(p) \/ (SwapVisible(p) /\ visibleSeqNum # seen[p])
  <2>1. visibleSeqNum' = visibleSeqNum /\ Applying0' = Applying0
    BY <1>0, <1>6 DEF LoadVisible, Signal, SwapVisible, Goto, Applying0, seqVars
  <2> QED BY <1>1, <2>1, PromisedStutter
<1> QED BY <1>2, <1>3, <1>4, <1>5, <1>6 DEF QuietAction

LEMMA PromisedNext == IInv /\ IInv' /\ [Next]_vars => Promised
<1> SUFFICES ASSUME IInv, IInv', [Next]_vars PROVE Promised
  OBVIOUS
<1>0. pc \in [Procs -> States] /\ seqNum \in [Procs -> Nat] /\ seen \in [Procs -> Nat] /\ logSeqNum \in Nat
      /\ count \in [Procs -> Nat]
  BY DEF IInv, IType, TPc, TSeq, TLocal
<1>1. ASSUME NEW p \in Procs, NEW k, NEW n, NEW sync, Begin(p, k, n, sync) PROVE Promised
  <2>1. /\ UNCHANGED <<logSeqNum, visibleSeqNum, seqNum>> /\ pc[p] = "idle" /\ pc'[p] = "lock"
        /\ \A q \in Procs : q # p => pc'[q] = pc[q] /\ count'[q] = count[q]
    BY <1>0, <1>1 DEF Begin, Goto, seqVars
  <2>2. Range0' = Range0
    BY <2>1, RangeUnchanged DEF Assigned
  <2>3. Applying0' = Applying0
    BY <2>1 DEF Applying0
  <2> QED BY <2>1, <2>2, <2>3, PromisedStutter
<1>2. ASSUME NEW p \in Procs, AssignCommit(p) PROVE Promised
  <2>1. UNCHANGED <<head, tail, slots, pos, count, visibleSeqNum, applied, done, ptrs, t, seen,
                 commit, syncQ, syncWAL, kind>>
    BY <1>2 DEF AssignCommit, queueVars, walVars, localVars
  <2>2. /\ pc[p] = "assign" /\ pc'[p] = "write" /\ seqNum'[p] = logSeqNum
        /\ logSeqNum' = logSeqNum + count[p]
        /\ \A q \in Procs : q # p => pc'[q] = pc[q] /\ seqNum'[q] = seqNum[q]
    BY <1>0, <1>2 DEF AssignCommit, Goto
  <2>3. Sequenced(p)
    BY <1>0, <2>1, <2>2 DEF Sequenced
  <2> QED BY <2>2, <2>3, PromisedAllocate
<1>3. ASSUME NEW p \in Procs, AssignAllocate(p) PROVE Promised
  <2>1. UNCHANGED <<head, tail, slots, pos, count, visibleSeqNum, applied, done, ptrs, t,
                 commit, syncQ, syncWAL, kind>>
    BY <1>3 DEF AssignAllocate, queueVars, walVars
  <2>2. /\ pc[p] = "assign" /\ pc'[p] = "spin" /\ kind[p] = "AllocateSeqNum"
        /\ \A q \in Procs : q # p => pc'[q] = pc[q] /\ seqNum'[q] = seqNum[q] /\ seen'[q] = seen[q]
    BY <1>0, <1>3 DEF AssignAllocate, Goto
  <2>3. /\ logSeqNum <= seqNum'[p] /\ logSeqNum' = seqNum'[p] + count[p]
        /\ seqNum'[p] = IF logSeqNum = 0 THEN 1 ELSE logSeqNum
    BY <1>0, <1>3 DEF AssignAllocate
  <2>4. ~syncWAL[p]
    BY <2>2 DEF IInv, ICommit
  <2>5. Sequenced(p)
    BY <2>1, <2>2, <2>3, <2>4 DEF Sequenced
  <2> QED BY <2>3, <2>5, PromisedAllocate
<1>4. ASSUME NEW p \in Procs, Write(p) PROVE Promised
  <2>1. /\ UNCHANGED <<logSeqNum, visibleSeqNum, seqNum, count>> /\ pc[p] = "write" /\ pc'[p] = "apply"
        /\ \A q \in Procs : q # p => pc'[q] = pc[q]
    BY <1>0, <1>4 DEF Write, Goto, seqVars, batchVars
  <2>2. Range0' = Range0
    BY <2>1, RangeUnchanged DEF Assigned
  <2>3. Applying0' = Applying0
    BY <2>1 DEF Applying0
  <2> QED BY <2>1, <2>2, <2>3, PromisedStutter
<1>5. ASSUME NEW p \in Procs, Return(p) PROVE Promised
  BY <1>5, PromisedReturn
<1>6. ASSUME NEW p \in Procs, QuietAction(p) PROVE Promised
  BY <1>6, PromisedQuiet
<1>7. CASE FlushLoop \/ UNCHANGED vars
  <2>1. UNCHANGED <<pc, logSeqNum, visibleSeqNum, seqNum, count>>
    BY <1>7 DEF FlushLoop, SyncLog, SyncDone, vars, seqVars, batchVars
  <2>2. Range0' = Range0 /\ Applying0' = Applying0
    BY <2>1, RangeUnchanged DEF Assigned, Applying0
  <2> QED BY <2>1, <2>2, PromisedStutter
<1>8. ASSUME NEW next \in RatchetTargets, RatchetSeqNum(next) PROVE Promised
  BY <1>8, PromisedRatchet
<1> QED BY <1>1, <1>2, <1>3, <1>4, <1>5, <1>6, <1>7, <1>8, StepCases
        DEF Next, BeginCommit, BeginAllocate, Terminated

(* The pipeline keeps the promise of CommitOrder: ranges of sequence numbers
   are handed out in order, visibility moves over whole applied batches, and
   a call returns when it is visible. *)
THEOREM PipelineImplementsCommitOrder == Spec => ImplementsCommitOrder
<1>1. Init => Promise!Init
  <2> SUFFICES ASSUME Init PROVE Promise!Init
    OBVIOUS
  <2>1. \A p \in Procs : ~Assigned(p) /\ p \notin Applying0
    BY DEF Init, Assigned, Applying0
  <2>2. Range0 = [p \in Procs |-> <<>>] /\ Applying0 = {}
    BY <2>1 DEF Range0, Applying0
  <2> QED BY <2>2 DEF Init, Promise!Init, Range0, Applying0
<1>2. IInv /\ IInv' /\ [Next]_vars => [Promise!Next]_(Promise!vars)
  BY PromisedNext DEF Promised
<1> QED BY <1>1, <1>2, PipelineInvariant, PTL DEF Spec, ImplementsCommitOrder, Promise!Spec

=============================================================================
