--------------------------- MODULE CommitPipeline ---------------------------
(***************************************************************************)
(* The commit pipeline of commit.go.  Every goroutine of Procs commits      *)
(* batches (DB.Apply -> Commit) or sequences ingestions (AllocateSeqNum).   *)
(* A member of Procs is a batch of the pool together with the call that is  *)
(* using it: a Batch goes back to its pool when the call returns, and the   *)
(* next call that takes it out is the same member of Procs again.  So a     *)
(* stale pointer in a consumer may name a batch that is already reused.     *)
(*                                                                          *)
(* One action is one atomic access to state another goroutine can touch     *)
(* (headTail, a slot, Batch.applied, visibleSeqNum, a WaitGroup, the        *)
(* semaphore, the mutex).  head and tail are the two halves of headTail;    *)
(* here they count without wrapping.                                        *)
(***************************************************************************)
EXTENDS Integers, FiniteSets, Sequences

CONSTANTS
  Procs,            \* goroutines that call Commit or AllocateSeqNum
  NoBatch,          \* the nil pointer of an empty slot, the holder of a free mutex
  SyncConcurrency,  \* number of slots; commitPipeline.sem admits one less
  FirstSeqNum,      \* logSeqNum when the pipeline is created
  Counts,           \* numbers of operations a committed batch may hold
  SyncModes,        \* values of Commit's syncWAL argument
  MaxBatches,       \* bound on the number of batches started
  RatchetTargets    \* values ratchetSeqNum is called with

ASSUME ProcsAssumption == NoBatch \notin Procs
ASSUME ConcurrencyAssumption == SyncConcurrency \in Nat /\ SyncConcurrency >= 2
ASSUME SeqNumAssumption == FirstSeqNum \in Nat /\ RatchetTargets \subseteq Nat
ASSUME CountsAssumption == Counts \subseteq Nat /\ SyncModes \subseteq BOOLEAN
ASSUME BoundAssumption == MaxBatches \in Nat

VARIABLES
  pc,             \* where each goroutine is
  mu,             \* holder of commitPipeline.mu
  sem,            \* tokens in commitPipeline.sem
  head, tail,     \* commitQueue.headTail
  slots,          \* commitQueue.slots
  logSeqNum,      \* next sequence number to assign
  visibleSeqNum,  \* sequence number reads are performed at
  wal,            \* sequence numbers of the batches written, in file order
  synced,         \* how many of them are durable
  kind,           \* "Commit" or "AllocateSeqNum"
  syncWAL,        \* whether the commit asked for a WAL sync
  seqNum, count,  \* header of the goroutine's batch
  applied,        \* Batch.applied
  commit,         \* Batch.commit, the WaitGroup counter
  walPos,         \* position of the batch's record in the WAL
  syncQ,          \* batches whose WaitGroup the WAL still has to signal
  done,           \* operations of the batch already in the memtable
  pos,            \* history: the index of the queue the batch was enqueued at
  ptrs,           \* headTail as the goroutine last loaded it in dequeue
  t,              \* the batch pointer the goroutine last loaded in dequeue
  seen            \* the sequence number the goroutine last loaded

queueVars == <<head, tail, slots>>
seqVars   == <<logSeqNum, visibleSeqNum>>
walVars   == <<wal, synced, walPos, syncQ>>
batchVars == <<kind, syncWAL, seqNum, count, applied, done>>
localVars == <<ptrs, t, seen>>
vars == <<pc, mu, sem, queueVars, seqVars, walVars, batchVars, commit, pos, localVars>>

Slot(i) == i % SyncConcurrency

(* The steps of Commit, prepare, AllocateSeqNum, publish and dequeue. *)
Preparing  == {"lock", "enqSlot", "enqHead", "assign"}
Locked     == {"enqSlot", "enqHead", "assign", "write", "spin", "prepare"}
Dequeuing  == {"load", "peek", "check", "cas"}
Publishing == {"clear", "ratchet", "swap", "signal"}
States     == {"idle"} \union Preparing \union {"write", "spin", "prepare", "apply", "mark"}
                \union Dequeuing \union Publishing \union {"wait"}

Goto(p, s) == pc' = [pc EXCEPT ![p] = s]

Init ==
  /\ pc = [p \in Procs |-> "idle"]
  /\ mu = NoBatch
  /\ sem = 0
  /\ head = 0
  /\ tail = 0
  /\ slots = [i \in 0 .. SyncConcurrency - 1 |-> NoBatch]
  /\ logSeqNum = FirstSeqNum
  /\ visibleSeqNum = FirstSeqNum
  /\ wal = <<>>
  /\ synced = 0
  /\ kind = [p \in Procs |-> "Commit"]
  /\ syncWAL = [p \in Procs |-> FALSE]
  /\ seqNum = [p \in Procs |-> 0]
  /\ count = [p \in Procs |-> 0]
  /\ applied = [p \in Procs |-> FALSE]
  /\ commit = [p \in Procs |-> 0]
  /\ walPos = [p \in Procs |-> 0]
  /\ syncQ = {}
  /\ done = [p \in Procs |-> 0]
  /\ pos = [p \in Procs |-> 0]
  /\ ptrs = [p \in Procs |-> <<0, 0>>]
  /\ t = [p \in Procs |-> NoBatch]
  /\ seen = [p \in Procs |-> 0]

-----------------------------------------------------------------------------
(* Batches started so far: the ones enqueued and the ones about to be. *)
Started == head + Cardinality({p \in Procs : pc[p] \in {"lock", "enqSlot", "enqHead"}})

(* Mutant: the WaitGroup is not sized for the WAL sync. *)
BeginOneWaiter(p, k, n, sync) ==
  /\ pc[p] = "idle"
  /\ Started < MaxBatches
  /\ sem < SyncConcurrency - 1
  /\ sem' = sem + 1
  /\ kind' = [kind EXCEPT ![p] = k]
  /\ syncWAL' = [syncWAL EXCEPT ![p] = sync]
  /\ count' = [count EXCEPT ![p] = n]
  /\ commit' = [commit EXCEPT ![p] = 1]
  /\ Goto(p, "lock")
  /\ UNCHANGED <<pos, mu, queueVars, seqVars, walVars, seqNum, applied, done, localVars>>

(* Mutant: a call does not wait for a token of the semaphore. *)
BeginAtOnce(p, k, n, sync) ==
  /\ pc[p] = "idle"
  /\ Started < MaxBatches
  /\ sem' = sem + 1
  /\ kind' = [kind EXCEPT ![p] = k]
  /\ syncWAL' = [syncWAL EXCEPT ![p] = sync]
  /\ count' = [count EXCEPT ![p] = n]
  /\ commit' = [commit EXCEPT ![p] = IF sync THEN 2 ELSE 1]
  /\ Goto(p, "lock")
  /\ UNCHANGED <<pos, mu, queueVars, seqVars, walVars, seqNum, applied, done, localVars>>

(* Take a semaphore token and size the batch's WaitGroup. *)
Begin(p, k, n, sync) ==
  /\ pc[p] = "idle"
  /\ Started < MaxBatches
  /\ sem < SyncConcurrency - 1
  /\ sem' = sem + 1
  /\ kind' = [kind EXCEPT ![p] = k]
  /\ syncWAL' = [syncWAL EXCEPT ![p] = sync]
  /\ count' = [count EXCEPT ![p] = n]
  /\ commit' = [commit EXCEPT ![p] = IF sync THEN 2 ELSE 1]
  /\ Goto(p, "lock")
  /\ UNCHANGED <<pos, mu, queueVars, seqVars, walVars, seqNum, applied, done, localVars>>

BeginCommit(p) == \E n \in Counts, sync \in SyncModes : Begin(p, "Commit", n, sync)

(* An ingestion allocates one sequence number per sstable, at least one. *)
BeginAllocate(p) == \E n \in Counts \ {0} : Begin(p, "AllocateSeqNum", n, FALSE)

Lock(p) ==
  /\ pc[p] = "lock"
  /\ mu = NoBatch
  /\ mu' = p
  /\ Goto(p, "enqSlot")
  /\ UNCHANGED <<pos, sem, queueVars, seqVars, walVars, batchVars, commit, localVars>>

(* enqueue: the queue is full, "pebble: not reached". *)
QueueFull == tail + SyncConcurrency = head

(* enqueue: spin until the consumer has released the head slot, then fill it. *)
EnqueueSlot(p) ==
  /\ pc[p] = "enqSlot"
  /\ ~QueueFull
  /\ slots[Slot(head)] = NoBatch
  /\ slots' = [slots EXCEPT ![Slot(head)] = p]
  /\ pos' = [pos EXCEPT ![p] = head]
  /\ Goto(p, "enqHead")
  /\ UNCHANGED <<mu, sem, head, tail, seqVars, walVars, batchVars, commit, localVars>>

EnqueueHead(p) ==
  /\ pc[p] = "enqHead"
  /\ head' = head + 1
  /\ Goto(p, "assign")
  /\ UNCHANGED <<pos, mu, sem, tail, slots, seqVars, walVars, batchVars, commit, localVars>>

(* Mutant: the mutex is released before the WAL write. *)
AssignUnlocked(p) ==
  /\ pc[p] = "assign"
  /\ kind[p] = "Commit"
  /\ seqNum' = [seqNum EXCEPT ![p] = logSeqNum]
  /\ logSeqNum' = logSeqNum + count[p]
  /\ mu' = NoBatch
  /\ Goto(p, "write")
  /\ UNCHANGED <<pos, sem, queueVars, visibleSeqNum, walVars, kind, syncWAL, count,
                 applied, done, commit, localVars>>

(* prepare: assign the batch its sequence numbers. *)
AssignCommit(p) ==
  /\ pc[p] = "assign"
  /\ kind[p] = "Commit"
  /\ seqNum' = [seqNum EXCEPT ![p] = logSeqNum]
  /\ logSeqNum' = logSeqNum + count[p]
  /\ Goto(p, "write")
  /\ UNCHANGED <<pos, mu, sem, queueVars, visibleSeqNum, walVars, kind, syncWAL, count,
                 applied, done, commit, localVars>>

(* AllocateSeqNum: 0 means "no global seqnum", so an ingestion skips it. *)
AssignAllocate(p) ==
  LET skip == IF logSeqNum = 0 THEN 1 ELSE 0 IN
  /\ pc[p] = "assign"
  /\ kind[p] = "AllocateSeqNum"
  /\ seen' = [seen EXCEPT ![p] = logSeqNum]
  /\ seqNum' = [seqNum EXCEPT ![p] = logSeqNum + skip]
  /\ logSeqNum' = logSeqNum + count[p] + skip
  /\ Goto(p, "spin")
  /\ UNCHANGED <<pos, mu, sem, queueVars, visibleSeqNum, walVars, kind, syncWAL, count,
                 applied, done, commit, ptrs, t>>

(* commitEnv.write and the end of prepare: append the batch to the WAL, queue
   its WaitGroup for the sync, release the mutex. *)
Write(p) ==
  /\ pc[p] = "write"
  /\ wal' = Append(wal, seqNum[p])
  /\ walPos' = [walPos EXCEPT ![p] = Len(wal) + 1]
  /\ syncQ' = IF syncWAL[p] THEN syncQ \union {p} ELSE syncQ
  /\ mu' = NoBatch
  /\ Goto(p, "apply")
  /\ UNCHANGED <<pos, sem, queueVars, seqVars, synced, batchVars, commit, localVars>>

(* Mutant: an ingestion does not wait for outstanding writes. *)
AwaitNothing(p) ==
  /\ pc[p] = "spin"
  /\ seen' = [seen EXCEPT ![p] = 0]
  /\ Goto(p, "prepare")
  /\ UNCHANGED <<pos, mu, sem, queueVars, seqVars, walVars, batchVars, commit, ptrs, t>>

(* AllocateSeqNum: wait until every earlier batch is visible. *)
AwaitVisible(p) ==
  /\ pc[p] = "spin"
  /\ visibleSeqNum = seen[p]
  /\ seen' = [seen EXCEPT ![p] = 0]
  /\ Goto(p, "prepare")
  /\ UNCHANGED <<pos, mu, sem, queueVars, seqVars, walVars, batchVars, commit, ptrs, t>>

(* AllocateSeqNum: run the prepare callback, release the mutex. *)
Prepare(p) ==
  /\ pc[p] = "prepare"
  /\ mu' = NoBatch
  /\ Goto(p, "apply")
  /\ UNCHANGED <<pos, sem, queueVars, seqVars, walVars, batchVars, commit, localVars>>

(* commitEnv.apply: insert the next operation of the batch in the memtable. *)
ApplyOp(p) ==
  /\ pc[p] = "apply"
  /\ kind[p] = "Commit"
  /\ done[p] < count[p]
  /\ done' = [done EXCEPT ![p] = done[p] + 1]
  /\ UNCHANGED <<pos, pc, mu, sem, queueVars, seqVars, walVars, kind, syncWAL, seqNum,
                 count, applied, commit, localVars>>

EndApply(p) ==
  /\ pc[p] = "apply"
  /\ kind[p] = "Commit"
  /\ done[p] = count[p]
  /\ Goto(p, "mark")
  /\ UNCHANGED <<pos, mu, sem, queueVars, seqVars, walVars, batchVars, commit, localVars>>

(* The apply callback of an ingestion installs all its sstables at once. *)
ApplyIngest(p) ==
  /\ pc[p] = "apply"
  /\ kind[p] = "AllocateSeqNum"
  /\ done' = [done EXCEPT ![p] = count[p]]
  /\ Goto(p, "mark")
  /\ UNCHANGED <<pos, mu, sem, queueVars, seqVars, walVars, kind, syncWAL, seqNum, count,
                 applied, commit, localVars>>

-----------------------------------------------------------------------------
(* publish *)
MarkApplied(p) ==
  /\ pc[p] = "mark"
  /\ applied' = [applied EXCEPT ![p] = TRUE]
  /\ Goto(p, "load")
  /\ UNCHANGED <<pos, mu, sem, queueVars, seqVars, walVars, kind, syncWAL, seqNum, count,
                 done, commit, localVars>>

(* Locals that are dead are reset, which keeps the state space small. *)
Forget(p) ==
  /\ ptrs' = [ptrs EXCEPT ![p] = <<0, 0>>]
  /\ t' = [t EXCEPT ![p] = NoBatch]

(* dequeue: load headTail; an empty queue ends the publish loop. *)
LoadPtrs(p) ==
  /\ pc[p] = "load"
  /\ IF head = tail
     THEN UNCHANGED ptrs /\ Goto(p, "wait")
     ELSE ptrs' = [ptrs EXCEPT ![p] = <<head, tail>>] /\ Goto(p, "peek")
  /\ UNCHANGED <<pos, mu, sem, queueVars, seqVars, walVars, batchVars, commit, t, seen>>

(* dequeue: load the tail slot; nil means another goroutine dequeued it. *)
LoadSlot(p) ==
  /\ pc[p] = "peek"
  /\ LET b == slots[Slot(ptrs[p][2])] IN
       IF b = NoBatch
       THEN Forget(p) /\ Goto(p, "wait")
       ELSE t' = [t EXCEPT ![p] = b] /\ UNCHANGED ptrs /\ Goto(p, "check")
  /\ UNCHANGED <<pos, mu, sem, queueVars, seqVars, walVars, batchVars, commit, seen>>

(* Mutant: the applied flag is not checked. *)
IgnoreApplied(p) ==
  /\ pc[p] = "check"
  /\ Goto(p, "cas")
  /\ UNCHANGED <<pos, mu, sem, queueVars, seqVars, walVars, batchVars, commit, localVars>>

(* dequeue: an unapplied batch blocks the queue. *)
LoadApplied(p) ==
  /\ pc[p] = "check"
  /\ IF applied[t[p]]
     THEN UNCHANGED <<ptrs, t>> /\ Goto(p, "cas")
     ELSE Forget(p) /\ Goto(p, "wait")
  /\ UNCHANGED <<pos, mu, sem, queueVars, seqVars, walVars, batchVars, commit, seen>>

(* dequeue: own the slot if headTail did not move, else start over. *)
SwapTail(p) ==
  /\ pc[p] = "cas"
  /\ IF ptrs[p] = <<head, tail>>
     THEN tail' = tail + 1 /\ UNCHANGED <<ptrs, t>> /\ Goto(p, "clear")
     ELSE UNCHANGED tail /\ Forget(p) /\ Goto(p, "load")
  /\ UNCHANGED <<pos, mu, sem, head, slots, seqVars, walVars, batchVars, commit, seen>>

(* dequeue: release the slot to the producer. *)
ClearSlot(p) ==
  /\ pc[p] = "clear"
  /\ slots' = [slots EXCEPT ![Slot(ptrs[p][2])] = NoBatch]
  /\ ptrs' = [ptrs EXCEPT ![p] = <<0, 0>>]
  /\ Goto(p, "ratchet")
  /\ UNCHANGED <<pos, mu, sem, head, tail, seqVars, walVars, batchVars, commit, t, seen>>

(* publish: the first sequence number after the dequeued batch t. *)
NewSeqNum(p) == seqNum[t[p]] + count[t[p]]

LoadVisible(p) ==
  /\ pc[p] = "ratchet"
  /\ IF NewSeqNum(p) <= visibleSeqNum
     THEN UNCHANGED seen /\ Goto(p, "signal")
     ELSE seen' = [seen EXCEPT ![p] = visibleSeqNum] /\ Goto(p, "swap")
  /\ UNCHANGED <<pos, mu, sem, queueVars, seqVars, walVars, batchVars, commit, ptrs, t>>

(* Mutant: a failed compare-and-swap is not retried. *)
SwapVisibleOnce(p) ==
  /\ pc[p] = "swap"
  /\ visibleSeqNum' = IF visibleSeqNum = seen[p] THEN NewSeqNum(p) ELSE visibleSeqNum
  /\ Goto(p, "signal")
  /\ seen' = [seen EXCEPT ![p] = 0]
  /\ UNCHANGED <<pos, mu, sem, queueVars, logSeqNum, walVars, batchVars, commit, ptrs, t>>

SwapVisible(p) ==
  /\ pc[p] = "swap"
  /\ IF visibleSeqNum = seen[p]
     THEN visibleSeqNum' = NewSeqNum(p) /\ Goto(p, "signal")
     ELSE UNCHANGED visibleSeqNum /\ Goto(p, "ratchet")
  /\ seen' = [seen EXCEPT ![p] = 0]
  /\ UNCHANGED <<pos, mu, sem, queueVars, logSeqNum, walVars, batchVars, commit, ptrs, t>>

(* Mutant: publish stops after one batch. *)
SignalOne(p) ==
  /\ pc[p] = "signal"
  /\ commit' = [commit EXCEPT ![t[p]] = commit[t[p]] - 1]
  /\ Forget(p)
  /\ Goto(p, "wait")
  /\ UNCHANGED <<pos, mu, sem, queueVars, seqVars, walVars, batchVars, seen>>

(* t.commit.Done(), then try to dequeue another batch. *)
Signal(p) ==
  /\ pc[p] = "signal"
  /\ commit' = [commit EXCEPT ![t[p]] = commit[t[p]] - 1]
  /\ Forget(p)
  /\ Goto(p, "load")
  /\ UNCHANGED <<pos, mu, sem, queueVars, seqVars, walVars, batchVars, seen>>

(* Mutant: a batch left to others to publish is not waited for. *)
ReturnEarly(p) ==
  /\ pc[p] = "wait"
  /\ sem' = sem - 1
  /\ applied' = [applied EXCEPT ![p] = FALSE]
  /\ seqNum' = [seqNum EXCEPT ![p] = 0]
  /\ count' = [count EXCEPT ![p] = 0]
  /\ done' = [done EXCEPT ![p] = 0]
  /\ pos' = [pos EXCEPT ![p] = 0]
  /\ walPos' = [walPos EXCEPT ![p] = 0]
  /\ kind' = [kind EXCEPT ![p] = "Commit"]
  /\ syncWAL' = [syncWAL EXCEPT ![p] = FALSE]
  /\ Goto(p, "idle")
  /\ UNCHANGED <<mu, queueVars, seqVars, wal, synced, syncQ, commit, localVars>>

(* b.commit.Wait(), release the token, return, Batch.release(). *)
Return(p) ==
  /\ pc[p] = "wait"
  /\ commit[p] = 0
  /\ sem' = sem - 1
  /\ applied' = [applied EXCEPT ![p] = FALSE]
  /\ seqNum' = [seqNum EXCEPT ![p] = 0]
  /\ count' = [count EXCEPT ![p] = 0]
  /\ done' = [done EXCEPT ![p] = 0]
  /\ pos' = [pos EXCEPT ![p] = 0]
  /\ walPos' = [walPos EXCEPT ![p] = 0]
  /\ kind' = [kind EXCEPT ![p] = "Commit"]
  /\ syncWAL' = [syncWAL EXCEPT ![p] = FALSE]
  /\ Goto(p, "idle")
  /\ UNCHANGED <<mu, queueVars, seqVars, wal, synced, syncQ, commit, localVars>>

-----------------------------------------------------------------------------
(* The WAL's flush loop (LogWriter): make the file durable, signal a waiter
   whose record is covered. *)
SyncLog ==
  /\ synced < Len(wal)
  /\ synced' = Len(wal)
  /\ UNCHANGED <<pos, pc, mu, sem, queueVars, seqVars, wal, walPos, syncQ, batchVars, commit,
                 localVars>>

Durable(p) == walPos[p] <= synced

SyncDone(p) ==
  /\ p \in syncQ
  /\ Durable(p)
  /\ syncQ' = syncQ \ {p}
  /\ commit' = [commit EXCEPT ![p] = commit[p] - 1]
  /\ UNCHANGED <<pos, pc, mu, sem, queueVars, seqVars, wal, synced, walPos, batchVars, localVars>>

(* ratchetSeqNum is called by the replay tool's DB, which "is not safe for
   concurrent access": no commit is in flight. *)
RatchetSeqNum(next) ==
  /\ \A p \in Procs : pc[p] = "idle"
  /\ mu = NoBatch
  /\ logSeqNum < next
  /\ logSeqNum' = next
  /\ visibleSeqNum' = next
  /\ UNCHANGED <<pos, pc, mu, sem, queueVars, walVars, batchVars, commit, localVars>>

(* Every call has returned and no more are started. *)
Quiescent == \A p \in Procs : pc[p] = "idle"

Terminated ==
  /\ Quiescent
  /\ Started = MaxBatches
  /\ UNCHANGED vars

Step(p) ==
  \/ Lock(p) \/ EnqueueSlot(p) \/ EnqueueHead(p)
  \/ AssignCommit(p) \/ AssignAllocate(p) \/ Write(p) \/ AwaitVisible(p) \/ Prepare(p)
  \/ ApplyOp(p) \/ EndApply(p) \/ ApplyIngest(p) \/ MarkApplied(p)
  \/ LoadPtrs(p) \/ LoadSlot(p) \/ LoadApplied(p) \/ SwapTail(p) \/ ClearSlot(p)
  \/ LoadVisible(p) \/ SwapVisible(p) \/ Signal(p) \/ Return(p)

FlushLoop == SyncLog \/ \E p \in Procs : SyncDone(p)

Next ==
  \/ \E p \in Procs : BeginCommit(p) \/ BeginAllocate(p) \/ Step(p)
  \/ FlushLoop
  \/ \E next \in RatchetTargets : RatchetSeqNum(next)
  \/ Terminated

Spec == Init /\ [][Next]_vars

(* A goroutine that can run does, and so does the WAL's flush loop.  Starting
   a call is the application's choice. *)
Fairness == (\A p \in Procs : WF_vars(Step(p))) /\ WF_vars(FlushLoop)

FairSpec == Spec /\ Fairness

-----------------------------------------------------------------------------
(* A batch that has its sequence numbers and whose call has not returned. *)
Assigned(p) == pc[p] \notin {"idle", "lock", "enqSlot", "enqHead", "assign"}

EndSeqNum(p) == seqNum[p] + count[p]

(* Every variable keeps the type its Go declaration gives it, the WaitGroup
   never goes negative and the queue's indices never cross. *)
TypeOK ==
  /\ pc \in [Procs -> States]
  /\ mu \in Procs \union {NoBatch}
  /\ sem \in 0 .. SyncConcurrency - 1
  /\ head \in Nat /\ tail \in Nat
  /\ slots \in [0 .. SyncConcurrency - 1 -> Procs \union {NoBatch}]
  /\ logSeqNum \in Nat /\ visibleSeqNum \in Nat
  /\ wal \in Seq(Nat) /\ synced \in Nat
  /\ walPos \in [Procs -> Nat]
  /\ kind \in [Procs -> {"Commit", "AllocateSeqNum"}]
  /\ syncWAL \in [Procs -> BOOLEAN]
  /\ seqNum \in [Procs -> Nat] /\ count \in [Procs -> Nat]
  /\ applied \in [Procs -> BOOLEAN]
  /\ commit \in [Procs -> 0 .. 2]
  /\ syncQ \subseteq Procs
  /\ done \in [Procs -> Nat] /\ pos \in [Procs -> Nat]
  /\ ptrs \in [Procs -> Nat \X Nat]
  /\ t \in [Procs -> Procs \union {NoBatch}]
  /\ seen \in [Procs -> Nat]

(* A batch some of whose operations are not in the memtable yet is above the
   sequence number reads are performed at, whoever publishes: publish never
   passes a batch that another goroutine is still applying. *)
VisibleApplied ==
  \A p \in Procs : Assigned(p) /\ done[p] < count[p] => visibleSeqNum <= seqNum[p]

(* A batch is visible as a whole or not at all: visibleSeqNum never stops
   between the first and the last operation of a batch. *)
AtomicVisibility ==
  \A p \in Procs : Assigned(p) => ~(seqNum[p] < visibleSeqNum /\ visibleSeqNum < EndSeqNum(p))

(* "Upon successful return the batch's mutations will be visible for reading":
   the WaitGroup publish waits on is released only once visibleSeqNum has
   passed the batch, even when another goroutine published it. *)
ReadYourWrites ==
  \A p \in Procs : pc[p] = "wait" /\ commit[p] = 0 => EndSeqNum(p) <= visibleSeqNum

(* "Batches need to be written to the WAL in sequence number order." *)
WALInOrder == \A i, j \in DOMAIN wal : i <= j => wal[i] <= wal[j]

(* The first panic of commit.go is not reached: the semaphore keeps the queue
   from filling up although its slots are released late. *)
NeverFull == \A p \in Procs : pc[p] = "enqSlot" => ~QueueFull

(* The second panic of commit.go is not reached: a goroutine that won the
   dequeue holds an applied batch, one that cannot return, and so be recycled,
   before it is signalled. *)
DequeuedIsApplied == \A p \in Procs : pc[p] \in Publishing => applied[t[p]]

(* A commit with syncWAL returns only when its record is durable. *)
SyncedOnReturn ==
  \A p \in Procs : pc[p] = "wait" /\ commit[p] = 0 /\ syncWAL[p] => Durable(p)

(* "The check for memtable overlap can see any writes that were sequenced
   before the ingestion": while the prepare callback runs, every sequenced
   operation of every other batch is applied and no batch is being sequenced. *)
IngestSeesWrites ==
  \A p, q \in Procs : pc[p] = "prepare" /\ q # p =>
    /\ Assigned(q) => done[q] = count[q]
    /\ pc[q] \notin Locked

(* "The visible sequence number only ratchets up", with any number of
   goroutines publishing at once. *)
VisibleRatchets == [][visibleSeqNum' >= visibleSeqNum]_vars

(* Every call returns: an applied batch that found the queue blocked is
   published by the batch that blocked it, no wait is on a lost signal. *)
EveryCallReturns == \A p \in Procs : pc[p] # "idle" ~> pc[p] = "idle"

(* What the pipeline promises, CommitOrder: the calls in progress hold
   consecutive ranges of sequence numbers, and visibility moves over them. *)
Promise == INSTANCE CommitOrder WITH
  nextSeqNum <- logSeqNum,
  visible    <- visibleSeqNum,
  range      <- [p \in Procs |-> IF Assigned(p) THEN <<seqNum[p], EndSeqNum(p)>> ELSE <<>>],
  applying   <- {p \in Procs : pc[p] \in {"write", "spin", "prepare", "apply"}}

ImplementsCommitOrder == Promise!Spec

=============================================================================
