------------------------------ MODULE LogWriter ------------------------------
(***************************************************************************)
(* internal/record/log_writer.go: the writer of a WAL.  Two goroutines      *)
(* share it.  The committer (holding commitPipeline.mu) fills blocks and    *)
(* queues WaitGroups; the flush loop writes blocks, syncs the file and      *)
(* signals the WaitGroups.  A third party is the min-sync-interval timer.   *)
(*                                                                          *)
(* A record is a run of units of the log's stream, numbered from 1.  A      *)
(* block holds BlockSize of them.  The file is the sequence of units that   *)
(* reached it, so a lost, duplicated or reordered write shows.  The         *)
(* flusher's mutex is held by the flush loop in the steps of Holding; the   *)
(* committer's critical sections under it are single actions.               *)
(***************************************************************************)
EXTENDS Integers, Sequences, FiniteSets

CONSTANTS
  BlockSize,        \* units in a block
  MaxBlocks,        \* cap(free.blocks)
  SyncConcurrency,  \* slots of syncQueue
  RecordSizes,      \* sizes of records
  MaxUnits,         \* bound on the units written
  Intervals,        \* subset of BOOLEAN: may minSyncInterval() be positive
  MaxFailures       \* bound on the failing calls of the file

ASSUME BlockAssumption == BlockSize \in Nat \ {0} /\ MaxBlocks \in Nat \ {0}
ASSUME SyncAssumption == SyncConcurrency \in Nat \ {0} /\ Intervals \subseteq BOOLEAN
ASSUME RecordAssumption == RecordSizes \subseteq Nat \ {0}
ASSUME UnitsAssumption == MaxUnits \in Nat /\ MaxFailures \in Nat

VARIABLES
  \* the committer
  wpc,        \* where it is
  emitted,    \* units emitted so far: the log's size
  left,       \* units of the current record not emitted yet
  sync,       \* whether the current record has a WaitGroup
  werr,       \* LogWriter.err # nil
  closeErr,   \* Close returned an error
  \* shared
  block,      \* LogWriter.block: [buf: units, flushed: how many of them are]
  free,       \* len(free.blocks)
  allocated,  \* free.allocated
  pending,    \* flusher.pending
  syncQ,      \* syncQueue: for each waiter the end of its record
  blocked,    \* syncQueue.blocked
  closing,    \* flusher.close
  notified,   \* the flush loop's ticket in flusherCond was notified
  timer,      \* syncTimer is running
  firing,     \* its callback is between clearBlocked and Signal
  \* the flush loop
  fpc,        \* where it is
  ferr,       \* flusher.err # nil
  err,        \* flushPending's err # nil
  grabbed,    \* its copy of pending
  data,       \* the part of the current block it took
  take,       \* head - tail of syncQ as loaded
  synced,     \* flushPending synced for waiters
  signal,     \* end of the record whose WaitGroup is popped but not Done
  \* the file and the callers
  file,       \* units in the file, in file order
  durable,    \* length of the file's durable prefix
  acks,       \* waiters signalled, in order: [end, err]
  failures    \* failing calls so far

writerVars == <<wpc, emitted, left, sync, werr, closeErr>>
blockVars  == <<block, free, allocated, pending>>
condVars   == <<blocked, closing, notified, timer, firing>>
loopVars   == <<fpc, ferr, err, grabbed, data, take, synced, signal>>
fileVars   == <<file, durable, failures>>
vars == <<writerVars, blockVars, syncQ, condVars, loopVars, fileVars, acks>>

Holding == {"check", "register", "grabSync", "grabData", "popErr"}
Unlocked == fpc \notin Holding

EmptyBlock == [buf |-> <<>>, flushed |-> 0]

Init ==
  /\ wpc = "idle" /\ emitted = 0 /\ left = 0 /\ sync = FALSE /\ werr = FALSE /\ closeErr = FALSE
  /\ block = EmptyBlock /\ free = 0 /\ allocated = 1 /\ pending = <<>>
  /\ syncQ = <<>>
  /\ blocked = FALSE /\ closing = FALSE /\ notified = FALSE /\ timer = FALSE /\ firing = FALSE
  /\ fpc = "check" /\ ferr = FALSE /\ err = FALSE
  /\ grabbed = <<>> /\ data = <<>> /\ take = 0 /\ synced = FALSE /\ signal = 0
  /\ file = <<>> /\ durable = 0 /\ failures = 0
  /\ acks = <<>>

-----------------------------------------------------------------------------
(* flusherCond.Signal: a waiter that took its ticket will not block; without a
   waiter the signal is lost. *)
Signal == notified' = (notified \/ fpc \in {"unlock", "wait"})

(* syncQueue.empty and load: a blocked queue looks empty. *)
Waiters == IF blocked THEN 0 ELSE Len(syncQ)

(* Waiters not signalled yet; the pipeline's semaphore bounds them. *)
Outstanding == Len(syncQ) + (IF signal = 0 THEN 0 ELSE 1)

(* SyncRecord, up to the first fragment. *)
SyncRecord(n, withSync) ==
  /\ wpc = "idle"
  /\ ~werr
  /\ emitted + n < MaxUnits
  /\ withSync => Outstanding < SyncConcurrency
  /\ left' = n
  /\ sync' = withSync
  /\ wpc' = "emit"
  /\ UNCHANGED <<emitted, werr, closeErr, blockVars, syncQ, condVars, loopVars, fileVars, acks>>

(* Append n units to the current block: the data, then block.written. *)
Emit(n) ==
  /\ block' = [block EXCEPT !.buf = @ \o [i \in 1 .. n |-> emitted + i]]
  /\ emitted' = emitted + n

(* The end of SyncRecord: only a record with a WaitGroup is queued for sync. *)
EndRecord == wpc' = IF sync THEN "push" ELSE "idle"

EmitFragment ==
  LET room == BlockSize - Len(block.buf)
      n    == IF left <= room THEN left ELSE room
  IN /\ wpc = "emit"
     /\ Emit(n)
     /\ left' = left - n
     /\ IF n = room THEN wpc' = "alloc" ELSE EndRecord
     /\ UNCHANGED <<sync, werr, closeErr, free, allocated, pending, syncQ, condVars, loopVars,
                    fileVars, acks>>

(* queueBlock, under free.Mutex: take a free block, allocate one, or wait for
   the flush loop to free one. *)
AllocBlock ==
  /\ wpc = "alloc"
  /\ \/ free > 0 /\ free' = free - 1 /\ UNCHANGED allocated
     \/ free = 0 /\ allocated < MaxBlocks /\ allocated' = allocated + 1 /\ UNCHANGED free
  /\ wpc' = "queue"
  /\ UNCHANGED <<emitted, left, sync, werr, closeErr, block, pending, syncQ, condVars, loopVars,
                 fileVars, acks>>

(* queueBlock, under flusher.Mutex. *)
QueueBlock ==
  /\ wpc = "queue"
  /\ Unlocked
  /\ pending' = Append(pending, block)
  /\ block' = EmptyBlock
  /\ Signal
  /\ werr' = ferr
  /\ IF left > 0 THEN wpc' = "emit" ELSE EndRecord
  /\ UNCHANGED <<emitted, left, sync, closeErr, free, allocated, syncQ, blocked, closing, timer, firing,
                 loopVars, fileVars, acks>>

(* syncQueue.push; "pebble: queue is full" is the panic NeverFull excludes. *)
QueueFull == Len(syncQ) = SyncConcurrency

Push ==
  /\ wpc = "push"
  /\ ~QueueFull
  /\ syncQ' = Append(syncQ, emitted)
  /\ wpc' = "signal"
  /\ UNCHANGED <<emitted, left, sync, werr, closeErr, blockVars, condVars, loopVars, fileVars, acks>>

(* f.ready.Signal(), without the flusher's mutex. *)
SignalReady ==
  /\ wpc = "signal"
  /\ Signal
  /\ wpc' = "idle"
  /\ UNCHANGED <<emitted, left, sync, werr, closeErr, blockVars, syncQ, blocked, closing, timer, firing,
                 loopVars, fileVars, acks>>

(* Close: the EOF trailer always fits, a full block is queued at once. *)
Close ==
  /\ wpc = "idle"
  /\ Emit(1)
  /\ wpc' = "close"
  /\ UNCHANGED <<left, sync, werr, closeErr, free, allocated, pending, syncQ, condVars, loopVars,
                 fileVars, acks>>

(* Close, under flusher.Mutex. *)
CloseSignal ==
  /\ wpc = "close"
  /\ Unlocked
  /\ closing' = TRUE
  /\ Signal
  /\ wpc' = "join"
  /\ UNCHANGED <<emitted, left, sync, werr, closeErr, blockVars, syncQ, blocked, timer, firing, loopVars,
                 fileVars, acks>>

(* Close: wait for the flush loop to exit, sync what it flushed, close the
   file.  The sync may fail and so may the file's Close (cerr). *)
CloseSync(fails, cerr) ==
  /\ wpc = "join"
  /\ fpc = "exited"
  /\ fails => ~ferr
  /\ failures' = failures + Cardinality({x \in {1, 2} : <<fails, cerr>>[x]})
  /\ failures' <= MaxFailures
  /\ durable' = IF ferr \/ fails THEN durable ELSE Len(file)
  /\ closeErr' = (ferr \/ fails \/ cerr)
  /\ werr' = (werr \/ ~cerr)
  /\ wpc' = "closed"
  /\ UNCHANGED <<emitted, left, sync, blockVars, syncQ, condVars, loopVars, file, acks>>

-----------------------------------------------------------------------------
(* flushLoop, holding flusher.Mutex: look for work, else return or wait. *)
CheckWork ==
  LET work == pending # <<>> \/ Len(block.buf) > block.flushed \/ Waiters > 0 IN
  /\ fpc = "check"
  /\ \/ /\ work
        /\ fpc' = "grabSync"
        /\ UNCHANGED <<blocked, timer>>
     \/ /\ ~work /\ closing
        /\ blocked' = FALSE
        /\ IF syncQ # <<>> THEN fpc' = "grabSync" /\ UNCHANGED timer
                          ELSE fpc' = "exited" /\ timer' = FALSE
     \/ /\ ~work /\ ~closing
        /\ fpc' = "register"
        /\ UNCHANGED <<blocked, timer>>
  /\ UNCHANGED <<writerVars, blockVars, syncQ, closing, notified, firing, ferr, err, grabbed, data, take, synced, signal,
                 fileVars, acks>>

(* flusherCond.Wait: take a ticket of the condition variable. *)
Register ==
  /\ fpc = "register"
  /\ notified' = FALSE
  /\ fpc' = "unlock"
  /\ UNCHANGED <<writerVars, blockVars, syncQ, blocked, closing, timer, firing, ferr, err, grabbed,
                 data, take, synced, signal, fileVars, acks>>

(* Mutant: a plain condition variable. *)
UnlockOnly ==
  /\ fpc = "unlock"
  /\ UNCHANGED notified
  /\ fpc' = "wait"
  /\ UNCHANGED <<writerVars, blockVars, syncQ, blocked, closing, timer, firing, ferr, err, grabbed, data,
                 take, synced, signal, fileVars, acks>>

(* flusherCond.Unlock: the mutex is released; a waiter pushed meanwhile
   notifies the ticket just taken. *)
UnlockCheck ==
  /\ fpc = "unlock"
  /\ notified' = (notified \/ Waiters > 0)
  /\ fpc' = "wait"
  /\ UNCHANGED <<writerVars, blockVars, syncQ, blocked, closing, timer, firing, ferr, err, grabbed, data,
                 take, synced, signal, fileVars, acks>>

Wake ==
  /\ fpc = "wait"
  /\ notified
  /\ fpc' = "check"
  /\ UNCHANGED <<writerVars, blockVars, syncQ, condVars, ferr, err, grabbed, data, take, synced, signal,
                 fileVars, acks>>

(* Copy the pending blocks, then load the sync queue. *)
GrabSync ==
  /\ fpc = "grabSync"
  /\ grabbed' = pending
  /\ pending' = <<>>
  /\ take' = Waiters
  /\ fpc' = "grabData"
  /\ UNCHANGED <<writerVars, block, free, allocated, syncQ, condVars, ferr, err, data, synced, signal,
                 fileVars, acks>>

(* Mutant: after an error the block counts as unflushed. *)
GrabSkip ==
  /\ fpc = "grabData"
  /\ data' = SubSeq(block.buf, block.flushed + 1, Len(block.buf))
  /\ block' = [block EXCEPT !.flushed = IF ferr THEN @ ELSE Len(block.buf)]
  /\ fpc' = IF ferr THEN "popErr" ELSE "blocks"
  /\ UNCHANGED <<writerVars, free, allocated, pending, syncQ, condVars, ferr, err, grabbed, take,
                 synced, signal, fileVars, acks>>

(* Only then load block.written and take the unflushed part of the block. *)
GrabData ==
  /\ fpc = "grabData"
  /\ data' = SubSeq(block.buf, block.flushed + 1, Len(block.buf))
  /\ block' = [block EXCEPT !.flushed = Len(block.buf)]
  /\ fpc' = IF ferr THEN "popErr" ELSE "blocks"
  /\ UNCHANGED <<writerVars, free, allocated, pending, syncQ, condVars, ferr, err, grabbed, take,
                 synced, signal, fileVars, acks>>

(* The file's Write: appends all of buf, or fails after a prefix of it. *)
WriteFile(buf, fails) ==
  IF fails
  THEN /\ failures < MaxFailures
       /\ failures' = failures + 1
       /\ \E k \in 0 .. Len(buf) : file' = file \o SubSeq(buf, 1, k)
  ELSE file' = file \o buf /\ UNCHANGED failures

(* Mutant: the block is not given back. *)
FlushNoFree(fails) ==
  /\ fpc = "blocks"
  /\ grabbed # <<>>
  /\ LET b == Head(grabbed) IN WriteFile(SubSeq(b.buf, b.flushed + 1, BlockSize), fails)
  /\ grabbed' = IF fails THEN <<>> ELSE Tail(grabbed)
  /\ free' = free
  /\ err' = fails
  /\ fpc' = IF fails THEN "sync" ELSE "blocks"
  /\ UNCHANGED <<writerVars, block, allocated, pending, syncQ, condVars, ferr, data, take, synced, signal,
                 durable, acks>>

(* flushBlock: write the unflushed part of a full block, free the block. *)
FlushBlock(fails) ==
  /\ fpc = "blocks"
  /\ grabbed # <<>>
  /\ LET b == Head(grabbed) IN WriteFile(SubSeq(b.buf, b.flushed + 1, BlockSize), fails)
  /\ grabbed' = IF fails THEN <<>> ELSE Tail(grabbed)
  /\ free' = IF fails THEN free ELSE free + 1
  /\ err' = fails
  /\ fpc' = IF fails THEN "sync" ELSE "blocks"
  /\ UNCHANGED <<writerVars, block, allocated, pending, syncQ, condVars, ferr, data, take, synced, signal,
                 durable, acks>>

(* flushPending: write the part of the current block. *)
FlushData(fails) ==
  /\ fpc = "blocks"
  /\ grabbed = <<>>
  /\ fails => data # <<>>
  /\ WriteFile(data, fails)
  /\ err' = fails
  /\ fpc' = "sync"
  /\ UNCHANGED <<writerVars, blockVars, syncQ, condVars, ferr, grabbed, data, take, synced, signal,
                 durable, acks>>

(* Mutant: the waiters are loaded after the data. *)
SyncReload(fails) ==
  /\ fpc = "sync"
  /\ fails => take > 0 /\ ~err /\ failures < MaxFailures
  /\ durable' = IF take > 0 /\ ~err /\ ~fails THEN Len(file) ELSE durable
  /\ failures' = IF fails THEN failures + 1 ELSE failures
  /\ err' = (err \/ fails)
  /\ synced' = (take > 0)
  /\ data' = <<>>
  /\ take' = Waiters
  /\ fpc' = "pop"
  /\ UNCHANGED <<writerVars, blockVars, syncQ, condVars, ferr, grabbed, signal, file, acks>>

(* flushPending: sync the file if there are waiters and no error. *)
SyncFile(fails) ==
  /\ fpc = "sync"
  /\ fails => take > 0 /\ ~err /\ failures < MaxFailures
  /\ durable' = IF take > 0 /\ ~err /\ ~fails THEN Len(file) ELSE durable
  /\ failures' = IF fails THEN failures + 1 ELSE failures
  /\ err' = (err \/ fails)
  /\ synced' = (take > 0)
  /\ data' = <<>>
  /\ fpc' = "pop"
  /\ UNCHANGED <<writerVars, blockVars, syncQ, condVars, ferr, grabbed, take, signal, file, acks>>

(* pop, under the mutex when flusher.err is propagated and without it else. *)
Popping == fpc \in {"pop", "popErr"}

(* pop: release the slot and bump the tail ... *)
PopSlot ==
  /\ Popping
  /\ signal = 0
  /\ take > 0
  /\ signal' = Head(syncQ)
  /\ syncQ' = Tail(syncQ)
  /\ UNCHANGED <<writerVars, blockVars, condVars, fpc, ferr, err, grabbed, data, take, synced,
                 fileVars, acks>>

(* ... before wg.Done(). *)
Done ==
  /\ Popping
  /\ signal # 0
  /\ acks' = Append(acks, [end |-> signal, err |-> err \/ ferr])
  /\ signal' = 0
  /\ take' = take - 1
  /\ UNCHANGED <<writerVars, blockVars, syncQ, condVars, fpc, ferr, err, grabbed, data, synced,
                 fileVars>>

(* The end of an iteration.  After an error syncing is unblocked, so that the
   waiters learn of it; after a sync a positive minSyncInterval blocks it. *)
Propagated ==
  /\ fpc = "popErr"
  /\ take = 0 /\ signal = 0
  /\ grabbed' = <<>>
  /\ data' = <<>>
  /\ fpc' = "check"
  /\ UNCHANGED <<writerVars, blockVars, syncQ, condVars, ferr, err, take, synced, signal, fileVars, acks>>

Flushed(interval) ==
  /\ fpc = "pop"
  /\ take = 0 /\ signal = 0
  /\ ferr' = err
  /\ err' = FALSE
  /\ LET block_ == ~err /\ synced /\ interval IN
       /\ blocked' = (~err /\ (blocked \/ block_))
       /\ timer' = (timer \/ block_)
  /\ synced' = FALSE
  /\ fpc' = "check"
  /\ UNCHANGED <<writerVars, blockVars, syncQ, closing, notified, firing, grabbed, data, take,
                 signal, fileVars, acks>>

-----------------------------------------------------------------------------
(* The timer's callback: clearBlocked, then Signal. *)
TimerFires ==
  /\ timer
  /\ ~firing
  /\ blocked' = FALSE
  /\ timer' = FALSE
  /\ firing' = TRUE
  /\ UNCHANGED <<writerVars, blockVars, syncQ, closing, notified, loopVars, fileVars, acks>>

TimerSignals ==
  /\ firing
  /\ Signal
  /\ firing' = FALSE
  /\ UNCHANGED <<writerVars, blockVars, syncQ, blocked, closing, timer, loopVars, fileVars, acks>>

Timer == TimerFires \/ TimerSignals

(* The part of the committer that runs once it has been called. *)
Writer ==
  \/ EmitFragment \/ AllocBlock \/ QueueBlock \/ Push \/ SignalReady
  \/ CloseSignal \/ \E fails, cerr \in BOOLEAN : CloseSync(fails, cerr)

FlushLoop ==
  \/ CheckWork \/ Register \/ UnlockCheck \/ Wake \/ GrabSync \/ GrabData
  \/ \E fails \in BOOLEAN : FlushBlock(fails) \/ FlushData(fails) \/ SyncFile(fails)
  \/ PopSlot \/ Done \/ Propagated \/ \E interval \in Intervals : Flushed(interval)

Terminated == wpc = "closed" /\ fpc = "exited" /\ UNCHANGED vars

Next ==
  \/ \E n \in RecordSizes, withSync \in BOOLEAN : SyncRecord(n, withSync)
  \/ Close
  \/ Writer \/ FlushLoop \/ Timer
  \/ Terminated

Spec == Init /\ [][Next]_vars

(* Both goroutines run whenever they can, and a timer fires. *)
FairSpec == Spec /\ WF_vars(Writer) /\ WF_vars(FlushLoop) /\ WF_vars(Timer)

-----------------------------------------------------------------------------

(* The file is a prefix of the stream of units: full blocks written by
   flushBlock and parts of the current block written early interleave without
   a gap, a repetition or a swap, whatever the committer does meanwhile. *)
FileIsPrefix == \A i \in DOMAIN file : file[i] = i

(* "When a sync is requested, any previously queued flush work will be
   synced": a WaitGroup is signalled without an error only when the whole of
   its record is durable. *)
AckedDurable == \A i \in DOMAIN acks : ~acks[i].err => acks[i].end <= durable

(* Every waiter is signalled at most once and in the order of the records,
   across pushes that race with the flush loop's load and pop. *)
AcksInOrder ==
  LET waiters == [i \in DOMAIN acks |-> acks[i].end]
                   \o (IF signal = 0 THEN <<>> ELSE <<signal>>) \o syncQ
  IN \A i, j \in DOMAIN waiters : i < j => waiters[i] < waiters[j]

(* "If flusher has an error, we propagate it to waiters": once one waiter got
   an error no later one is told that its record is durable. *)
ErrorsStick == \A i, j \in DOMAIN acks : i < j /\ acks[i].err => acks[j].err

(* The panic "pebble: queue is full" is not reached with up to SyncConcurrency
   waiters: a slot is free before its WaitGroup is signalled. *)
NeverFull == wpc = "push" => ~QueueFull

(* Close returns without an error only when every unit, the EOF trailer
   included, is durable; however it returns, no waiter is left behind. *)
CloseDurable ==
  wpc = "closed" => /\ ~closeErr => durable = emitted
                    /\ syncQ = <<>> /\ signal = 0

(* What the log promises the pipeline and recovery, in any interleaving of the
   committer, the flush loop and the timer and with a failing write, sync or
   close: records are durable when they are acknowledged, in order, up to the
   first error, and when Close returns without one. *)
LogWriterSafe ==
  FileIsPrefix /\ AckedDurable /\ AcksInOrder /\ ErrorsStick /\ NeverFull /\ CloseDurable

(* No wakeup is missed: a queued waiter is signalled, although push and Signal
   do not hold the flusher's mutex and min-sync-interval hides the queue. *)
SyncsAcked ==
  \A e \in 1 .. MaxUnits :
    (\E i \in DOMAIN syncQ : syncQ[i] = e) ~> (\E i \in DOMAIN acks : acks[i].end = e)

(* Close terminates: the flush loop sees the flag and drains its work. *)
CloseReturns == wpc = "close" ~> wpc = "closed"

(* A committer that waits in queueBlock for a block gets one or the flush loop
   has failed: the loop returns blocks and signals without holding its mutex. *)
WriterServed == wpc = "alloc" ~> (wpc # "alloc" \/ ferr)

=============================================================================
