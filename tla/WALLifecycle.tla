---------------------------- MODULE WALLifecycle ----------------------------
(***************************************************************************)
(* The life of a write-ahead log: db.go (commitWrite, commitApply,          *)
(* makeRoomForWrite, AsyncFlush, Close), compaction.go (maybeScheduleFlush, *)
(* flush1, doDeleteObsoleteFiles), log_recycler.go, the manifest part of    *)
(* version_set.go, and open.go (Open, replayWAL).                           *)
(*                                                                          *)
(* A batch is its sequence number (every batch has one operation).  The     *)
(* committer, holding commitPipeline.mu, is the state rot; appliers are the *)
(* batches in refs; the flush goroutine is flush.  A step is what happens   *)
(* between two releases of DB.mu.  A crash may come between any two steps.  *)
(* It keeps every durable batch of a log, any prefix of the others, and     *)
(* may leave the tail of an unclosed log invalid.  The log writer promises  *)
(* what LogWriter shows: an acknowledged sync covers the log up to it.      *)
(***************************************************************************)
EXTENDS Integers, Sequences, FiniteSets, FiniteSetsExt, SequencesExt

CONSTANTS
  MemTableSize,        \* Options.MemTableSize
  InitialMemTableSize, \* initialMemTableSize
  StopWrites,          \* Options.MemTableStopWritesThreshold
  L0CompactionThreshold, L0StopWrites, \* Options.L0CompactionThreshold, L0StopWritesThreshold
  RecycleLimit,        \* logRecycler.limit
  BatchSizes,          \* sizes of large batches
  MaxSeqNum,           \* bound on the sequence numbers
  MaxLogNum,           \* bound on the log numbers
  MaxCrashes,          \* bound on the crashes and closes
  MaxFlushErrors       \* bound on the failures of runCompaction

ASSUME SizeAssumption ==
  /\ MemTableSize \in Nat \ {0} /\ InitialMemTableSize \in 1 .. MemTableSize
  /\ StopWrites \in Nat \ {0} /\ BatchSizes \subseteq Nat \ {0}
\* Options.Validate: otherwise a write stall would persist.
ASSUME L0Assumption ==
  /\ L0CompactionThreshold \in Nat \ {0} /\ L0StopWrites \in Nat
  /\ L0StopWrites >= L0CompactionThreshold
ASSUME BoundAssumption ==
  /\ RecycleLimit \in Nat /\ MaxSeqNum \in Nat /\ MaxLogNum \in Nat \ {0}
  /\ MaxCrashes \in Nat /\ MaxFlushErrors \in Nat

VARIABLES
  \* the disk
  names,     \* log files in the WAL directory
  linked,    \* the log files the directory's last sync made durable
  log,       \* log[l]: the batches in log l
  durable,   \* durable[l]: how many of them are synced
  closed,    \* logs that end in a durable EOF trailer
  torn,      \* logs whose tail reads as an invalid record
  manifest,  \* [min, next, last, tables]: the synced version edits
  strict,    \* the OPTIONS file says strict_wal_tail
  \* DB
  status,    \* how far Open or Close is
  logSeqNum, \* versions.logSeqNum
  nextFile,  \* versions.nextFileNum
  minLog,    \* versions.minUnflushedLogNum
  queue,     \* mem.queue; the last entry is mem.mutable
  nextSize,  \* mem.nextSize
  logQueue,  \* log.queue; its last log is the one written
  recycler,  \* logRecycler: [logNums, maxLogNum, minRecycle]
  rot,       \* commitWrite or AsyncFlush in makeRoomForWrite
  flush,     \* the flush goroutine
  replayed,  \* the batches of the tables Open's version edit adds
  \* the callers
  history,   \* batches committed, in order
  waiting,   \* batches whose commit waits for a sync
  acked,     \* batches whose sync commit was acknowledged
  crashes, flushErrors,
  l0         \* read amplification of L0 in the current version, counted up to L0StopWrites

diskVars == <<names, linked, log, durable, closed, torn, manifest, strict>>
memVars  == <<logSeqNum, nextFile, minLog, queue, nextSize, logQueue, recycler>>
vars == <<diskVars, status, memVars, rot, flush, replayed, history, waiting, acked, crashes, flushErrors, l0>>

LogNums == 1 .. MaxLogNum

\* queue entries.  base is the memtable's logSeqNum, refs the batches prepared and not applied.
Entry(kind, logNum, base, size, seqNums) ==
  [kind |-> kind, logNum |-> logNum, base |-> base, size |-> size,
   seqNums |-> seqNums, refs |-> {}, forced |-> FALSE]

NoBatch == [seqNum |-> 0, size |-> 0, sync |-> FALSE]
Idle    == [pc |-> "idle", batch |-> NoBatch, new |-> 0, old |-> 0]
NoFlush == [pc |-> "idle", n |-> 0, min |-> 0, next |-> 0, last |-> 0, delete |-> <<>>]

\* The state before the first Open of a new database, whose manifest is the one versionSet.create writes.
Init ==
  /\ names = {} /\ linked = {} /\ closed = {} /\ torn = {}
  /\ log = [l \in LogNums |-> <<>>] /\ durable = [l \in LogNums |-> 0]
  /\ manifest = [min |-> 0, next |-> 1, last |-> 0, tables |-> {}]
  /\ strict = FALSE
  /\ status = "down"
  /\ logSeqNum = 1 /\ nextFile = 1 /\ minLog = 0
  /\ queue = <<>> /\ nextSize = InitialMemTableSize /\ logQueue = <<>>
  /\ recycler = [logNums |-> <<>>, maxLogNum |-> 0, minRecycle |-> 0]
  /\ rot = Idle /\ flush = NoFlush /\ replayed = {}
  /\ history = <<>> /\ waiting = {} /\ acked = {} /\ crashes = 0 /\ flushErrors = 0 /\ l0 = 0

\* The log the LogWriter writes.
Current == Last(logQueue)

----------------------------------------------------------------------------
\* Scheduling of flushes.

\* A memtable is ready when its writers have applied; a large batch always is.
ReadyForFlush(e) == e.refs = {}

\* The number of entries before the mutable memtable that are ready, from the oldest on.
ReadyPrefix(q) ==
  Max({n \in 0 .. Len(q) - 1 : \A i \in 1 .. n : ReadyForFlush(q[i])})

TotalSize(q) == FoldLeft(LAMBDA sum, e : sum + e.size, 0, q)

\* A forced entry counts as a full memtable.
PassedFlushThreshold(q) ==
  LET n == ReadyPrefix(q)
      flushSize == FoldLeft(LAMBDA sum, e : sum + (IF e.forced THEN MemTableSize ELSE e.size),
                            0, SubSeq(q, 1, n))
  IN n > 0 /\ flushSize >= MemTableSize \div 2

\* maybeScheduleFlush for the queue q, with the flush goroutine in state f.
MaybeScheduleFlush(q, f) ==
  IF status = "up" /\ f.pc = "idle" /\ Len(q) > 1 /\ PassedFlushThreshold(q)
  THEN [NoFlush EXCEPT !.pc = "start"]
  ELSE f

----------------------------------------------------------------------------
\* The committer.

\* d.mu.log.SyncRecord.
Append1(seqNum, l) == log' = [log EXCEPT ![l] = Append(@, seqNum)]

\* commitPipeline.prepare assigns the sequence number; a large batch goes to the log at once.
BeginWrite(size, sync) ==
  LET b == [seqNum |-> logSeqNum, size |-> size, sync |-> sync]
  IN /\ status = "up" /\ rot.pc = "idle"
     /\ logSeqNum <= MaxSeqNum
     /\ size > 0 => nextFile <= MaxLogNum
     /\ logSeqNum' = logSeqNum + 1
     /\ rot' = [rot EXCEPT !.pc = "room", !.batch = b]
     /\ IF size > 0
        THEN /\ Append1(b.seqNum, Current)
             /\ history' = Append(history, b.seqNum)
             /\ waiting' = IF sync THEN waiting \union {b.seqNum} ELSE waiting
        ELSE UNCHANGED <<log, history, waiting>>
     /\ UNCHANGED <<names, linked, durable, closed, torn, manifest, strict, status, nextFile, minLog,
                    queue, nextSize, logQueue, recycler, flush, replayed, acked, crashes, flushErrors, l0>>

\* AsyncFlush, and the timer of maybeScheduleDelayedFlush when its memtable is still the mutable one.
BeginFlush ==
  /\ status = "up" /\ rot.pc = "idle"
  /\ nextFile <= MaxLogNum
  /\ rot' = [rot EXCEPT !.pc = "room"]
  /\ UNCHANGED <<diskVars, status, memVars, flush, replayed, history, waiting, acked, crashes, flushErrors, l0>>

\* The timer of maybeScheduleDelayedFlush for a memtable that was rotated since.
DelayedFlush(i) ==
  LET q == [queue EXCEPT ![i].forced = TRUE]
  IN /\ status = "up" /\ rot.pc = "idle"
     /\ queue[i].kind = "memtable" /\ ~queue[i].forced
     /\ queue' = q
     /\ flush' = MaybeScheduleFlush(q, flush)
     /\ UNCHANGED <<diskVars, status, logSeqNum, nextFile, minLog, nextSize, logQueue, recycler, rot,
                    replayed, history, waiting, acked, crashes, flushErrors, l0>>

Small == rot.batch.seqNum > 0 /\ rot.batch.size = 0

\* memTable.prepare succeeds: commitWrite references the memtable and writes the record.
Prepare ==
  LET s == rot.batch.seqNum
  IN /\ rot.pc = "room" /\ Small
     /\ queue' = [queue EXCEPT ![Len(queue)].seqNums = @ \union {s}, ![Len(queue)].refs = @ \union {s}]
     /\ Append1(s, Current)
     /\ history' = Append(history, s)
     /\ waiting' = IF rot.batch.sync THEN waiting \union {s} ELSE waiting
     /\ rot' = Idle
     /\ UNCHANGED <<names, linked, durable, closed, torn, manifest, strict, status, logSeqNum, nextFile,
                    minLog, nextSize, logQueue, recycler, flush, replayed, acked, crashes, flushErrors, l0>>

\* The memtable is full or the rotation forced, and there is room in the queue and in L0: take a log
\* number.  Until then the writer waits on compact.cond.
StartRotation ==
  /\ rot.pc = "room"
  /\ TotalSize(queue) < StopWrites * MemTableSize
  /\ l0 < L0StopWrites
  /\ nextFile <= MaxLogNum
  /\ nextFile' = nextFile + 1
  /\ rot' = [rot EXCEPT !.pc = "close", !.new = nextFile]
  /\ UNCHANGED <<diskVars, status, logSeqNum, minLog, queue, nextSize, logQueue, recycler, flush, replayed,
                 history, waiting, acked, crashes, flushErrors, l0>>

\* The batches among the first n of log l that wait for a sync are acknowledged.
Acknowledge(l, n) ==
  LET done == waiting \intersect ToSet(SubSeq(log[l], 1, n))
  IN acked' = acked \union done /\ waiting' = waiting \ done

\* A mutated SealLog: the previous log is left open, to be synced by nobody.
SealNothing == UNCHANGED <<durable, closed, acked, waiting>>

\* LogWriter.Close of the current log: everything and the EOF trailer are synced.
SealLog ==
  /\ durable' = [durable EXCEPT ![Current] = Len(log[Current])]
  /\ closed' = closed \union {Current}
  /\ Acknowledge(Current, Len(log[Current]))

CloseLog ==
  /\ rot.pc = "close"
  /\ SealLog
  /\ rot' = [rot EXCEPT !.pc = "create"]
  /\ UNCHANGED <<names, linked, log, torn, manifest, strict, status, memVars, flush, replayed, history,
                 crashes, flushErrors, l0>>

\* logRecycler.peek.
Peek == IF recycler.logNums = <<>> THEN 0 ELSE Head(recycler.logNums)

\* The new file is the oldest recyclable one under its new name, or a new one.
CreateLog ==
  /\ rot.pc = "create"
  /\ names' = (names \ {Peek}) \union {rot.new}
  /\ log' = [l \in LogNums |-> IF l = Peek THEN <<>> ELSE log[l]]
  /\ durable' = [l \in LogNums |-> IF l = Peek THEN 0 ELSE durable[l]]
  /\ rot' = [rot EXCEPT !.pc = "dirsync", !.old = Peek]
  /\ UNCHANGED <<linked, closed, torn, manifest, strict, status, memVars, flush, replayed, history,
                 waiting, acked, crashes, flushErrors, l0>>

\* walDir.Sync, and logRecycler.pop of the file CreateLog reused.
SyncDir ==
  /\ rot.pc = "dirsync"
  /\ linked' = names
  /\ rot.old > 0 => Peek = rot.old
  /\ recycler' = IF rot.old > 0 THEN [recycler EXCEPT !.logNums = Tail(@)] ELSE recycler
  /\ rot' = [rot EXCEPT !.pc = "install"]
  /\ UNCHANGED <<names, log, durable, closed, torn, manifest, strict, status, logSeqNum, nextFile, minLog,
                 queue, nextSize, logQueue, flush, replayed, history, waiting, acked, crashes, flushErrors, l0>>

\* newMemTable: sizes double up to MemTableSize.
Ramp(size) == Min({2 * size, MemTableSize})

\* The queue after the rotation: a large batch takes over the log of the memtable before it, and a new
\* memtable of the given size follows.
Rotated(size) ==
  LET b     == rot.batch
      n     == Len(queue)
      large == b.size > 0
      imm   == [queue[n] EXCEPT !.forced = @ \/ b.seqNum = 0, !.logNum = IF large THEN 0 ELSE @]
      base  == IF b.seqNum = 0 THEN logSeqNum ELSE IF large THEN b.seqNum + 1 ELSE b.seqNum
      tail  == <<Entry("memtable", rot.new, base, size, {})>>
  IN [queue EXCEPT ![n] = imm]
       \o (IF large THEN <<Entry("batch", queue[n].logNum, b.seqNum, b.size, {b.seqNum})>> ELSE <<>>)
       \o tail

\* The new log and memtable are installed.  A flush of a memtable less than half used resets nextSize.
Install ==
  /\ rot.pc = "install"
  /\ logQueue' = Append(logQueue, rot.new)
  /\ \E size \in IF rot.batch.seqNum = 0 THEN {nextSize, Last(queue).size} ELSE {nextSize} :
       /\ queue' = Rotated(size)
       /\ nextSize' = Ramp(size)
       /\ flush' = IF Last(queue).refs = {} THEN MaybeScheduleFlush(Rotated(size), flush) ELSE flush
  /\ rot' = IF Small THEN [rot EXCEPT !.pc = "room", !.new = 0, !.old = 0] ELSE Idle
  /\ UNCHANGED <<diskVars, status, logSeqNum, nextFile, minLog, recycler, replayed, history, waiting,
                 acked, crashes, flushErrors, l0>>

\* commitApply of a batch in entry i: the last writer of a rotated memtable schedules a flush.
Apply(i) ==
  \E s \in queue[i].refs :
    LET q == [queue EXCEPT ![i].refs = @ \ {s}]
    IN /\ queue' = q
       /\ flush' = IF i < Len(q) /\ q[i].refs = {} THEN MaybeScheduleFlush(q, flush) ELSE flush
       /\ UNCHANGED <<diskVars, status, logSeqNum, nextFile, minLog, nextSize, logQueue, recycler, rot,
                      replayed, history, waiting, acked, crashes, flushErrors, l0>>

\* The LogWriter's flush loop syncs the current log and acknowledges waiters.
SyncLog ==
  /\ status = "up"
  /\ Current \notin closed
  /\ durable[Current] < Len(log[Current])
  /\ durable' = [durable EXCEPT ![Current] = Len(log[Current])]
  /\ Acknowledge(Current, Len(log[Current]))
  /\ UNCHANGED <<names, linked, log, closed, torn, manifest, strict, status, memVars, rot, flush, replayed,
                 history, crashes, flushErrors, l0>>

----------------------------------------------------------------------------
\* The flush goroutine.

\* A mutated MinUnflushedLogNum: the log of the mutable memtable.
MutableLogNum(q, n) == Last(q).logNum

\* The log number of the oldest entry a flush of the first n leaves.
MinUnflushedLogNum(q, n) == q[n + 1].logNum

\* flush1's requirement: what it flushes is logged before the new minimum.
FlushInvariant(q) ==
  LET n == ReadyPrefix(q)
  IN \A i \in 1 .. n : q[i].logNum < MinUnflushedLogNum(q, n)

\* A mutated EndFlush, which leaves that to the next writer.
EndFlushOnly(q) == flush' = NoFlush

\* The end of flush: another one may be scheduled at once.
EndFlush(q) == flush' = MaybeScheduleFlush(q, NoFlush)

\* flush1 picks what to flush, or has nothing to do, or returns errFlushInvariant.
StartFlush ==
  LET n == ReadyPrefix(queue)
  IN /\ flush.pc = "start"
     /\ IF n > 0 /\ FlushInvariant(queue)
        THEN flush' = [flush EXCEPT !.pc = "run", !.n = n, !.min = MinUnflushedLogNum(queue, n)]
        ELSE EndFlush(queue)
     /\ UNCHANGED <<diskVars, status, memVars, rot, replayed, history, waiting, acked, crashes, flushErrors, l0>>

\* runCompaction writes and syncs the tables.
WriteTables ==
  /\ flush.pc = "run"
  /\ flush' = [flush EXCEPT !.pc = "log"]
  /\ UNCHANGED <<diskVars, status, memVars, rot, replayed, history, waiting, acked, crashes, flushErrors, l0>>

\* runCompaction fails.
FailTables ==
  /\ flush.pc = "run"
  /\ flushErrors < MaxFlushErrors
  /\ flushErrors' = flushErrors + 1
  /\ EndFlush(queue)
  /\ UNCHANGED <<diskVars, status, memVars, rot, replayed, history, waiting, acked, crashes, l0>>

\* logAndApply reads the counters before it releases DB.mu.
PrepareEdit ==
  /\ flush.pc = "log"
  /\ flush' = [flush EXCEPT !.pc = "write", !.next = nextFile, !.last = logSeqNum - 1]
  /\ UNCHANGED <<diskVars, status, memVars, rot, replayed, history, waiting, acked, crashes, flushErrors, l0>>

\* The version edit is in the synced MANIFEST.
LogEdit ==
  /\ flush.pc = "write"
  /\ manifest' = [min |-> flush.min, next |-> flush.next, last |-> flush.last,
                  tables |-> manifest.tables \union UNION {queue[i].seqNums : i \in 1 .. flush.n}]
  /\ flush' = [flush EXCEPT !.pc = "install"]
  /\ UNCHANGED <<names, linked, log, durable, closed, torn, strict, status, memVars, rot, replayed, history,
                 waiting, acked, crashes, flushErrors, l0>>

\* A mutated Obsolete, which takes the log of the minimum too.
ObsoleteThrough(logs, min) ==
  LET kept == {i \in DOMAIN logs : logs[i] > min}
  IN IF kept = {} THEN <<>> ELSE SubSeq(logs, 1, Min(kept) - 1)

\* The prefix of log.queue before the minimum, if a log at or above the minimum follows it.
Obsolete(logs, min) ==
  LET kept == {i \in DOMAIN logs : logs[i] >= min}
  IN IF kept = {} THEN <<>> ELSE SubSeq(logs, 1, Min(kept) - 1)

\* The new version is installed, the flushed entries leave, doDeleteObsoleteFiles takes the obsolete logs.
\* The tables of a flush do not overlap: they add one to the read amplification, or nothing.
InstallFlush ==
  LET gone == Obsolete(logQueue, flush.min)
  IN /\ flush.pc = "install"
     /\ minLog' = flush.min
     /\ queue' = SubSeq(queue, flush.n + 1, Len(queue))
     /\ logQueue' = SubSeq(logQueue, Len(gone) + 1, Len(logQueue))
     /\ flush' = [flush EXCEPT !.pc = "delete", !.delete = gone]
     /\ l0' \in {l0} \union {n \in {l0 + 1} : n <= L0StopWrites /\ \E i \in 1 .. flush.n : queue[i].seqNums # {}}
     /\ UNCHANGED <<diskVars, status, logSeqNum, nextFile, nextSize, recycler, rot, replayed, history,
                    waiting, acked, crashes, flushErrors>>

\* logRecycler.add(l) returns TRUE: the file is kept.
Recyclable(l) ==
  /\ l >= recycler.minRecycle
  /\ l <= recycler.maxLogNum \/ Len(recycler.logNums) < RecycleLimit

\* logRecycler.add.
Add(l) ==
  IF l < recycler.minRecycle \/ l <= recycler.maxLogNum THEN recycler
  ELSE [recycler EXCEPT !.maxLogNum = l,
                        !.logNums = IF Len(@) < RecycleLimit THEN Append(@, l) ELSE @]

\* One obsolete log is recycled or deleted.
DeleteLog ==
  LET l == Head(flush.delete)
  IN /\ flush.pc = "delete" /\ flush.delete # <<>>
     /\ recycler' = Add(l)
     /\ names' = IF Recyclable(l) THEN names ELSE names \ {l}
     /\ flush' = [flush EXCEPT !.delete = Tail(@)]
     /\ UNCHANGED <<linked, log, durable, closed, torn, manifest, strict, status, logSeqNum, nextFile, minLog,
                    queue, nextSize, logQueue, rot, replayed, history, waiting, acked, crashes, flushErrors, l0>>

FinishFlush ==
  /\ flush.pc = "delete" /\ flush.delete = <<>>
  /\ EndFlush(queue)
  /\ UNCHANGED <<diskVars, status, memVars, rot, replayed, history, waiting, acked, crashes, flushErrors, l0>>

\* A compaction out of L0, which calculateL0Score asks for, has lowered the read amplification.
CompactL0 ==
  /\ status = "up"
  /\ 2 * l0 >= L0CompactionThreshold
  /\ l0' \in 0 .. l0 - 1
  /\ UNCHANGED <<diskVars, status, memVars, rot, flush, replayed, history, waiting, acked, crashes, flushErrors>>

----------------------------------------------------------------------------
\* Crash, Close and Open.

\* What a stopped process forgets.
Forget ==
  /\ status' = "down"
  /\ logSeqNum' = 1 /\ nextFile' = 1 /\ minLog' = 0
  /\ queue' = <<>> /\ nextSize' = InitialMemTableSize /\ logQueue' = <<>>
  /\ recycler' = [logNums |-> <<>>, maxLogNum |-> 0, minRecycle |-> 0]
  /\ rot' = Idle /\ flush' = NoFlush /\ replayed' = {}

\* The logs whose tail may be invalid after a crash: something was written and no trailer synced.
Unclean == {l \in names \ closed : log[l] # <<>>}

\* The process dies.  The files keep what was written, up to a torn tail.
ProcessCrash ==
  /\ status \notin {"down", "failed"} /\ crashes < MaxCrashes /\ nextFile <= MaxLogNum
  /\ Forget
  /\ \E t \in SUBSET Unclean : torn' = t
  /\ waiting' = {} /\ crashes' = crashes + 1
  /\ UNCHANGED <<names, linked, log, durable, closed, manifest, strict, history, acked, flushErrors, l0>>

\* The machine dies.  An unclosed log keeps its durable batches and any prefix of the others; changes of
\* the directory since its last sync may or may not have happened.
MachineCrash ==
  /\ status \notin {"down", "failed"} /\ crashes < MaxCrashes /\ nextFile <= MaxLogNum
  /\ Forget
  /\ \E kept \in SUBSET (names \union linked) :
       names \intersect linked \subseteq kept /\ names' = kept /\ linked' = kept
  /\ \E len \in [LogNums -> 0 .. MaxSeqNum] :
       /\ \A l \in LogNums : len[l] \in durable[l] .. Len(log[l])
       /\ log' = [l \in LogNums |-> SubSeq(log[l], 1, len[l])]
       /\ durable' = len
  /\ \E t \in SUBSET Unclean : torn' = t
  /\ waiting' = {} /\ crashes' = crashes + 1
  /\ UNCHANGED <<closed, manifest, strict, history, acked, flushErrors, l0>>

\* Close: no flush starts from here on.
BeginClose ==
  /\ status = "up" /\ rot.pc = "idle" /\ crashes < MaxCrashes /\ nextFile <= MaxLogNum
  /\ \A i \in DOMAIN queue : queue[i].refs = {}
  /\ status' = "closing" /\ crashes' = crashes + 1
  /\ UNCHANGED <<diskVars, memVars, rot, flush, replayed, history, waiting, acked, flushErrors, l0>>

\* Close waits for the flush and closes the log.
FinishClose ==
  /\ status = "closing" /\ flush.pc = "idle"
  /\ SealLog
  /\ Forget
  /\ UNCHANGED <<names, linked, log, torn, manifest, strict, history, crashes, flushErrors, l0>>

\* The logs Open replays, in the order of their numbers.
ReplayLogs == {l \in names : l >= manifest.min}

\* replayWAL refuses an invalid tail of any log but the last, if strictWALTail.
Refused ==
  strict /\ \E l \in ReplayLogs \intersect torn : \E k \in ReplayLogs : l < k

Records == UNION {ToSet(log[l]) : l \in ReplayLogs}

\* A mutated RecoveredSeqNum: the manifest trusted alone.
ManifestSeqNum == manifest.last + 1

\* The sequence number after the manifest's and the logs' last.
RecoveredSeqNum == Max({manifest.last + 1} \union {r + 1 : r \in Records})

\* Above every file number the manifest or the directory names.
RecoveredFileNum == Max({manifest.next, manifest.min + 1} \union {l + 1 : l \in names})

\* Open loads the manifest, lists the directory and replays the logs into tables.
Replay ==
  /\ status = "down"
  /\ IF Refused
     THEN status' = "failed" /\ UNCHANGED <<memVars, replayed>>
     ELSE /\ status' = "replayed"
          /\ replayed' = Records
          /\ logSeqNum' = RecoveredSeqNum
          /\ nextFile' = RecoveredFileNum
          /\ minLog' = manifest.min
          /\ recycler' = [recycler EXCEPT !.minRecycle = Max({0} \union {l + 1 : l \in names})]
          /\ queue' = <<Entry("memtable", 0, manifest.last + 1, InitialMemTableSize, {})>>
          /\ \E size \in {Ramp(InitialMemTableSize)}
               \union (IF Records = {} THEN {} ELSE {Ramp(Ramp(InitialMemTableSize))}) : nextSize' = size
          /\ UNCHANGED logQueue
  /\ UNCHANGED <<diskVars, rot, flush, history, waiting, acked, crashes, flushErrors, l0>>

\* Open creates the new log, whose number the memtable gets.
OpenCreate ==
  /\ status = "replayed"
  /\ status' = "created"
  /\ nextFile' = nextFile + 1
  /\ names' = names \union {nextFile}
  /\ logQueue' = <<nextFile>>
  /\ queue' = [queue EXCEPT ![1].logNum = nextFile]
  /\ UNCHANGED <<linked, log, durable, closed, torn, manifest, strict, logSeqNum, minLog, nextSize, recycler,
                 rot, flush, replayed, history, waiting, acked, crashes, flushErrors, l0>>

OpenSyncDir ==
  /\ status = "created"
  /\ status' = "linked"
  /\ linked' = names
  /\ UNCHANGED <<names, log, durable, closed, torn, manifest, strict, memVars, rot, flush, replayed, history,
                 waiting, acked, crashes, flushErrors, l0>>

\* The commits up to the last one that a recovery of the batches S has found.
Surviving(S) == SubSeq(history, 1, Max({0} \union {i \in DOMAIN history : history[i] \in S}))

\* Open's version edit: the replayed tables, and the new log as the oldest unflushed one.
OpenLogEdit ==
  LET tables == manifest.tables \union replayed
  IN /\ status = "linked"
     /\ status' = "logged"
     /\ manifest' = [min |-> Current, next |-> nextFile, last |-> logSeqNum - 1, tables |-> tables]
     /\ history' = Surviving(tables)
     /\ UNCHANGED <<names, linked, log, durable, closed, torn, strict, memVars, rot, flush, replayed, waiting,
                    acked, crashes, flushErrors, l0>>

\* The version is installed, OPTIONS is written and the logs before the new one are deleted.  How many
\* tables of L0 overlap is not known if there are any.
OpenFinish ==
  /\ status = "logged"
  /\ status' = "up"
  /\ minLog' = Current
  /\ strict' = TRUE
  /\ names' = {l \in names : l >= Current}
  /\ replayed' = {}
  /\ l0' \in IF manifest.tables = {} THEN {0} ELSE 0 .. L0StopWrites
  /\ UNCHANGED <<linked, log, durable, closed, torn, manifest, logSeqNum, nextFile, queue, nextSize, logQueue,
                 recycler, rot, flush, history, waiting, acked, crashes, flushErrors>>

----------------------------------------------------------------------------
Committer ==
  \/ Prepare \/ StartRotation \/ CloseLog \/ CreateLog \/ SyncDir \/ Install

Applier == \E i \in DOMAIN queue : Apply(i)

Flusher ==
  \/ StartFlush \/ WriteTables \/ PrepareEdit \/ LogEdit \/ InstallFlush \/ DeleteLog \/ FinishFlush

Open == Replay \/ OpenCreate \/ OpenSyncDir \/ OpenLogEdit \/ OpenFinish

\* Nothing to do until the next call, or never again after a failed Open.
Terminated ==
  /\ \/ status = "failed"
     \/ status = "up" /\ rot.pc = "idle" /\ flush.pc = "idle"
  /\ UNCHANGED vars

Next ==
  \/ \E size \in {0} \union BatchSizes, sync \in BOOLEAN : BeginWrite(size, sync)
  \/ BeginFlush
  \/ \E i \in 1 .. Len(queue) - 1 : DelayedFlush(i)
  \/ Committer
  \/ Applier
  \/ SyncLog
  \/ Flusher
  \/ FailTables
  \/ CompactL0
  \/ ProcessCrash \/ MachineCrash
  \/ BeginClose \/ FinishClose
  \/ Open
  \/ Terminated

Spec == Init /\ [][Next]_vars

\* The goroutines run, and I/O errors of flushes do not go on forever.  While the picker asks for a
\* compaction of L0 one is run and succeeds (compact schedules the next one).
FairSpec ==
  /\ Spec
  /\ WF_vars(Committer) /\ WF_vars(Applier) /\ WF_vars(SyncLog) /\ WF_vars(Flusher) /\ WF_vars(Open)
  /\ WF_vars(CompactL0)

----------------------------------------------------------------------------
\* The batches on disk that any crash leaves to be recovered.
Durable ==
  manifest.tables \union
  UNION {ToSet(SubSeq(log[l], 1, durable[l])) : l \in {k \in names \intersect linked : k >= manifest.min}}

\* A commit acknowledged as synced survives whatever happens next: it is in a table of the MANIFEST or in
\* the durable part of a linked log that Open will replay (commitWrite, makeRoomForWrite, flush1,
\* doDeleteObsoleteFiles, logRecycler and Open together).
AckedSurvive == acked \subseteq Durable

\* Open recovers a prefix of the commit order: a crash loses only the last commits, never one in the
\* middle, although they are spread over tables and several logs (makeRoomForWrite closes the old log
\* before it links the new one).
RecoveredIsPrefix ==
  status = "replayed" =>
    \E k \in 0 .. Len(history) : manifest.tables \union replayed = ToSet(SubSeq(history, 1, k))

\* A log with a batch that is in no table is neither deleted nor recycled (doDeleteObsoleteFiles keeps
\* what is at or above minUnflushedLogNum), and the minimum a flush logs, read before the lock was
\* released, neither goes back nor was never handed out, which logAndApply would panic on.
UnflushedInWAL ==
  /\ flush.pc = "log" => minLog <= flush.min /\ flush.min < nextFile
  /\ LET kept == names \ (ToSet(recycler.logNums) \union ToSet(flush.delete))
     IN \A i \in DOMAIN queue :
          queue[i].seqNums \subseteq
            manifest.tables \union UNION {ToSet(log[l]) : l \in {k \in kept : k >= manifest.min}}

\* No sequence number is given twice, also not after a recovery that lost commits (replayWAL's maxSeqNum).
SeqNumsFresh ==
  /\ \A i, j \in DOMAIN history : i < j => history[i] < history[j]
  /\ status \in {"up", "closing"} => \A i \in DOMAIN history : history[i] < logSeqNum

\* Memtables and large batches are queued in sequence number order and hold nothing older than their
\* logSeqNum: memTable.apply never reports corruption, and a newer entry hides an older one.
QueueOrdered ==
  /\ \A i \in DOMAIN queue : \A s \in queue[i].seqNums : queue[i].base <= s
  /\ \A i, j \in DOMAIN queue : i < j =>
       \A s \in queue[i].seqNums, t \in queue[j].seqNums : s < t

\* A new log never gets the name of a file that exists or may come back after a crash (getNextFileNum, and
\* Open's scan of the directory because the manifest's NextFileNum is stale).
LogNumsFresh ==
  /\ rot.pc \in {"close", "create"} => rot.new \notin names \union linked
  /\ status = "replayed" => nextFile \notin names \union linked

\* Numbers order what they name, across rotations, crashes and the recovery from them.
NumbersFresh == SeqNumsFresh /\ QueueOrdered /\ LogNumsFresh

\* A requested flush is done eventually (AsyncFlush's channel is closed): no wakeup of the flush goroutine
\* is lost among writers, rotations and failing flushes.
FlushesComplete == []<>(status # "up" \/ \A i \in DOMAIN queue : ~queue[i].forced)

\* A commit or flush in makeRoomForWrite gets through it: both of its write stalls end, the one for full
\* memtables because flushes go on, the one for L0 because compactions do (Options.Validate makes the
\* threshold that stops writes at least the one that asks for compactions).
CommitsProceed == rot.pc # "idle" ~> rot.pc = "idle"

=============================================================================
