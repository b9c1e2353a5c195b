-------------------------------- MODULE Lsm ---------------------------------
(***************************************************************************)
(* A store that is written, flushed and compacted while snapshots are      *)
(* open, with the entries themselves: what every reader can see must be    *)
(* what was written, wherever the versions of a key are by now.            *)
(*                                                                         *)
(* A behaviour commits the batches of one script in order.  A batch is a   *)
(* sequence of parts, each a sequence of records; large tells whether it   *)
(* becomes a flushable batch.  One compaction runs at a time, in two       *)
(* steps: what it writes is determined by its inputs and by the snapshots  *)
(* that were open when it started.  Concurrent compactions are module      *)
(* Levels.                                                                 *)
(*                                                                         *)
(* The algorithms are parameters: modules Batch, UserIter and Compaction   *)
(* define them.                                                            *)
(***************************************************************************)
EXTENDS Picker, StoreView

CONSTANTS
    Scripts,               \* the sequences of batches
    MaxSnapshots,          \* how many snapshots are open at a time
    MaxCompactions,        \* a bound on the compactions of a behaviour
    Manual,                \* the manual compactions clients may ask for
    Committed(_, _, _),    \* the queue of memtables after a batch is committed at a
                           \* sequence number, and the next sequence number
    Rotated(_, _),         \* the queue with a new mutable memtable
    FlushOf(_, _, _),      \* what a flush of memtables writes into a version
    CompactionOf(_, _, _), \* what a compaction of a version writes under snapshots
    Scan(_, _, _),         \* the keys and values an iterator returns, forwards and backwards
    Got(_, _, _, _)        \* what Get of a key returns

VARIABLES version, memQueue, snapshots, script, done, seqNum, job, started, nextFileNum, writes, broken
lsmVars == <<version, memQueue, snapshots, script, done, seqNum, job, started, nextFileNum, writes, broken>>

-----------------------------------------------------------------------------
NoJob == [running |-> FALSE]
NoFiles == [l \in Levels |-> <<>>]
BaseLevel == InitBaseLevel(version, {})

LsmInit ==
    /\ version = MakeVersion(NoFiles)
    /\ memQueue = Rotated(<<>>, 1)
    /\ snapshots = <<>>
    /\ script \in Scripts
    /\ done = 0
    /\ seqNum = 1
    /\ job = NoJob /\ started = 0
    /\ nextFileNum = 1
    /\ writes = {}
    /\ broken = FALSE

\* The operations of a batch; its records get consecutive sequence numbers,
\* except LogData.
Operations(batch, seq) ==
    LET recs == SelectSeq(FlattenSeq(batch.parts), LAMBDA r : r.kind # KindLogData)
    IN  {[kind |-> recs[i].kind, key |-> recs[i].key, val |-> recs[i].val, seq |-> seq + i - 1] :
             i \in DOMAIN recs}

CommitBatch(batch, result) ==
    /\ memQueue' = result.queue
    /\ seqNum' = result.seqNum
    /\ broken' = (broken \/ result.err)
    /\ writes' = writes \cup Operations(batch, seqNum)
    /\ done' = done + 1
    /\ UNCHANGED <<version, snapshots, script, job, started, nextFileNum>>
Commit == done < Len(script) /\ CommitBatch(script[done + 1], Committed(memQueue, script[done + 1], seqNum))

\* NewSnapshot and Snapshot.Close.
NewSnapshot ==
    /\ Len(snapshots) < MaxSnapshots /\ (snapshots # <<>> => Last(snapshots) < seqNum)
    /\ snapshots' = Append(snapshots, seqNum)
    /\ UNCHANGED <<version, memQueue, script, done, seqNum, job, started, nextFileNum, writes, broken>>
CloseSnapshot(i) ==
    /\ snapshots' = RemoveAt(snapshots, i)
    /\ UNCHANGED <<version, memQueue, script, done, seqNum, job, started, nextFileNum, writes, broken>>

\* DB.Flush, or a memtable that is full.
Rotate ==
    /\ Last(memQueue).entries # <<>> \/ Last(memQueue).tombstones # <<>>
    /\ memQueue' = Rotated(memQueue, seqNum)
    /\ UNCHANGED <<version, snapshots, script, done, seqNum, job, started, nextFileNum, writes, broken>>

\* logAndApply of the outputs of a job.
Numbered(files) == [i \in DOMAIN files |-> IF files[i].num # 0 THEN files[i]
                                           ELSE [files[i] EXCEPT !.num = nextFileNum + i - 1]]
EditFor(deleted, level, files) ==
    [deleted |-> deleted, added |-> [i \in DOMAIN files |-> [level |-> level, file |-> files[i]]]]
WithNoCompactions(v) == [v EXCEPT !.l0 = InitCompactingFileInfo(@, {})]
InstallEdit(edit, err) ==
    /\ nextFileNum' = nextFileNum + Len(edit.added)
    /\ IF err \/ ApplyError(version, edit) THEN broken' = TRUE /\ UNCHANGED version
       ELSE version' = WithNoCompactions(Apply(version, edit)) /\ UNCHANGED broken

\* flush1 of every memtable but the mutable one.
InstallFlush(result) ==
    /\ InstallEdit(EditFor({}, 0, Numbered(result.files)), result.err)
    /\ memQueue' = <<Last(memQueue)>>
    /\ UNCHANGED <<snapshots, script, done, seqNum, job, started, writes>>
FlushMemtables ==
    /\ Len(memQueue) > 1 /\ ~broken
    /\ InstallFlush(FlushOf(version, BaseLevel, <<Front(memQueue), snapshots>>))

\* maybeScheduleCompaction and runCompaction.
CompactionEnv ==
    [inProgress |-> {}, unflushed |-> memQueue[1].logSeqNum, flushing |-> FALSE,
     snapshot |-> IF snapshots = <<>> THEN SeqNumMax ELSE Head(snapshots)]
Picked == PickAuto(version, CompactionEnv, BaseLevel, {})
          \cup UNION {PickManual(version, CompactionEnv, BaseLevel, r.level, r.start, r.end) : r \in Manual}
InputsOf(pc) == {<<pc.startLevel, f.num>> : f \in StartFiles(version, pc)}
                \cup {<<pc.outputLevel, f.num>> : f \in OutputFiles(version, pc)}
StartCompaction(pc) ==
    /\ job = NoJob /\ started < MaxCompactions /\ ~broken
    /\ job' = [running |-> TRUE, inputs |-> InputsOf(pc), level |-> pc.outputLevel,
               result |-> CompactionOf(version, pc, snapshots)]
    /\ started' = started + 1
    /\ UNCHANGED <<version, memQueue, snapshots, script, done, seqNum, nextFileNum, writes, broken>>
FinishCompaction ==
    /\ job # NoJob
    /\ InstallEdit(EditFor(job.inputs, job.level, Numbered(job.result.files)), job.result.err)
    /\ job' = NoJob
    /\ UNCHANGED <<memQueue, snapshots, script, done, seqNum, started, writes>>

LsmNext ==
    \/ Commit \/ NewSnapshot \/ Rotate \/ FlushMemtables \/ FinishCompaction
    \/ \E pc \in Picked : StartCompaction(pc)
    \/ \E i \in DOMAIN snapshots : CloseSnapshot(i)
LsmSpec == LsmInit /\ [][LsmNext]_lsmVars

-----------------------------------------------------------------------------
\* The tables an iterator goes through: the sublevels of L0 from the newest,
\* then the levels.
ReadLevels ==
    LET n == Len(version.l0.levels)
    IN  [i \in 1..n |-> [j \in DOMAIN version.l0.levels[n + 1 - i] |->
                            version.levels[0][version.l0.levels[n + 1 - i][j]]]]
        \o [l \in 1..BottomLevel |-> version.levels[l]]
ReadKeys == {w.key : w \in writes}
Ascending(view) == LET keys == Sorted(DOMAIN view, <)
                   IN  [i \in DOMAIN keys |-> <<keys[i], view[keys[i]]>>]
ReadsAre(levels, s, view, found) ==
    /\ found[1] = Ascending(view) /\ found[2] = Reverse(Ascending(view))
    /\ \A k \in ReadKeys : LET g == Got(memQueue, levels, s, k)
                           IN  ~g.err /\ (g.found <=> k \in DOMAIN view) /\ (g.found => g.value = view[k])

\* Every reader sees exactly the writes below its sequence number: at every
\* open snapshot and at the newest state, forwards, backwards and key by key.
\* Flushes and compactions drop, merge, zero and elide versions only where no
\* reader can tell.  (A running compaction changes nothing that is read.)
ReadsMatchWrites ==
    ~broken /\ job = NoJob => \A s \in ToSet(snapshots) \cup {seqNum} :
                   ReadsAre(ReadLevels, s, ViewOf([writes |-> writes, seqNum |-> s]),
                            Scan(memQueue, ReadLevels, s))

\* No flush and no compaction fails: the tables it cuts its output into are in
\* order and apart, stay within the bounds of the inputs, and fit into the
\* version, and the fragmenter is used in order.
CompactionsSucceed == ~broken /\ (job # NoJob => ~job.result.err) /\ CheckOrdering(version)
=============================================================================
