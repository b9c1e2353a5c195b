------------------------------- MODULE Levels --------------------------------
(***************************************************************************)
(* The shape of the LSM while writes, flushes, ingestions and concurrent   *)
(* compactions change it (db.go, ingest.go, compaction.go, table_stats.go).*)
(*                                                                         *)
(* The contents of a memtable or of a table are a set of entries: at most  *)
(* one for a key, with the sequence number it is stored under, id (the     *)
(* number it was written under, which a compaction may have zeroed in seq) *)
(* and del.  A range tombstone is a del entry at each key it covers.  What *)
(* a compaction makes of several versions under snapshots is module        *)
(* CompactionIter's; here there are no snapshots, and the newest version   *)
(* of a key stands for all.                                                *)
(*                                                                         *)
(* A step is what happens while DB.mu and the log lock are held: picking   *)
(* and installing are atomic, the run of a compaction in between is not.   *)
(***************************************************************************)
EXTENDS Picker

CONSTANTS
    LevelKeys,      \* the user keys, a range of numbers
    Shapes,         \* what a batch or an ingested table may write: <<set of keys, del>>
    InitContents,   \* for each level of the first version, the contents of its tables
    MaxOverlapBytes,
    MaxConcurrentCompactions,
    ReadRanges,     \* the read compactions that sampling may ask for
    ManualRanges,   \* the manual compactions clients may ask for
    LateIngest,     \* whether writes that are newer than an ingestion may be
                    \* flushed before the ingestion is applied
    MaxSeqNum, MaxJobs   \* bounds on the writes and on the jobs started

VARIABLES ver, base, running, hints, collected, mem, ingest, nextSeq, nextNum, jobs, written, failed
levelsVars == <<ver, base, running, hints, collected, mem, ingest, nextSeq, nextNum, jobs, written, failed>>

-----------------------------------------------------------------------------
(* Contents and files.                                                     *)

Entry(k, seq, del) == [k |-> k, seq |-> seq, id |-> seq, del |-> del]
KeysOf(C) == {e.k : e \in C}
Newest(C) == {e \in C : \A f \in C : f.k = e.k => f.id <= e.id}
At0(C, k) == CHOOSE e \in C : e.k = k
KindOf(e) == IF e.del THEN KindRangeDelete ELSE KindSet

MakeFile(num, C) ==
    LET lo == At0(C, Min(KeysOf(C)))
        hi == At0(C, Max(KeysOf(C)))
    IN  [num |-> num, content |-> C, size |-> Cardinality(C), compacting |-> FALSE, intraL0 |-> FALSE,
         smallest |-> MakeInternalKey(lo.k, lo.seq, KindOf(lo)),
         largest |-> IF hi.del THEN MakeRangeDeleteSentinelKey(hi.k + 1)
                     ELSE MakeInternalKey(hi.k, hi.seq, KindSet),
         smallestSeqNum |-> Min({e.seq : e \in C}), largestSeqNum |-> Max({e.seq : e \in C}),
         hasDeletions |-> \E e \in C : e.del]

\* The tables written from C when the output is split at cuts.
Pieces(C, cuts) ==
    LET part(k) == Cardinality({c \in cuts : c <= k})
    IN  {{e \in C : part(e.k) = p} : p \in {part(e.k) : e \in C}}
Outputs(C, cuts, num) ==
    LET seq == Sorted(Pieces(C, cuts), LAMBDA a, b : Min(KeysOf(a)) < Min(KeysOf(b)))
    IN  [i \in DOMAIN seq |-> MakeFile(num + i, seq[i])]

\* The tombstones of a table, abutting ones merged (foreachDefragmentedTombstone).
Defragmented(C) ==
    LET dels == {e.k : e \in {f \in C : f.del}}
    IN  {r \in LevelKeys \X LevelKeys :
            /\ r[1] <= r[2] /\ (r[1]..r[2]) \subseteq dels
            /\ r[1] - 1 \notin dels /\ r[2] + 1 \notin dels}
\* The fragments a compaction emits: one tombstone over a run of keys.
Fragments(C) ==
    {r \in LevelKeys \X LevelKeys :
        LET del(k, id) == \E e \in C : e.k = k /\ e.del /\ e.id = id
        IN  r[1] <= r[2] /\ \E e \in C : /\ \A k \in r[1]..r[2] : del(k, e.id)
                                         /\ ~del(r[1] - 1, e.id) /\ ~del(r[2] + 1, e.id)}

-----------------------------------------------------------------------------
(* DB state around the version.                                            *)

Unflushed == mem[1].logSeqNum
Env == [inProgress |-> running, unflushed |-> Unflushed, snapshot |-> SeqNumMax, flushing |-> FALSE]
\* inProgressL0Compactions of getInProgressCompactionInfoLocked.
InProgressL0(R) ==
    {[smallest |-> c.smallest, largest |-> c.largest, intra |-> c.outputLevel = 0] :
        c \in {d \in R : 0 \in d.levels}}

\* logAndApply: the new version, with the compactions that go on, and its picker.
InstallVersion(v, refused, R) ==
    IF refused THEN failed' = TRUE /\ UNCHANGED <<ver, base>>
    ELSE /\ ver' = [v EXCEPT !.l0 = InitCompactingFileInfo(@, InProgressL0(R))]
         /\ base' = InitBaseLevel(v, R)
         /\ UNCHANGED failed
Install(edit, R) == InstallVersion(Apply(ver, edit), ApplyError(ver, edit), R)

LevelsInit ==
    /\ \E c \in InitContents :
           LET num == [l \in Levels |-> SumOver(0..(l - 1), LAMBDA j : Len(c[j]))]
               v == MakeVersion([l \in Levels |-> [i \in DOMAIN c[l] |-> MakeFile(num[l] + i, c[l][i])]])
           IN  /\ ver = [v EXCEPT !.l0 = InitCompactingFileInfo(@, {})]
               /\ base = InitBaseLevel(v, {})
               /\ nextNum = SumOver(Levels, LAMBDA l : Len(c[l]))
               /\ written = UNION {UNION {c[l][i] : i \in DOMAIN c[l]} : l \in Levels}
    /\ nextSeq = Max({0} \cup {e.id : e \in written}) + 1
    /\ mem = <<[logSeqNum |-> nextSeq, content |-> {}]>>
    /\ running = {} /\ hints = {} /\ collected = {} /\ ingest = <<>>
    /\ jobs = 0 /\ failed = FALSE

-----------------------------------------------------------------------------
(* Writes and flushes.                                                     *)

Written(shape) == {Entry(k, nextSeq, shape[2]) : k \in shape[1]}
Record(C) == written' = written \cup C

Write(shape) ==
    LET n == Len(mem)
    IN  /\ nextSeq <= MaxSeqNum
        /\ mem' = [mem EXCEPT ![n].content = Newest(@ \cup Written(shape))]
        /\ Record(Written(shape))
        /\ nextSeq' = nextSeq + 1
        /\ UNCHANGED <<ver, base, running, hints, collected, ingest, nextNum, jobs, failed>>

\* makeRoomForWrite.
Rotated == Append(mem, [logSeqNum |-> nextSeq, content |-> {}])
Rotate ==
    /\ Last(mem).content # {}
    /\ mem' = Rotated
    /\ UNCHANGED <<ver, base, running, hints, collected, ingest, nextSeq, nextNum, jobs, written, failed>>

\* flush1: the n oldest memtables of the queue, cut at the split keys of L0.
FlushAllowed(n) == ingest # <<>> /\ ~LateIngest =>
    \A i \in 1..n : \A e \in mem[i].content : e.id < ingest[1].seq
Flush(n, cuts) ==
    LET out == Outputs(Newest(UNION {mem[i].content : i \in 1..n}), cuts, nextNum)
        edit == [deleted |-> {}, added |-> [i \in DOMAIN out |-> [level |-> 0, file |-> out[i]]]]
    IN  /\ n < Len(mem)
        /\ FlushAllowed(n)
        /\ Install(edit, running)
        /\ mem' = IF failed' THEN mem ELSE SubSeq(mem, n + 1, Len(mem))
        /\ nextNum' = nextNum + Len(out)
        /\ UNCHANGED <<running, hints, collected, ingest, nextSeq, jobs, written>>

-----------------------------------------------------------------------------
(* Ingestion.  ingest is the one in progress: the commit pipeline admits a *)
(* second one only once the first is published.                            *)

\* overlapWithIterator: something of C lies between the bounds of the table.
OverlapWithIterator(C, m) ==
    \E e \in C : /\ e.k >= m.smallest.key
                 /\ e.k < m.largest.key \/ (e.k = m.largest.key /\ ~IsExclusiveSentinel(m.largest))
ContentOf(S) == UNION {f.content : f \in S}
LevelContent(l) == ContentOf(FilesAt(ver.levels[l], DOMAIN ver.levels[l]))

(* Mutant: only the mutable memtable is looked at. *)
MutableOverlaps(i, m) == i = Len(mem) /\ OverlapWithIterator(mem[i].content, m)
IngestMemtableOverlaps(i, m) == OverlapWithIterator(mem[i].content, m)

\* The prepare step of Ingest: the newest overlapping memtable has to be flushed
\* first, which rotates it when it is the mutable one.
IngestPrepare(shape) ==
    LET m == MakeFile(0, Written(shape))
        over == {i \in DOMAIN mem : IngestMemtableOverlaps(i, m)}
        queue == IF Len(mem) \in over
                 THEN Append(mem, [logSeqNum |-> nextSeq + 1, content |-> {}]) ELSE mem
    IN  /\ ingest = <<>> /\ nextSeq <= MaxSeqNum
        /\ mem' = queue
        /\ ingest' = <<[seq |-> nextSeq, content |-> Written(shape),
                        wait |-> IF over = {} THEN -1 ELSE mem[Max(over)].logSeqNum]>>
        /\ nextSeq' = nextSeq + 1
        /\ UNCHANGED <<ver, base, running, hints, collected, nextNum, jobs, written, failed>>

\* ingestUpdateSeqNum.
IngestedFile == MakeFile(nextNum + 1, ingest[1].content)

\* The levels from the base level to the first whose data overlap the table;
\* of them, the lowest without overlapping bounds or a compaction writing there.
IngestTargetLevel(m) ==
    LET data(l) == OverlapWithIterator(LevelContent(l), m)
        free(l) == /\ Overlaps(ver, l, m.smallest.key, m.largest.key) = {}
                   /\ ~\E c \in running : /\ c.outputLevel = l
                                          /\ m.smallest.key <= c.largest.key
                                          /\ m.largest.key >= c.smallest.key
        reach == {l \in base..BottomLevel : \A j \in base..l : ~data(j)}
    IN  IF data(0) THEN 0 ELSE Max({0} \cup {l \in reach : free(l)})

IngestApply ==
    /\ ingest # <<>>
    /\ \A i \in DOMAIN mem : mem[i].logSeqNum > ingest[1].wait
    /\ Install([deleted |-> {}, added |-> <<[level |-> IngestTargetLevel(IngestedFile),
                                             file |-> IngestedFile]>>], running)
    /\ ingest' = <<>>
    /\ nextNum' = nextNum + 1
    /\ Record(ingest[1].content)
    /\ UNCHANGED <<running, hints, collected, mem, nextSeq, jobs>>

-----------------------------------------------------------------------------
(* Compactions in progress.                                                *)

NewCompaction(pc) ==
    [kind |-> CompactionKind(ver, pc, Grandparents(ver, pc.outputLevel + 1, pc.smallest, pc.largest),
                             MaxOverlapBytes),
     startLevel |-> pc.startLevel, outputLevel |-> pc.outputLevel,
     levels |-> {pc.startLevel, pc.outputLevel},
     inputs |-> {<<pc.startLevel, f.num>> : f \in StartFiles(ver, pc)}
                \cup {<<pc.outputLevel, f.num>> : f \in OutputFiles(ver, pc)},
     smallest |-> pc.smallest, largest |-> pc.largest,
     inuse |-> InuseKeyRanges(ver, pc.outputLevel, pc.smallest, pc.largest)]

\* addInProgressCompaction; a file that is already being compacted is fatal.
InputFiles(c) == {f \in UNION {FilesAt(ver.levels[l], DOMAIN ver.levels[l]) : l \in Levels} :
                     \E l \in Levels : <<l, f.num>> \in c.inputs}
AddInProgressCompaction(c) ==
    LET intra == c.startLevel = 0 /\ c.outputLevel = 0
        v == MarkFiles(ver, {x[2] : x \in c.inputs}, TRUE, intra)
        l0Inputs == {i \in DOMAIN ver.levels[0] : <<0, ver.levels[0][i].num>> \in c.inputs}
    IN  /\ running' = running \cup {c}
        /\ ver' = IF c.startLevel # 0 THEN v
                  ELSE [v EXCEPT !.l0 = UpdateStateForStartedCompaction(@, l0Inputs, ~intra)]
        /\ failed' = (failed \/ \E f \in InputFiles(c) : f.compacting)
        /\ jobs' = jobs + 1
        /\ UNCHANGED <<base, collected, mem, ingest, nextSeq, nextNum, written>>

MayStart == Cardinality(running) < MaxConcurrentCompactions /\ jobs < MaxJobs

StartCompaction ==
    /\ MayStart
    /\ \E pc \in PickAuto(ver, Env, base, ReadRanges) : AddInProgressCompaction(NewCompaction(pc))
    /\ UNCHANGED hints
StartManual(r) ==
    /\ MayStart
    /\ \E pc \in PickManual(ver, Env, base, r.level, r.start, r.end) :
           AddInProgressCompaction(NewCompaction(pc))
    /\ UNCHANGED hints

\* elideRangeTombstone; start and end are the bounds of a tombstone.
ElideRange(c, start, end) == \A r \in c.inuse : r[2] < start \/ end < r[1]
AllowZeroSeqNum(c) == ElideRange(c, c.smallest.key, c.largest.key)

\* What the main loop of runCompaction writes.
Compacted(c) ==
    LET C == Newest(ContentOf(InputFiles(c)))
        elided == UNION {r[1]..r[2] : r \in {s \in Fragments(C) : ElideRange(c, s[1], s[2] + 1)}}
        kept == {e \in C : ~(e.del /\ e.k \in elided)}
    IN  IF AllowZeroSeqNum(c) THEN {IF e.del THEN e ELSE [e EXCEPT !.seq = 0] : e \in kept} ELSE kept

\* The edit of runCompaction.
EditOf(c, cuts) ==
    LET out == CASE c.kind = "deleteOnly" -> <<>>
                 [] c.kind = "move" -> SetToSeq(InputFiles(c))
                 [] OTHER -> Outputs(Compacted(c), cuts, nextNum)
    IN  [deleted |-> c.inputs, added |-> [i \in DOMAIN out |-> [level |-> c.outputLevel, file |-> out[i]]]]

(* Mutant: hints outlive a compaction that zeroes sequence numbers. *)
KeepHints(c) == hints
\* maybeUpdateDeleteCompactionHints.
SurvivingHints(c) ==
    IF c.kind \in {"deleteOnly", "move"} \/ ~AllowZeroSeqNum(c) THEN hints
    ELSE {h \in hints : \/ h.end < c.smallest.key \/ h.start > c.largest.key
                        \/ \A f \in InputFiles(c) : f.largestSeqNum < h.tombstoneSmallestSeqNum}

\* removeInProgressCompaction, on the version v.
Cleared(v, c) ==
    LET w == MarkFiles(v, {x[2] : x \in c.inputs}, FALSE, FALSE)
    IN  [w EXCEPT !.l0 = InitCompactingFileInfo(@, InProgressL0(running \ {c}))]

\* compact1, after runCompaction: install, drop hints, unmark the inputs.
FinishCompaction(c, cuts) ==
    LET edit == EditOf(c, cuts)
        v == Apply(ver, edit)
    IN  /\ c \in running
        /\ running' = running \ {c}
        /\ hints' = SurvivingHints(c)
        /\ IF ApplyError(ver, edit) THEN failed' = TRUE /\ UNCHANGED <<ver, base>>
           ELSE /\ ver' = Cleared(v, c)
                /\ base' = InitBaseLevel(v, running \ {c})
                /\ UNCHANGED failed
        /\ nextNum' = nextNum + Len(edit.added)
        /\ UNCHANGED <<collected, mem, ingest, nextSeq, jobs, written>>
\* The run or its version edit failed: the inputs stay.
FailCompaction(c) ==
    /\ c \in running
    /\ running' = running \ {c}
    /\ hints' = SurvivingHints(c)
    /\ ver' = Cleared(ver, c)
    /\ UNCHANGED <<base, collected, mem, ingest, nextSeq, nextNum, jobs, written, failed>>

-----------------------------------------------------------------------------
(* Hints for delete-only compactions.  collected holds what the table      *)
(* statistics job computed from its read state and did not publish yet.    *)

\* estimateSizeBeneath: the smallest sequence number of the tables inside the
\* tombstone.
HintsOf(l, f) ==
    LET inside(r) == {g \in UNION {FilesAt(ver.levels[j], Overlaps(ver, j, r[1], r[2] + 1)) :
                                      j \in (l + 1)..BottomLevel} :
                         r[1] <= g.smallest.key /\ g.largest.key <= r[2] + 1}
        seqs(r) == {e.seq : e \in {x \in f.content : x.del /\ x.k \in r[1]..r[2]}}
    IN  {[start |-> r[1], end |-> r[2] + 1, tombstoneLevel |-> l, tombstoneFile |-> f.num,
          tombstoneLargestSeqNum |-> Max(seqs(r)), tombstoneSmallestSeqNum |-> Min(seqs(r)),
          fileSmallestSeqNum |-> Min({g.smallestSeqNum : g \in inside(r)})] :
             r \in {s \in Defragmented(f.content) : inside(s) # {}}}

\* loadTableStats for a file of the read state.
CollectTableStats(l, i) ==
    LET f == ver.levels[l][i]
    IN  /\ collected = {} /\ l < BottomLevel /\ jobs < MaxJobs
        /\ HintsOf(l, f) # {}
        /\ \A h \in hints : h.tombstoneFile # f.num
        /\ collected' = HintsOf(l, f)
        /\ jobs' = jobs + 1
        /\ UNCHANGED <<ver, base, running, hints, mem, ingest, nextSeq, nextNum, written, failed>>
\* The end of collectTableStats, under DB.mu.
PublishHints ==
    /\ collected # {}
    /\ hints' = hints \cup {h \in collected : ContainsFile(ver, h.tombstoneLevel, h.tombstoneFile)}
    /\ collected' = {}
    /\ UNCHANGED <<ver, base, running, mem, ingest, nextSeq, nextNum, jobs, written, failed>>

CanDelete(h, f) ==
    /\ f.largestSeqNum < h.tombstoneSmallestSeqNum
    /\ f.smallestSeqNum >= h.fileSmallestSeqNum
    /\ h.start <= f.smallest.key /\ f.largest.key < h.end
\* checkDeleteCompactionHints; without snapshots every hint can be resolved.
DeletableFiles ==
    {x \in UNION {{<<l, i>> : i \in DOMAIN ver.levels[l]} : l \in Levels} :
        LET f == ver.levels[x[1]][x[2]]
        IN  ~f.compacting /\ \E h \in hints : x[1] > h.tombstoneLevel /\ CanDelete(h, f)}
StartDeleteOnly ==
    LET S == DeletableFiles
        files == {ver.levels[x[1]][x[2]] : x \in S}
        c == [kind |-> "deleteOnly", startLevel |-> -1, outputLevel |-> -1,
              levels |-> {x[1] : x \in S},
              inputs |-> {<<x[1], ver.levels[x[1]][x[2]].num>> : x \in S},
              smallest |-> SmallestKey(files), largest |-> LargestKey(files), inuse |-> {}]
    IN  /\ MayStart /\ hints # {}
        /\ hints' = {}
        /\ IF S # {} THEN AddInProgressCompaction(c)
           ELSE UNCHANGED <<ver, base, running, collected, mem, ingest, nextSeq, nextNum, jobs, written, failed>>

-----------------------------------------------------------------------------
LevelsNext ==
    \/ \E shape \in Shapes : Write(shape) \/ IngestPrepare(shape)
    \/ Rotate
    \/ \E n \in 1..(Len(mem) - 1), cuts \in SUBSET {FlushSplitKeys(ver.l0)[i] : i \in DOMAIN FlushSplitKeys(ver.l0)} :
           Flush(n, cuts)
    \/ IngestApply
    \/ StartCompaction
    \/ \E r \in ManualRanges : StartManual(r)
    \/ StartDeleteOnly
    \/ \E c \in running : FailCompaction(c)
    \/ \E c \in running : \E cuts \in SUBSET {k \in LevelKeys : k > Min(LevelKeys)} : FinishCompaction(c, cuts)
    \/ \E l \in Levels : \E i \in DOMAIN ver.levels[l] : CollectTableStats(l, i)
    \/ PublishHints
LevelsSpec == LevelsInit /\ [][LevelsNext]_levelsVars

-----------------------------------------------------------------------------
\* Everything that can hold a key, in the order a read looks at it: the
\* memtables, the sublevels of L0 and the levels below.
Sources ==
    LET m == [i \in DOMAIN mem |-> mem[Len(mem) + 1 - i].content]
        n == Len(ver.l0.levels)
        s == [i \in 1..n |-> ContentOf({ver.levels[0][ver.l0.levels[n + 1 - i][j]] :
                                           j \in DOMAIN ver.l0.levels[n + 1 - i]})]
    IN  m \o s \o [l \in 1..BottomLevel |-> LevelContent(l)]

\* Entries from this sequence number on are not visible to readers yet.
VisibleSeqNum == IF ingest = <<>> THEN nextSeq ELSE ingest[1].seq

\* The sequence number invariant: a version of a key lies above every older
\* version of it, in every interleaving of flushes, ingestions and compactions.
SeqNumInvariant ==
    \A k \in LevelKeys :
        LET held == SelectSeq(Sources, LAMBDA C : k \in KeysOf(C))
        IN  \A i, j \in DOMAIN held : i < j => At0(held[i], k).seq > At0(held[j], k).seq

\* A read finds the newest write of every key: tombstones that compactions
\* elided, sequence numbers they zeroed and tables that hints let them drop
\* never bring back or lose a value.
ReadsNewest ==
    \A k \in LevelKeys :
        LET seen == {e \in written : e.k = k /\ e.id < VisibleSeqNum}
            held == {i \in DOMAIN Sources : \E e \in Sources[i] : e.k = k /\ e.id < VisibleSeqNum}
            found == At0(Sources[Min(held)], k)
            newest == CHOOSE e \in seen : \A f \in seen : f.id <= e.id
        IN  IF seen = {} \/ newest.del THEN held = {} \/ found.del
            ELSE held # {} /\ found.id = newest.id

\* Concurrent compactions do not get into each other's way: no shared inputs,
\* inputs that are still where they were, outputs to one level that stay apart,
\* and no version edit that a check refuses.
CompactionsDisjoint ==
    /\ ~failed
    /\ CheckOrdering(ver)
    /\ \A c \in running : \A x \in c.inputs :
           \E i \in DOMAIN ver.levels[x[1]] : ver.levels[x[1]][i].num = x[2] /\ ver.levels[x[1]][i].compacting
    /\ \A c, d \in running :
           c # d => /\ c.inputs \cap d.inputs = {}
                    /\ c.outputLevel = d.outputLevel /\ c.outputLevel > 0
                           /\ c.kind # "elisionOnly" /\ d.kind # "elisionOnly" =>
                           Less(c.largest, d.smallest) \/ Less(d.largest, c.smallest)

\* The levels between L0 and the base level that the picker works with are
\* empty, and no compaction is on its way to one: a compaction out of L0 and an
\* ingestion never jump over data.
BaseLevelIsTop ==
    \A l \in 1..(base - 1) : ver.levels[l] = <<>> /\ \A c \in running : c.outputLevel # l
=============================================================================
