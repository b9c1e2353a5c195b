----------------------------- MODULE Compaction -----------------------------
(***************************************************************************)
(* Running a flush or a compaction (compaction.go): from the entries of    *)
(* its inputs to the tables it adds to the output level.  The iterator     *)
(* over the inputs is module CompactionIter's; this module opens it, and   *)
(* decides where one output table ends and the next begins.                *)
(*                                                                         *)
(* c is a compaction: the positions of its inputs in the version it was    *)
(* picked from, or the memtables it flushes, and the limits of its output. *)
(* The size of a table is the number of its entries.                       *)
(***************************************************************************)
EXTENDS CompactionIter, Picker

CONSTANTS TargetFileSize,   \* of every level
          OverlapFactor,    \* 10 in maxGrandparentOverlapBytes
          TableOptions      \* of NewWriter

MaxGrandparentOverlapBytes == OverlapFactor * TargetFileSize
Infinite == 10000

-----------------------------------------------------------------------------
(* newCompaction and newFlush.                                             *)

FileSeq(v, l, S) == LET p == Sorted(S, <) IN [i \in DOMAIN p |-> v.levels[l][p[i]]]

CompactionOver(v, pc, grandparents) ==
    [kind |-> CompactionKind(v, pc, grandparents, MaxGrandparentOverlapBytes),
     startLevel |-> pc.startLevel, outputLevel |-> pc.outputLevel,
     start |-> pc.start, output |-> pc.output, smallest |-> pc.smallest, largest |-> pc.largest,
     flushing |-> <<>>, l0Limits |-> <<>>,
     maxOutputFileSize |-> TargetFileSize, maxOverlapBytes |-> MaxGrandparentOverlapBytes,
     grandparents |-> FileSeq(v, Min({pc.outputLevel + 1, BottomLevel}), grandparents),
     inuse |-> InuseKeyRanges(v, pc.outputLevel, pc.smallest, pc.largest)]
NewCompactionOf(v, pc) ==
    CompactionOver(v, pc, Grandparents(v, pc.outputLevel + 1, pc.smallest, pc.largest))

\* adjustGrandparentOverlapBytesForFlush: at most four times the files that the
\* size of the output asks for.
AdjustedOverlapBytes(flushingBytes, grandparentBytes) ==
    LET acceptable == 4 * ((flushingBytes + 5 * TargetFileSize - 1) \div (5 * TargetFileSize))
    IN  IF grandparentBytes > acceptable * MaxGrandparentOverlapBytes
        THEN grandparentBytes \div acceptable ELSE MaxGrandparentOverlapBytes

\* The bounds of the memtables, over points and range tombstones.
Firsts(m) == {m.entries[i].ikey : i \in DOMAIN m.entries \cap {1}}
             \cup {m.tombstones[i].start : i \in DOMAIN m.tombstones \cap {1}}
Lasts(m) == {m.entries[i].ikey : i \in DOMAIN m.entries \cap {Len(m.entries)}}
            \cup {[m.tombstones[i].start EXCEPT !.key = m.tombstones[i].end] :
                      i \in DOMAIN m.tombstones \cap {Len(m.tombstones)}}
FirstKey(S) == IF S = {} THEN NoKey ELSE CHOOSE k \in S : \A j \in S : LessEq(k, j)
LastKey(S) == IF S = {} THEN NoKey ELSE CHOOSE k \in S : \A j \in S : LessEq(j, k)

FlushOver(v, mems, smallest, largest, grandparents) ==
    LET bytes == FoldSeq(LAMBDA m, n : n + Len(m.entries) + Len(m.tombstones), 0, mems)
        split == FlushSplitBytes > 0
    IN  [kind |-> "flush", startLevel |-> -1, outputLevel |-> 0, start |-> {}, output |-> {},
         smallest |-> smallest, largest |-> largest, flushing |-> mems,
         l0Limits |-> FlushSplitKeys(v.l0),
         maxOutputFileSize |-> IF split THEN TargetFileSize ELSE Infinite,
         maxOverlapBytes |-> IF split THEN AdjustedOverlapBytes(bytes, SumOver(ToSet(grandparents), LAMBDA f : f.size))
                             ELSE Infinite,
         grandparents |-> IF split THEN grandparents ELSE <<>>,
         inuse |-> InuseKeyRanges(v, 0, smallest, largest)]
FlushWithin(v, baseLevel, mems, smallest, largest) ==
    FlushOver(v, mems, smallest, largest,
              FileSeq(v, baseLevel, Overlaps(v, baseLevel, smallest.key, largest.key)))
NewFlush(v, baseLevel, mems) ==
    FlushWithin(v, baseLevel, mems, FirstKey(UNION {Firsts(mems[i]) : i \in DOMAIN mems}),
                LastKey(UNION {Lasts(mems[i]) : i \in DOMAIN mems}))

SplitL0Outputs(c) == c.outputLevel = 0 /\ FlushSplitBytes > 0

-----------------------------------------------------------------------------
(* newInputIter.                                                           *)

MemInputs(m) == <<NewListIter(m.kind, m.entries, <<>>, Nil, Nil)>>
                \o IF m.tombstones = <<>> THEN <<>> ELSE <<NewRangeDelIter(m.tombstones)>>
\* A table of L0 with its range tombstones as they are.
L0Input(f) == <<NewLevelIter(<<f>>, Nil, Nil, FALSE, TRUE)>>
              \o IF f.rangeDels = <<>> THEN <<>> ELSE <<NewRangeDelIter(f.rangeDels)>>

\* addItersForLevel: the range tombstones of a file count inside its atomic
\* compaction unit only.
InputTombstones(f, unit) ==
    Truncate(f.rangeDels, SmallestKey(unit).key, LargestKey(unit).key, f.smallest, f.largest)
LevelInputs(v, l, S) ==
    LET p == Sorted({i \in S : v.levels[l][i].rangeDels # <<>>}, <)
    IN  <<NewLevelIter(FileSeq(v, l, S), Nil, Nil, FALSE, TRUE)>>
        \o [i \in DOMAIN p |-> NewRangeDelIter(InputTombstones(v.levels[l][p[i]],
                                   FilesAt(v.levels[l], ExpandToAtomicUnit(v, l, {p[i]}))))]
InputIters(v, c) ==
    IF c.flushing # <<>> THEN FlattenSeq([i \in DOMAIN c.flushing |-> MemInputs(c.flushing[i])])
    ELSE (IF c.startLevel = 0
          THEN FlattenSeq([i \in DOMAIN FileSeq(v, 0, c.start) |-> L0Input(FileSeq(v, 0, c.start)[i])])
          ELSE LevelInputs(v, c.startLevel, c.start))
         \o LevelInputs(v, c.outputLevel, c.output)
InputsOrdered(v, c) ==
    c.flushing = <<>> =>
        /\ IF c.startLevel = 0 THEN OrderedL0(FileSeq(v, 0, c.start))
           ELSE OrderedSorted(FileSeq(v, c.startLevel, c.start))
        /\ c.outputLevel # 0 => OrderedSorted(FileSeq(v, c.outputLevel, c.output))

AllowZeroSeqNum(c) ==
    ElideRangeTombstone(c.flushing = <<>>, c.inuse, c.smallest.key, c.largest.key)
NewInputIter(v, c, snapshots) ==
    NewCompactionIter(NewMergingIter(InputIters(v, c), SeqNumMax, Nil, Nil, FALSE), snapshots,
                      c.flushing = <<>>, c.inuse, AllowZeroSeqNum(c))

-----------------------------------------------------------------------------
(* The splitters.  r is the state of the main loop: i the compactionIter   *)
(* (its key is nil when it is not valid) with the fragmenter, tw the open  *)
(* writer, files the tables finished so far, and the fields of the         *)
(* splitters.                                                              *)

NewRun(i) ==
    [i |-> i, tw |-> NewWriter(TableOptions), open |-> FALSE, files |-> <<>>, limit |-> Nil,
     gpLimit |-> Nil, l0Limit |-> Nil, splitOnNextUserKey |-> FALSE, savedKey |-> Nil,
     prevPointSeqNum |-> SeqNumMax, splitOnNonZeroSeqNum |-> FALSE, lastPoint |-> SeqNumMax,
     split |-> "no", err |-> FALSE]

\* The first grandparent, from the one that holds start, at which the table
\* overlaps too much; its largest key lies after start.
FindGrandparentLimit(c, start) ==
    LET from == {i \in DOMAIN c.grandparents : c.grandparents[i].largest.key >= start}
        bytes(i) == SumOver({j \in from : j <= i}, LAMBDA j : c.grandparents[j].size)
        over == {i \in from : bytes(i) > c.maxOverlapBytes /\ start < c.grandparents[i].largest.key}
    IN  IF over = {} THEN Nil ELSE c.grandparents[Min(over)].largest.key
FindL0Limit(c, start) ==
    LET after == {i \in DOMAIN c.l0Limits : c.l0Limits[i] > start}
    IN  IF c.startLevel > -1 \/ c.outputLevel # 0 \/ after = {} THEN Nil ELSE c.l0Limits[Min(after)]

\* grandparentLimitSplitter.onNewOutput.
GrandparentLimitFor(c, r) ==
    LET f == r.i.frag
        limit == FindGrandparentLimit(c, Last(r.files).largest.key)
    IN  IF FragEmpty(f) \/ r.files = <<>>
        THEN FindGrandparentLimit(c, IF r.i.valid THEN r.i.key.key ELSE FragStart(f))
        ELSE IF FragStart(f) # Nil /\ limit <= FragStart(f)
        THEN FindGrandparentLimit(c, FragStart(f)) ELSE limit
\* l0LimitSplitter.onNewOutput.
L0LimitFor(c, r) ==
    LET start == IF r.i.valid THEN r.i.key.key ELSE FragStart(r.i.frag)
    IN  IF ~SplitL0Outputs(c) \/ start = Nil THEN Nil ELSE FindL0Limit(c, start)
\* onNewOutput of the whole: the earliest limit.
OnNewOutput(c, r) ==
    LET gp == GrandparentLimitFor(c, r)
        l0 == L0LimitFor(c, r)
    IN  [r EXCEPT !.gpLimit = gp, !.l0Limit = l0, !.splitOnNonZeroSeqNum = FALSE,
                  !.limit = IF gp = Nil \/ (l0 # Nil /\ l0 < gp) THEN l0 ELSE gp,
                  !.prevPointSeqNum = SeqNumMax, !.lastPoint = SeqNumMax]

FileSizeSplit(c, r) == /\ r.i.key.kind # KindRangeDelete /\ r.open
                       /\ EstimatedSize(r.tw) >= c.maxOutputFileSize
PastLimit(r, limit) == limit # Nil /\ r.i.key.key > limit

\* userKeyChangeSplitter around the file size splitter.
UserKeyChangeSplit(c, r) ==
    IF r.splitOnNextUserKey /\ r.savedKey # r.i.key.key
    THEN [r EXCEPT !.splitOnNextUserKey = FALSE, !.savedKey = Nil, !.split = "now"]
    ELSE IF FileSizeSplit(c, r)
    THEN [r EXCEPT !.splitOnNextUserKey = TRUE, !.savedKey = r.i.key.key, !.split = "no"]
    ELSE [r EXCEPT !.split = "no"]
\* splitterGroup.
GroupSplit(c, r) ==
    LET s == IF SplitL0Outputs(c) THEN UserKeyChangeSplit(c, r)
             ELSE [r EXCEPT !.split = IF FileSizeSplit(c, r) THEN "now" ELSE "no"]
    IN  IF PastLimit(r, r.gpLimit) \/ PastLimit(r, r.l0Limit) THEN [s EXCEPT !.split = "now"] ELSE s

\* nonZeroSeqNumSplitter: a tombstone that goes on in the next table needs a
\* boundary after the last key of this one.
NonZeroSeqNumSplit(c, r) ==
    LET key == r.i.key
        prev == r.prevPointSeqNum
        free == prev > 0 \/ FragEmpty(r.i.frag)
        s == [r EXCEPT !.prevPointSeqNum = IF key.kind # KindRangeDelete THEN key.seq ELSE @]
        g == GroupSplit(c, s)
    IN  IF r.splitOnNonZeroSeqNum
        THEN [s EXCEPT !.splitOnNonZeroSeqNum = ~free, !.split = IF free THEN "now" ELSE "no"]
        ELSE IF g.split = "now" /\ ~(free \/ key.seq > prev)
        THEN [g EXCEPT !.splitOnNonZeroSeqNum = TRUE, !.split = "soon"] ELSE g
ShouldSplitBefore(c, r) == IF SplitL0Outputs(c) THEN GroupSplit(c, r) ELSE NonZeroSeqNumSplit(c, r)

-----------------------------------------------------------------------------
(* runCompaction.                                                          *)

\* One key of the inner loop.
WriteKey(r) ==
    LET key == r.i.key
        tw == AddToTable(IF r.open THEN r.tw ELSE NewWriter(TableOptions), key, r.i.value)
    IN  IF key.kind = KindRangeDelete
        THEN [r EXCEPT !.i = CompactionIterNext([@ EXCEPT !.frag = FragAdd(@, key, r.i.value)])]
        ELSE IF tw.err THEN [r EXCEPT !.err = TRUE]
        ELSE [r EXCEPT !.open = TRUE, !.tw = tw, !.lastPoint = key.seq, !.i = CompactionIterNext(@)]
SplitAt(c, r) ==
    [r EXCEPT !.limit = r.i.key.key,
              !.i.frag = IF SplitL0Outputs(c) THEN TruncateAndFlushTo(@, r.i.key.key) ELSE @]
RECURSIVE WriteKeys(_, _)
WriteKeys(c, r) ==
    IF ~r.i.valid \/ r.err THEN r
    ELSE LET s == ShouldSplitBefore(c, r)
         IN  IF s.split = "now" THEN SplitAt(c, s)
             ELSE WriteKeys(c, WriteKey([s EXCEPT !.limit = IF s.split = "soon" THEN Nil ELSE @]))
\* Out of keys with tombstones left: they all go into this table unless it can
\* be told apart from the next.
LastLimit(c, r) ==
    IF ~r.i.valid /\ ~FragEmpty(r.i.frag) /\ (r.lastPoint = 0 \/ SplitL0Outputs(c))
    THEN [r EXCEPT !.limit = Nil] ELSE r

\* The bounds of an output table that ends before key: its tombstones may
\* start in the previous table and go on in the next.
SmallestRangeAfter(files, m) ==
    LET prev == Last(files).largest
    IN  IF files # <<>> /\ m.smallestRange # NoKey /\ m.smallestRange.key = prev.key
               /\ prev.seq <= m.smallestRange.seq
        THEN [m.smallestRange EXCEPT !.seq = prev.seq - 1] ELSE m.smallestRange
(* Mutant: the bound of a tombstone that goes on in the next table is not cut. *)
LargestRangeOf(key, m) == m.largestRange
LargestRangeBefore(key, m) ==
    IF key # Nil /\ m.largestRange # NoKey /\ m.largestRange.key >= key
    THEN MakeRangeDeleteSentinelKey(key) ELSE m.largestRange
OutputBounds(files, key, m) ==
    [m EXCEPT !.smallestRange = SmallestRangeAfter(files, m), !.largestRange = LargestRangeBefore(key, m)]

OutputFile(table, m) ==
    [num |-> 0, smallest |-> SmallestOf(m), largest |-> LargestOf(m),
     smallestSeqNum |-> table.smallestSeqNum, largestSeqNum |-> table.largestSeqNum,
     size |-> table.numEntries, compacting |-> FALSE, intraL0 |-> FALSE,
     hasDeletions |-> table.numDeletions > 0, table |-> table, rangeDels |-> NewRawRangeDelIter(table)]

\* The checks of finishOutput, and errorOnUserKeyOverlap.
RangeBoundError(files, m) ==
    LET prev == Last(files).largest
    IN  files # <<>> /\ m.smallestRange # NoKey /\
            \/ m.smallestRange.key < prev.key
            \/ m.smallestRange.key = prev.key /\ prev.seq <= m.smallestRange.seq /\ prev.seq = 0
UserKeyOverlap(files, f) ==
    /\ files # <<>>
    /\ ~IsExclusiveSentinel(Last(files).largest) /\ Last(files).largest.key >= f.smallest.key
OutputError(c, files, table, f) ==
    \/ table.err \/ RangeBoundError(files, table.meta)
    \/ c.smallest.key # Nil /\ f.smallest.key < c.smallest.key
    \/ c.largest.key # Nil /\ f.largest.key > c.largest.key
    \/ SplitL0Outputs(c) /\ UserKeyOverlap(files, f)
    \/ ~Validate(f)
AddOutput(c, r, table, f) ==
    [r EXCEPT !.open = FALSE, !.files = Append(@, f), !.err = @ \/ OutputError(c, r.files, table, f)]
CloseOutput(c, r, table) ==
    AddOutput(c, r, table, OutputFile(table, OutputBounds(r.files, r.limit, table.meta)))

TombstoneEntries(ts) == [n \in DOMAIN ts |-> [ikey |-> ts[n].start, val |-> ts[n].end]]
Flushed(c, r, ts) ==
    IF ~r.open /\ ts = <<>> THEN r
    ELSE CloseOutput(c, r, CloseTable(AddAll(IF r.open THEN r.tw ELSE NewWriter(TableOptions),
                                             TombstoneEntries(ts)), 0))
WithTombstones(c, r, i) == Flushed(c, [r EXCEPT !.i = TakeTombstones(i)], PendingTombstones(i))
\* finishOutput(limit): a table of tombstones only must not start at its limit.
StartKey(i) == IF PendingTombstones(i) # <<>> THEN PendingTombstones(i)[1].start.key ELSE FragStart(i.frag)
FinishOutput(c, r) ==
    IF r.err \/ (~r.open /\ r.limit # Nil /\ StartKey(r.i) = r.limit) THEN r
    ELSE WithTombstones(c, r, FlushTombstones(r.i, r.limit, SplitL0Outputs(c)))

RECURSIVE RunLoop(_, _)
RunLoop(c, r) ==
    IF r.err \/ (~r.i.valid /\ FragEmpty(r.i.frag)) THEN r
    ELSE RunLoop(c, FinishOutput(c, LastLimit(c, WriteKeys(c, OnNewOutput(c, r)))))

\* The tables written and whether the compaction failed.
Result(r) == [files |-> r.files, err |-> r.err \/ r.i.err \/ r.i.frag.panic]
RunCompaction(v, c, snapshots) ==
    IF c.kind = "move" THEN [files |-> FileSeq(v, c.startLevel, c.start), err |-> FALSE]
    ELSE IF ~InputsOrdered(v, c) THEN [files |-> <<>>, err |-> TRUE]
    ELSE Result(RunLoop(c, NewRun(CompactionIterFirst(NewInputIter(v, c, snapshots)))))
=============================================================================
