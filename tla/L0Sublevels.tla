----------------------------- MODULE L0Sublevels -----------------------------
(***************************************************************************)
(* L0Sublevels (internal/manifest/l0_sublevels.go): the tables of L0       *)
(* stacked in sublevels without overlap, and the choice of compactions out *)
(* of L0.                                                                  *)
(*                                                                         *)
(* The bounds of the tables cut the key space into intervals, numbered     *)
(* from 1 here; a table is known by its place in the L0 of its version,    *)
(* which is in order of sequence numbers.  An interval key is the number   *)
(* 2 * key, or 2 * key + 1 when it lies just after the key.                *)
(*                                                                         *)
(* A file has num, smallest, largest, smallestSeqNum, largestSeqNum, size, *)
(* compacting and intraL0.                                                 *)
(***************************************************************************)
EXTENDS InternalKeys, FiniteSetsExt, SequencesExt

CONSTANT HugeCompaction   \* 100 << 20: from here on a candidate's growth is limited

IntervalKey(key, isLargest) == 2 * key + IF isLargest THEN 1 ELSE 0
StartOf(f) == IntervalKey(f.smallest.key, FALSE)
EndOf(f) == IntervalKey(f.largest.key, ~IsExclusiveSentinel(f.largest))
SortAndDedup(keys) == Sorted(keys, <)

SumOver(S, op(_)) == FoldSet(LAMBDA x, n : n + op(x), 0, S)

-----------------------------------------------------------------------------
Spans(s, i) == {f \in DOMAIN s.files : s.min[f] <= i /\ i <= s.max[f]}
Intervals(s) == DOMAIN s.keys
IntervalFiles(s, i) == Sorted(Spans(s, i), <)
FilesMin(s, i) == Min({i} \cup {s.min[f] : f \in Spans(s, i)})
FilesMax(s, i) == Max({i} \cup {s.max[f] : f \in Spans(s, i)})
EstimatedBytes(s, i) ==
    SumOver(Spans(s, i), LAMBDA f : s.files[f].size \div (s.max[f] - s.min[f] + 1))

\* The split keys: one wherever the bytes since the last exceed the limit.
FlushSplits(s, flushSplitMaxBytes) ==
    LET limit == flushSplitMaxBytes * Len(s.levels)
        step(a, i) ==
            LET key == s.keys[i] \div 2
                split == /\ limit > 0 /\ a.bytes > limit
                         /\ a.splits = <<>> \/ Last(a.splits) # key
            IN  [splits |-> IF split THEN Append(a.splits, key) ELSE a.splits,
                 bytes |-> EstimatedBytes(s, i) + IF split THEN 0 ELSE a.bytes]
    IN  FoldLeft(step, [splits |-> <<>>, bytes |-> 0], [i \in Intervals(s) |-> i]).splits

WithSplits(s, flushSplitMaxBytes) == [s EXCEPT !.splits = FlushSplits(s, flushSplitMaxBytes)]

\* A table goes just above the highest older table that shares an interval.
SubLevels(min, max) ==
    FoldLeft(LAMBDA g, f : Append(g, Max({0} \cup {g[e] + 1 : e \in {d \in DOMAIN g :
                                          min[d] <= max[f] /\ min[f] <= max[d]}})),
             <<>>, [f \in DOMAIN min |-> f])
LevelFiles(min, sub) ==
    [l \in 1..Max({0} \cup {sub[f] + 1 : f \in DOMAIN sub}) |->
        Sorted({f \in DOMAIN sub : sub[f] = l - 1}, LAMBDA a, b : min[a] < min[b])]
WithLevels(files, keys, min, max, sub) ==
    [files |-> files, keys |-> keys, min |-> min, max |-> max, sub |-> sub,
     levels |-> LevelFiles(min, sub), splits |-> <<>>, count |-> [i \in DOMAIN keys |-> 0],
     isBase |-> {}, rangeIsBase |-> {}]
WithSubLevels(files, keys, min, max) == WithLevels(files, keys, min, max, SubLevels(min, max))
WithIntervals(files, keys) ==
    LET search(k) == Min({i \in DOMAIN keys : k <= keys[i]})
    IN  WithSubLevels(files, keys, [f \in DOMAIN files |-> search(StartOf(files[f]))],
                      [f \in DOMAIN files |-> search(EndOf(files[f])) - 1])
NewL0Sublevels(files, flushSplitMaxBytes) ==
    WithSplits(WithIntervals(files, SortAndDedup(UNION {{StartOf(files[f]), EndOf(files[f])} :
                                                           f \in DOMAIN files})),
               flushSplitMaxBytes)
FlushSplitKeys(s) == s.splits

-----------------------------------------------------------------------------
(* What is being compacted: count, isBase and rangeIsBase.                 *)

\* inProgress: the compactions with inputs in L0, with smallest, largest, intra.
InitCompactingFileInfo(s, inProgress) ==
    LET busy == {f \in DOMAIN s.files : s.files[f].compacting}
        toBase == {i \in Intervals(s) : \E f \in busy : i \in s.min[f]..s.max[f] /\ ~s.files[f].intraL0}
        under(c) == {i \in Intervals(s) : /\ s.keys[i] >= IntervalKey(c.smallest.key, FALSE)
                                          /\ s.keys[i] < IntervalKey(c.largest.key, ~IsExclusiveSentinel(c.largest))}
        isBase == toBase \cup UNION {under(c) : c \in {d \in inProgress : ~d.intra}}
    IN  [s EXCEPT !.count = [i \in Intervals(s) |-> Cardinality(busy \cap Spans(s, i))],
                  !.isBase = isBase,
                  !.rangeIsBase = UNION {FilesMin(s, i)..FilesMax(s, i) : i \in isBase}]

UpdateStateForStartedCompaction(s, inputs, isBase) ==
    LET span == Min({s.min[f] : f \in inputs})..Max({s.max[f] : f \in inputs})
        base == IF isBase THEN span ELSE {}
    IN  [s EXCEPT !.count = [i \in Intervals(s) |-> @[i] + Cardinality(inputs \cap Spans(s, i))],
                  !.isBase = @ \cup base,
                  !.rangeIsBase = @ \cup UNION {FilesMin(s, i)..FilesMax(s, i) : i \in base}]

Depth(s, i) == Cardinality(Spans(s, i)) - s.count[i]
MaxDepthAfterOngoingCompactions(s) == Max({0} \cup {Depth(s, i) : i \in Intervals(s)})

-----------------------------------------------------------------------------
(* L0CompactionFiles: files, the sum of their sizes, the intervals they    *)
(* cover, how many tables of the seed interval they include and the        *)
(* sublevels that reaches.                                                 *)

AddFile(s, c, f) ==
    IF f \in c.files THEN c
    ELSE [c EXCEPT !.files = @ \cup {f}, !.bytes = @ + s.files[f].size,
                   !.min = Min({@, s.min[f]}), !.max = Max({@, s.max[f]})]

NewCandidate(s, f, seed, intra, unflushed) ==
    AddFile(s, [files |-> {}, bytes |-> 0, min |-> s.min[f], max |-> s.max[f], seed |-> seed,
                reduction |-> 0, minLevel |-> 0, maxLevel |-> Len(s.levels) - 1, intra |-> intra,
                unflushed |-> unflushed, blocked |-> FALSE], f)
NoCandidate == [files |-> {}]

\* extendFiles: the tables of sublevel sl over the candidate's intervals, which
\* grow on the way; blocked by one that is being compacted.
ExtendFiles(s, sl, unflushed, c0) ==
    LET step(c, f) ==
            IF c.blocked \/ s.max[f] < c0.min \/ s.min[f] > c.max THEN c
            ELSE IF s.files[f].compacting THEN [c EXCEPT !.blocked = TRUE]
            ELSE IF s.files[f].largestSeqNum >= unflushed THEN c
            ELSE AddFile(s, c, f)
    IN  FoldLeft(step, c0, s.levels[sl + 1])

\* Growing a candidate stops at one that got too large for what it reduces.
TooLarge(c, last, minDepth) ==
    /\ last.reduction >= minDepth
    /\ c.bytes > HugeCompaction
    /\ 2 * c.bytes > 3 * last.bytes \/ c.bytes > 5 * HugeCompaction

\* The next table up the seed interval, with all under it.
WithOlder(s, f, c) ==
    FoldLeft(LAMBDA d, l : IF d.blocked THEN d ELSE ExtendFiles(s, s.sub[f] - l, SeqNumMax, d),
             AddFile(s, [c EXCEPT !.reduction = @ + 1, !.maxLevel = s.sub[f]], f),
             [l \in 1..s.sub[f] |-> l])
\* files are the tables still to add; last is the best candidate so far.
Enough(c, last, minDepth) == c.blocked \/ (last # NoCandidate /\ TooLarge(c, last, minDepth))
RECURSIVE GrowBase(_, _, _, _, _)
GrowBase(s, files, c, last, minDepth) ==
    IF Enough(c, last, minDepth) THEN last
    ELSE IF files = <<>> THEN c
    ELSE GrowBase(s, Tail(files), WithOlder(s, Head(files), c), c, minDepth)
DeepEnough(c, minDepth) == IF c # NoCandidate /\ c.reduction >= minDepth THEN c ELSE NoCandidate
BaseCompactionUsingSeed(s, f, interval, minDepth) ==
    DeepEnough(GrowBase(s, Tail(IntervalFiles(s, interval)),
                        WithOlder(s, f, [NewCandidate(s, f, interval, FALSE, 0) EXCEPT !.maxLevel = 0]),
                        NoCandidate, minDepth), minDepth)

\* The intervals in the order the picker may consider them: the sort does not
\* fix the order of equal scores.  try[i] has done, what it picked, and the
\* intervals to pass over from now on.
RECURSIVE PickInOrder(_, _, _, _)
PickInOrder(todo, score, considered, try) ==
    IF todo = {} THEN {NoCandidate}
    ELSE LET best == {i \in todo : \A j \in todo : score[j] <= score[i]}
             next(i) == IF i \in considered THEN PickInOrder(todo \ {i}, score, considered, try)
                        ELSE IF try[i].done THEN {try[i].pick}
                        ELSE PickInOrder(todo \ {i}, score, considered \cup try[i].pass, try)
         IN  UNION {next(i) : i \in best}

\* A seed that is compacted to the base level already is an error.
SeedError == [files |-> {-1}]

BaseFileCompacting(s, c, baseFiles) ==
    \E b \in DOMAIN baseFiles : /\ baseFiles[b].compacting
                               /\ baseFiles[b].largest.key >= s.keys[c.min] \div 2
                               /\ IntervalKey(baseFiles[b].smallest.key, FALSE) < s.keys[c.max + 1]
TryBase(s, f, c, baseFiles) ==
    [done |-> c # NoCandidate /\ ~BaseFileCompacting(s, c, baseFiles), pick |-> c,
     pass |-> s.min[f]..s.max[f]]
TrySeed(s, i, f, minDepth, baseFiles) ==
    IF s.files[f].compacting
    THEN [done |-> ~s.files[f].intraL0, pick |-> SeedError, pass |-> s.min[f]..s.max[f]]
    ELSE TryBase(s, f, BaseCompactionUsingSeed(s, f, i, minDepth), baseFiles)
PickBaseCompaction(s, minDepth, baseFiles) ==
    LET todo == {i \in Intervals(s) \ s.isBase : Depth(s, i) >= minDepth}
        score(i) == Depth(s, i) + IF i \in s.rangeIsBase THEN 0 ELSE Len(s.levels)
    IN  PickInOrder(todo, [i \in todo |-> score(i)], {},
                    [i \in todo |-> TrySeed(s, i, Head(IntervalFiles(s, i)), minDepth, baseFiles)])

-----------------------------------------------------------------------------
(* Filling a candidate's shape up to a rectangle.                          *)

\* The tables of a sublevel inside the rectangle r: one that sticks out
\* narrows it.
InsideRectangle(s, r0, files) ==
    LET step(r, n) ==
            LET f == files[n]
                left == s.min[f] < r.min
                right == s.max[f] > r.max
            IN  IF s.max[f] < r0.min \/ s.min[f] > r.max THEN r
                ELSE [r EXCEPT !.min = IF left THEN s.max[f] + 1 ELSE @,
                               !.max = IF right THEN s.min[f] - 1 ELSE @,
                               !.first = IF left \/ right \/ @ # 0 THEN @ ELSE n,
                               !.last = IF left \/ right THEN @ ELSE n]
    IN  FoldLeft(step, [r0 EXCEPT !.first = 0, !.last = 0], [n \in DOMAIN files |-> n])

\* Of the runs of tables that are not being compacted: the first with a table
\* that is picked already, otherwise the first of the longest.
FreeRuns(s, r, files) ==
    LET free(n) == ~s.files[files[n]].compacting
    IN  {w \in (r.first..r.last) \X (r.first..r.last) :
            /\ w[1] <= w[2]
            /\ \A n \in w[1]..w[2] : free(n)
            /\ w[1] > r.first => ~free(w[1] - 1)
            /\ w[2] < r.last => ~free(w[2] + 1)}
BestRuns(r, files, runs) ==
    LET picked(w) == \E n \in w[1]..w[2] : files[n] \in r.c.files
    IN  IF \E w \in runs : picked(w) THEN {w \in runs : picked(w)}
        ELSE {w \in runs : \A v \in runs : v[2] - v[1] <= w[2] - w[1]}
FirstRun(runs) == CHOOSE w \in runs : \A v \in runs : w[1] <= v[1]
ChosenRun(s, r, files) == FirstRun(BestRuns(r, files, FreeRuns(s, r, files)))

\* The rectangle narrows to the run, whose tables are taken.
TakeRun(s, r, files, run) ==
    LET take == {f \in {files[n] : n \in run[1]..run[2]} :
                    ~(r.c.intra /\ s.files[f].largestSeqNum >= r.c.unflushed)}
    IN  [r EXCEPT !.min = IF run[1] > r.first THEN s.max[files[run[1] - 1]] + 1 ELSE @,
                  !.max = IF run[2] < r.last THEN s.min[files[run[2] + 1]] - 1 ELSE @,
                  !.c = FoldSet(LAMBDA f, c : AddFile(s, c, f), @, take)]
RectangleFiles(s, r, files) ==
    IF r.min > r.max THEN [r EXCEPT !.done = TRUE]
    ELSE IF r.first = 0 THEN r
    ELSE IF \A n \in r.first..r.last : s.files[files[n]].compacting THEN [r EXCEPT !.done = TRUE]
    ELSE TakeRun(s, r, files, ChosenRun(s, r, files))
RectangleLevel(s, r, sl) ==
    IF r.done THEN r
    ELSE RectangleFiles(s, InsideRectangle(s, r, s.levels[sl + 1]), s.levels[sl + 1])

\* extendCandidateToRectangle; it grew iff the files changed.
ExtendCandidateToRectangle(s, min, max, c, isBase) ==
    LET r == [min |-> Min({min, c.min}), max |-> Max({max, c.max}), first |-> 0, last |-> 0,
              done |-> FALSE, c |-> c]
        top == Len(s.levels) - 1
        order == IF isBase THEN [l \in 1..(c.maxLevel + 1) |-> l - 1]
                           ELSE [l \in 1..(top - c.minLevel + 1) |-> top - l + 1]
    IN  FoldLeft(LAMBDA q, sl : RectangleLevel(s, q, sl), r, order).c

\* smallest and largest are the nearest keys of the base level that must stay
\* out, NoKey where there is none.
ExtendL0ForBaseCompactionTo(s, smallest, largest, c) ==
    LET n == Len(s.keys)
        search(S) == Min(S \cup {n + 1})
        first == IF smallest = NoKey THEN 1
                 ELSE search({i \in 1..n : IF IsExclusiveSentinel(smallest)
                                           THEN smallest.key <= s.keys[i] \div 2
                                           ELSE smallest.key < s.keys[i] \div 2})
        at == search({i \in 1..n : largest.key <= s.keys[i] \div 2})
        last == IF largest = NoKey THEN n ELSE IF at <= n THEN at - 2 ELSE at - 1
    IN  IF last < first THEN c ELSE ExtendCandidateToRectangle(s, first, last, c, TRUE)

-----------------------------------------------------------------------------
\* The next table down the seed interval, with all above it.
WithNewer(s, f, c) ==
    FoldLeft(LAMBDA d, l : IF d.blocked THEN d ELSE ExtendFiles(s, s.sub[f] + l, c.unflushed, d),
             AddFile(s, [c EXCEPT !.reduction = @ + 1, !.minLevel = s.sub[f]], f),
             [l \in 1..(Len(s.levels) - 1 - s.sub[f]) |-> l])
RECURSIVE GrowIntra(_, _, _, _, _)
GrowIntra(s, files, c, last, minDepth) ==
    IF Enough(c, last, minDepth) THEN last
    ELSE IF files = <<>> \/ s.files[Last(files)].compacting THEN c
    ELSE GrowIntra(s, Front(files), WithNewer(s, Last(files), c), c, minDepth)
AsRectangle(s, c) ==
    IF c = NoCandidate THEN c ELSE ExtendCandidateToRectangle(s, c.min, c.max, c, FALSE)
IntraL0CompactionUsingSeed(s, f, interval, unflushed, minDepth) ==
    AsRectangle(s, DeepEnough(
        GrowIntra(s, SelectSeq(IntervalFiles(s, interval), LAMBDA g : g < f),
                  WithNewer(s, f, NewCandidate(s, f, interval, TRUE, unflushed)),
                  NoCandidate, minDepth), minDepth))

\* The seed is the newest table of the interval below the unflushed sequence
\* numbers; tables above it that hold newer numbers are stepped over.
RECURSIVE IntraSeed(_, _, _, _, _)
IntraSeed(s, files, unflushed, depth, pass) ==
    LET f == Last(files)
        marked == pass \cup (s.min[f]..s.max[f])
    IN  IF s.files[f].compacting THEN [f |-> f, depth |-> depth, pass |-> pass]
        ELSE IF s.files[f].largestSeqNum >= unflushed /\ depth > 1 /\ Len(files) > 1
        THEN IntraSeed(s, Front(files), unflushed, depth - 1, marked)
        ELSE [f |-> f, pass |-> marked,
              depth |-> IF s.files[f].largestSeqNum >= unflushed THEN depth - 1 ELSE depth]

TryIntra(c, seed) == [done |-> c # NoCandidate, pick |-> c, pass |-> seed.pass]
TryIntraSeed(s, i, seed, unflushed, minDepth) ==
    IF seed.depth < minDepth \/ s.files[seed.f].compacting
    THEN TryIntra(NoCandidate, seed)
    ELSE TryIntra(IntraL0CompactionUsingSeed(s, seed.f, i, unflushed, minDepth), seed)
PickIntraL0Compaction(s, unflushed, minDepth) ==
    LET todo == {i \in Intervals(s) : Depth(s, i) >= minDepth}
    IN  PickInOrder(todo, [i \in todo |-> Depth(s, i)], {},
                    [i \in todo |-> TryIntraSeed(s, i,
                        IntraSeed(s, IntervalFiles(s, i), unflushed, Depth(s, i), {}),
                        unflushed, minDepth)])
=============================================================================
