------------------------------- MODULE Picker --------------------------------
(***************************************************************************)
(* The choice of compactions (compaction_picker.go).                       *)
(*                                                                         *)
(* A picked compaction names its inputs by their positions in the start    *)
(* and in the output level of the version it was picked from.  The picker  *)
(* orders the levels by scores, which are ratios of sizes that include     *)
(* table statistics loaded in the background; here a level is tried in any *)
(* order and any file that is free may have the best ratio, so an operator *)
(* that picks returns the set of what it may pick.                         *)
(*                                                                         *)
(* env has inProgress (a set of compactions), unflushed                    *)
(* (earliestUnflushedSeqNum), snapshot (earliestSnapshotSeqNum) and        *)
(* flushing.                                                               *)
(***************************************************************************)
EXTENDS Version

CONSTANTS LBaseMaxBytes, MaxExpandedBytes, L0CompactionThreshold, MinIntraL0Count

BottomLevel == NumLevels - 1
LevelMultiplier == 10

\* initLevelMaxBytes: the base level of a new picker.
RECURSIVE RaiseBaseLevel(_, _)
RaiseBaseLevel(level, size) ==
    IF level > 1 /\ size > LBaseMaxBytes THEN RaiseBaseLevel(level - 1, size \div LevelMultiplier)
    ELSE level
RECURSIVE Shrink(_, _)
Shrink(size, n) == IF n <= 0 THEN size ELSE Shrink(size \div LevelMultiplier, n - 1)
(* Mutant: the compactions in progress are not looked at. *)
InitBaseLevelStale(v, inProgress) ==
    LET size(l) == SizeSum(FilesAt(v.levels[l], DOMAIN v.levels[l]))
        first == {l \in Levels \ {0} : size(l) > 0}
    IN  IF first = {} THEN BottomLevel ELSE Min(first)
InitBaseLevel(v, inProgress) ==
    LET size(l) == SizeSum(FilesAt(v.levels[l], DOMAIN v.levels[l]))
        below == SumOver(Levels \ {0}, size)
        first == {l \in Levels \ {0} : size(l) > 0}
                 \cup {c.outputLevel : c \in {d \in inProgress : d.startLevel = 0 /\ d.outputLevel > 0}}
        db == below + size(0)
        bottom == db - (db \div LevelMultiplier)
    IN  IF first = {} THEN BottomLevel
        ELSE IF below = 0 THEN Min(first)
        ELSE RaiseBaseLevel(Min(first), Shrink(bottom, BottomLevel - Min(first)))

-----------------------------------------------------------------------------
NewPickedCompaction(startLevel, baseLevel) ==
    [startLevel |-> startLevel,
     outputLevel |-> Min({IF startLevel = 0 THEN baseLevel ELSE startLevel + 1, BottomLevel}),
     start |-> {}, output |-> {}, smallest |-> NoKey, largest |-> NoKey, lcf |-> NoCandidate]
NewPickedCompactionFromL0(lcf, baseLevel, isBase) ==
    LET pc == NewPickedCompaction(0, baseLevel)
    IN  [pc EXCEPT !.outputLevel = IF isBase THEN @ ELSE 0, !.lcf = lcf, !.start = lcf.files]

StartFiles(v, pc) == FilesAt(v.levels[pc.startLevel], pc.start)
OutputFiles(v, pc) == FilesAt(v.levels[pc.outputLevel], pc.output)
Inputs(v, pc) == StartFiles(v, pc) \cup OutputFiles(v, pc)
WithBounds(v, pc) == [pc EXCEPT !.smallest = SmallestKey(Inputs(v, pc)),
                                !.largest = LargestKey(Inputs(v, pc))]

\* The files at i - 1 and i have to be compacted together.
CutBefore(files, i) == \/ files[i - 1].largest.key < files[i].smallest.key
                       \/ IsExclusiveSentinel(files[i - 1].largest)
\* A slice of L0 has no neighbours to expand to.
ExpandToAtomicUnit(v, level, S) ==
    LET files == v.levels[level]
        first == IF level = 0 THEN Min(S)
                 ELSE Max({i \in 1..Min(S) : i = 1 \/ CutBefore(files, i)})
        last == IF level = 0 THEN Max(S)
                ELSE Min({i \in Max(S)..Len(files) : i = Len(files) \/ CutBefore(files, i + 1)})
    IN  IF S = {} THEN S ELSE S \cup IF level = 0 THEN {} ELSE first..last
UnitIsCompacting(v, level, S) ==
    LET U == ExpandToAtomicUnit(v, level, S)
    IN  S # {} /\ \E i \in (Min(U)..Min(S)) \cup (Max(S)..Max(U)) : v.levels[level][i].compacting

\* grow: more of the start level when the output level's inputs stay the same.
GrowTo(v, pc, unit0, grow1) ==
    LET unit1 == ExpandToAtomicUnit(v, pc.outputLevel, grow1)
    IN  IF UnitIsCompacting(v, pc.outputLevel, grow1) \/ Cardinality(unit1) # Cardinality(pc.output)
        THEN pc ELSE WithBounds(v, [pc EXCEPT !.start = unit0, !.output = unit1])
GrowStart(v, pc, grow0, unit0, files0) ==
    IF \/ UnitIsCompacting(v, pc.startLevel, grow0)
       \/ Cardinality(unit0) <= Cardinality(pc.start)
       \/ SizeSum(files0) + SizeSum(OutputFiles(v, pc)) >= MaxExpandedBytes
    THEN pc
    ELSE GrowTo(v, pc, unit0, Overlaps(v, pc.outputLevel, SmallestKey(files0).key, LargestKey(files0).key))
GrowUnit(v, pc, grow0, unit0) == GrowStart(v, pc, grow0, unit0, FilesAt(v.levels[pc.startLevel], unit0))
GrowOver(v, pc, grow0) == GrowUnit(v, pc, grow0, ExpandToAtomicUnit(v, pc.startLevel, grow0))
Grow(v, pc) ==
    IF pc.output = {} THEN pc
    ELSE GrowOver(v, pc, Overlaps(v, pc.startLevel, pc.smallest.key, pc.largest.key))

\* The L0 side of a base compaction is extended between the neighbours of its
\* inputs in the base level.
GrownL0(v, pc, c) ==
    IF \/ c.files = pc.lcf.files
       \/ SizeSum(FilesAt(v.levels[0], c.files)) + SizeSum(OutputFiles(v, pc)) >= MaxExpandedBytes
    THEN pc ELSE WithBounds(v, [pc EXCEPT !.start = c.files, !.lcf = c])
GrowL0(v, pc) ==
    LET files == v.levels[pc.outputLevel]
        left == IF pc.output = {} THEN {i \in DOMAIN files : files[i].smallest.key < pc.smallest.key}
                                  ELSE 1..(Min(pc.output) - 1)
        right == IF pc.output = {} THEN {i \in DOMAIN files : files[i].largest.key >= pc.largest.key}
                                   ELSE (Max(pc.output) + 1)..Len(files)
    IN  GrownL0(v, pc, ExtendL0ForBaseCompactionTo(v.l0,
                           IF left = {} THEN NoKey ELSE files[Max(left)].largest,
                           IF right = {} THEN NoKey ELSE files[Min(right)].smallest, pc.lcf))

\* setupInputs, as far as it got, and whether it got to the end.
Growth(v, pc) == IF pc.lcf # NoCandidate /\ pc.startLevel = 0 /\ pc.outputLevel # 0
                 THEN GrowL0(v, pc) ELSE Grow(v, pc)
Ready(v, pc) == [ok |-> TRUE, pc |-> Growth(v, pc)]
SetupOutput(v, pc, over) ==
    IF UnitIsCompacting(v, pc.outputLevel, over)
    THEN [ok |-> FALSE, pc |-> [pc EXCEPT !.output = ExpandToAtomicUnit(v, pc.outputLevel, over)]]
    ELSE Ready(v, WithBounds(v, [pc EXCEPT !.output = ExpandToAtomicUnit(v, pc.outputLevel, over)]))
SetupStart(v, pc) ==
    IF pc.startLevel = pc.outputLevel THEN Ready(v, pc)
    ELSE SetupOutput(v, pc, Overlaps(v, pc.outputLevel, pc.smallest.key, pc.largest.key))
Expanded(v, pc) == [pc EXCEPT !.start = ExpandToAtomicUnit(v, pc.startLevel, pc.start)]
SetupInputs(v, pc) ==
    IF UnitIsCompacting(v, pc.startLevel, pc.start) THEN [ok |-> FALSE, pc |-> Expanded(v, pc)]
    ELSE SetupStart(v, WithBounds(v, Expanded(v, pc)))

-----------------------------------------------------------------------------
(* Mutant: only shared inputs count. *)
InputsAlreadyCompacting(v, env, pc) == \E f \in Inputs(v, pc) : f.compacting
InputRangeAlreadyCompacting(v, env, pc) ==
    \/ \E f \in Inputs(v, pc) : f.compacting
    \/ /\ pc.outputLevel # 0
       /\ \E c \in env.inProgress : /\ c.outputLevel = pc.outputLevel
                                    /\ ~Less(c.largest, pc.smallest) /\ ~Less(pc.largest, c.smallest)
\* The compactions of a set that may run.
Allowed(v, env, S) == {pc \in S : ~InputRangeAlreadyCompacting(v, env, pc)}
SetUp(v, pc) == {r.pc : r \in {x \in {SetupInputs(v, pc)} : x.ok}}

\* pickL0 goes on when setupInputs fails for a base compaction: what it left
\* behind still names a file that is being compacted.
FromBase(v, baseLevel, base) ==
    {SetupInputs(v, NewPickedCompactionFromL0(c, baseLevel, TRUE)).pc : c \in base \ {NoCandidate, SeedError}}
FromIntra(v, intra) ==
    {pc \in UNION {SetUp(v, NewPickedCompactionFromL0(c, 0, FALSE)) : c \in intra \ {NoCandidate}} :
        Cardinality(pc.start) > 1}
PickL0From(v, env, baseLevel, base) ==
    FromBase(v, baseLevel, base)
    \cup IF NoCandidate \in base
         THEN FromIntra(v, PickIntraL0Compaction(v.l0, env.unflushed, MinIntraL0Count)) ELSE {}
PickL0(v, env, baseLevel) ==
    PickL0From(v, env, baseLevel, PickBaseCompaction(v.l0, 1, v.levels[baseLevel]))

\* pickFile: a file that is not being compacted, nor any under it.
PickFile(v, level, outputLevel) ==
    {i \in DOMAIN v.levels[level] :
        LET f == v.levels[level][i]
        IN  /\ ~f.compacting
            /\ \A j \in DOMAIN v.levels[outputLevel] :
                   LET o == v.levels[outputLevel][j]
                   IN  LessEq(f.smallest, o.largest) /\ Less(o.smallest, f.largest) => ~o.compacting}
PickAutoHelper(v, level, i, baseLevel) ==
    SetUp(v, [NewPickedCompaction(level, baseLevel) EXCEPT !.start = {i}])

\* pickElisionOnlyCompaction: a file of the bottom level with enough deletions,
\* rewritten alone; the bounds of the compaction stay unset.
PickElisionOnly(v, env) ==
    LET files == v.levels[BottomLevel]
        one(i) == LET U == ExpandToAtomicUnit(v, BottomLevel, {i})
                  IN  [NewPickedCompaction(BottomLevel, BottomLevel) EXCEPT !.start = U]
    IN  {one(i) : i \in {j \in DOMAIN files :
            /\ ~files[j].compacting /\ files[j].hasDeletions
            /\ files[j].largestSeqNum < env.snapshot
            /\ ~UnitIsCompacting(v, BottomLevel, {j})}}

\* A read compaction rc has level, start and end: the range a reader found
\* expensive, in a version that may be gone by now.
UpdateReadCompaction(v, rc) ==
    LET over == {l \in Levels : Overlaps(v, l, rc.start, rc.end) # {}}
    IN  IF Cardinality(over) >= 2 THEN {Min(over)} ELSE {}
PickReadTriggered(v, env, baseLevel, rc) ==
    LET levels == IF Overlaps(v, rc.level, rc.start, rc.end) # {} THEN {rc.level}
                  ELSE UpdateReadCompaction(v, rc)
    IN  IF env.flushing THEN {}
        ELSE UNION {SetUp(v, [NewPickedCompaction(l, baseLevel)
                                 EXCEPT !.start = Overlaps(v, l, rc.start, rc.end)]) : l \in levels}

\* calculateL0Score: the score reaches one.
CompactsL0(v) == 2 * MaxDepthAfterOngoingCompactions(v.l0) >= L0CompactionThreshold

\* pickAuto: what it may return, whatever the scores.
PickAuto(v, env, baseLevel, reads) ==
    Allowed(v, env,
        (IF CompactsL0(v) THEN PickL0(v, env, baseLevel) ELSE {})
        \cup UNION {UNION {PickAutoHelper(v, l, i, baseLevel) : i \in PickFile(v, l, l + 1)} :
                       l \in baseLevel..(BottomLevel - 1)}
        \cup PickElisionOnly(v, env)
        \cup UNION {PickReadTriggered(v, env, baseLevel, rc) : rc \in reads})

ConflictsWithInProgress(level, outputLevel, inProgress) ==
    \E c \in inProgress : {c.startLevel, c.outputLevel} \cap {level, outputLevel} # {}

\* pickManual of a range in a level.
PickManual(v, env, baseLevel, level, start, end) ==
    LET outputLevel == IF level = 0 THEN baseLevel ELSE level + 1
        over == Overlaps(v, level, start, end)
    IN  IF \/ level # 0 /\ level < baseLevel
           \/ ConflictsWithInProgress(level, outputLevel, env.inProgress)
           \/ over = {}
        THEN {}
        ELSE Allowed(v, env, SetUp(v, [NewPickedCompaction(level, baseLevel) EXCEPT !.start = over]))

-----------------------------------------------------------------------------
(* Parts of newCompaction and newFlush (compaction.go).                    *)

\* setupInuseKeyRanges, without merging the ranges.
InuseKeyRanges(v, outputLevel, smallest, largest) ==
    UNION {{<<f.smallest.key, f.largest.key>> :
               f \in FilesAt(v.levels[l], Overlaps(v, l, smallest.key, largest.key))} :
           l \in (IF outputLevel = 0 THEN 0 ELSE outputLevel + 1)..BottomLevel}

\* The positions of the files of a level that overlap a compaction; none below
\* the bottom level.
Grandparents(v, level, smallest, largest) ==
    IF level < NumLevels THEN Overlaps(v, level, smallest.key, largest.key) ELSE {}
CompactionKind(v, pc, grandparents, maxOverlapBytes) ==
    IF pc.startLevel = BottomLevel THEN "elisionOnly"
    ELSE IF /\ pc.output = {} /\ Cardinality(pc.start) = 1
            /\ SizeSum(FilesAt(v.levels[Min({pc.outputLevel + 1, BottomLevel})], grandparents))
                   <= maxOverlapBytes
    THEN "move" ELSE "default"
=============================================================================
