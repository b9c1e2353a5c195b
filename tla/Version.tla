------------------------------- MODULE Version -------------------------------
(***************************************************************************)
(* Versions (internal/manifest/version.go) and what a version edit makes   *)
(* of one (internal/manifest/version_edit.go).                             *)
(*                                                                         *)
(* A version has levels, a sequence of files for each level, and l0, its   *)
(* L0Sublevels.  L0 is in order of sequence numbers, the other levels in   *)
(* order of smallest keys.  An edit has deleted, a set of <<level, file    *)
(* number>>, and added, a sequence of [level, file].                       *)
(***************************************************************************)
EXTENDS L0Sublevels

CONSTANTS NumLevels,       \* numLevels, 7 in the program
          FlushSplitBytes  \* Options.FlushSplitBytes
Levels == 0..(NumLevels - 1)

Validate(f) == LessEq(f.smallest, f.largest) /\ f.smallestSeqNum <= f.largestSeqNum

LessSeqNum(a, b) == \/ a.largestSeqNum < b.largestSeqNum
                    \/ a.largestSeqNum = b.largestSeqNum /\ a.smallestSeqNum < b.smallestSeqNum
                    \/ /\ a.largestSeqNum = b.largestSeqNum /\ a.smallestSeqNum = b.smallestSeqNum
                       /\ a.num < b.num
CmpSmallestKey(a, b) == Less(a.smallest, b.smallest)
SortBySeqNum(S) == Sorted(S, LessSeqNum)
SortBySmallest(S) == Sorted(S, CmpSmallestKey)

\* KeyRange of a set of files; NoKey for none.
SmallestKey(S) == IF S = {} THEN NoKey
                  ELSE (CHOOSE f \in S : \A g \in S : LessEq(f.smallest, g.smallest)).smallest
LargestKey(S) == IF S = {} THEN NoKey
                 ELSE (CHOOSE f \in S : \A g \in S : LessEq(g.largest, f.largest)).largest

SizeSum(S) == SumOver(S, LAMBDA f : f.size)

-----------------------------------------------------------------------------
(* Overlaps, as positions in the level.                                    *)

\* In L0 the range grows with every file that overlaps it.
RECURSIVE OverlapsL0(_, _, _)
OverlapsL0(files, start, end) ==
    LET S == {i \in DOMAIN files : files[i].largest.key >= start /\ files[i].smallest.key <= end}
        from == Min({start} \cup {files[i].smallest.key : i \in S})
        to == Max({end} \cup {files[i].largest.key : i \in S})
    IN  IF from < start \/ to > end THEN OverlapsL0(files, from, to) ELSE S
OverlapsSorted(files, start, end) ==
    {i \in DOMAIN files : files[i].largest.key >= start /\ files[i].smallest.key <= end}
Overlaps(v, level, start, end) ==
    IF level = 0 THEN OverlapsL0(v.levels[0], start, end)
                 ELSE OverlapsSorted(v.levels[level], start, end)

FilesAt(files, S) == {files[i] : i \in S}
ContainsFile(v, level, num) == \E i \in DOMAIN v.levels[level] : v.levels[level][i].num = num

-----------------------------------------------------------------------------
(* CheckOrdering.                                                          *)

OrderedL0(files) ==
    \A i \in 2..Len(files) : \/ LessSeqNum(files[i - 1], files[i])
                             \/ files[i - 1].largestSeqNum = 0 /\ files[i].largestSeqNum = 0
OrderedSorted(files) ==
    /\ \A i \in DOMAIN files : Validate(files[i])
    /\ \A i \in 2..Len(files) : /\ CmpSmallestKey(files[i - 1], files[i])
                                /\ Less(files[i - 1].largest, files[i].smallest)
CheckOrdering(v) ==
    /\ OrderedL0(v.levels[0])
    /\ \A l \in Levels \ {0} : OrderedSorted(v.levels[l])
    /\ \A n \in DOMAIN v.l0.levels :
           OrderedSorted([i \in DOMAIN v.l0.levels[n] |-> v.levels[0][v.l0.levels[n][i]]])

-----------------------------------------------------------------------------
InitL0Sublevels(files) == NewL0Sublevels(files, FlushSplitBytes)
MakeVersion(levels) == [levels |-> levels, l0 |-> InitL0Sublevels(levels[0])]

\* BulkVersionEdit.Accumulate of one edit.
Accumulate(edit) ==
    [deleted |-> [l \in Levels |-> {d[2] : d \in {e \in edit.deleted : e[1] = l}}],
     added |-> [l \in Levels |-> {edit.added[i].file :
                                     i \in {j \in DOMAIN edit.added : edit.added[j].level = l}}]]

\* BulkVersionEdit.Apply, with the check around what was added; the sublevels
\* are kept while L0 does not change.
ApplyLevel(files, l, deleted, added) ==
    LET kept == {files[i] : i \in {j \in DOMAIN files : files[j].num \notin deleted}}
    IN  IF l = 0 THEN SortBySeqNum(kept \cup added) ELSE SortBySmallest(kept \cup added)
WithLevelFiles(v, levels, touched) ==
    [levels |-> levels, l0 |-> IF touched THEN InitL0Sublevels(levels[0]) ELSE v.l0]
ApplyBulk(v, bve) ==
    WithLevelFiles(v, [l \in Levels |-> ApplyLevel(v.levels[l], l, bve.deleted[l], bve.added[l])],
                   bve.deleted[0] # {} \/ bve.added[0] # {})
Apply(v, edit) == ApplyBulk(v, Accumulate(edit))

\* The files from the one before the first of S to the one after the last.
Around(files, S) == SubSeq(files, Max({1, Min(S) - 1}), Min({Len(files), Max(S) + 1}))
BulkError(v, bve, levels) ==
    LET over(l) == OverlapsSorted(levels[l], SmallestKey(bve.added[l]).key, LargestKey(bve.added[l]).key)
    IN  \/ \E l \in Levels : bve.deleted[l] # {} /\ v.levels[l] = <<>> /\ bve.added[l] = {}
        \/ \E l \in Levels : \E n \in bve.deleted[l] : ~ContainsFile(v, l, n)
        \/ (bve.added[0] # {} \/ bve.deleted[0] # {}) /\ ~OrderedL0(levels[0])
        \/ \E l \in Levels \ {0} : bve.added[l] # {} /\ ~OrderedSorted(Around(levels[l], over(l)))
ApplyError(v, edit) == BulkError(v, Accumulate(edit), Apply(v, edit).levels)

-----------------------------------------------------------------------------
\* FileMetadata.Compacting and IsIntraL0Compacting live in the file, which
\* every version shares.
MarkFiles(v, nums, compacting, intra) ==
    LET mark(files) == [i \in DOMAIN files |->
            IF files[i].num \in nums
            THEN [files[i] EXCEPT !.compacting = compacting, !.intraL0 = intra] ELSE files[i]]
    IN  [levels |-> [l \in Levels |-> mark(v.levels[l])],
         l0 |-> [v.l0 EXCEPT !.files = mark(@)]]
=============================================================================
