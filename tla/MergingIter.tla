----------------------------- MODULE MergingIter ----------------------------
(***************************************************************************)
(* mergingIter (merging_iter.go): one ordered stream of internal keys out  *)
(* of levels, the newest level first.  Keys that a range tombstone of the  *)
(* same or of a newer level deletes are left out, and a tombstone of a     *)
(* newer level moves the older levels past the range it covers.            *)
(*                                                                         *)
(* levels[i].iter is the iterator of level i, key what it returned last,   *)
(* tombstone the cached tombstone.  heap is the sequence of the levels in  *)
(* the binary heap of merging_iter_heap.go.                                *)
(***************************************************************************)
EXTENDS LevelIter

NewMergingIter(iters, snapshot, lower, upper, elide) ==
    [levels |-> [i \in DOMAIN iters |->
                    [iter |-> iters[i], entry |-> NoEntry, tombstone |-> EmptyTombstone]],
     dir |-> 0, snapshot |-> snapshot, heap |-> <<>>, reverse |-> FALSE, err |-> FALSE,
     prefix |-> Nil, lower |-> lower, upper |-> upper, elide |-> elide, fp |-> FALSE,
     ret |-> NoEntry]

-----------------------------------------------------------------------------
(* The methods of a level's iterator.                                      *)

IsLevel(it) == it.kind = "level"
IterSeekGE(it, key) == IF IsLevel(it) THEN LevelSeekGE(it, key) ELSE ListSeekGE(it, key)
IterSeekPrefixGE(it, key, try, fp) == IF IsLevel(it) THEN LevelSeekPrefixGE(it, key, try, fp)
                                                      ELSE ListSeekPrefixGE(it, key, try)
IterSeekLT(it, key) == IF IsLevel(it) THEN LevelSeekLT(it, key) ELSE ListSeekLT(it, key)
IterFirst(it) == IF IsLevel(it) THEN LevelFirst(it) ELSE ListFirst(it)
IterLast(it) == IF IsLevel(it) THEN LevelLast(it) ELSE ListLast(it)
IterNext(it) == IF IsLevel(it) THEN LevelNext(it) ELSE ListNext(it)
IterPrev(it) == IF IsLevel(it) THEN LevelPrev(it) ELSE ListPrev(it)
IterError(it) == IF IsLevel(it) THEN LevelError(it) ELSE it.err
IterSetBounds(it, lower, upper) == IF IsLevel(it) THEN LevelSetBounds(it, lower, upper)
                                                  ELSE ListSetBounds(it, lower, upper)

SetIter(m, i, it) == [m EXCEPT !.levels[i].iter = it, !.levels[i].entry = it.ret]

-----------------------------------------------------------------------------
(* The heap: items 1..Len, the children of i are 2i and 2i + 1.            *)

HeapKey(m, i) == m.levels[m.heap[i]].entry.key
HeapLess(m, i, j) == IF m.reverse THEN Less(HeapKey(m, j), HeapKey(m, i))
                                  ELSE Less(HeapKey(m, i), HeapKey(m, j))
HeapSwap(m, i, j) == [m EXCEPT !.heap[i] = m.heap[j], !.heap[j] = m.heap[i]]

RECURSIVE HeapDown(_, _)
HeapDown(m, i) ==
    LET n == Len(m.heap)
        child == IF 2 * i + 1 <= n /\ HeapLess(m, 2 * i + 1, 2 * i) THEN 2 * i + 1 ELSE 2 * i
    IN  IF 2 * i > n \/ ~HeapLess(m, child, i) THEN m ELSE HeapDown(HeapSwap(m, i, child), child)

HeapInit(m) == FoldLeft(LAMBDA h, j : HeapDown(h, (Len(m.heap) \div 2) + 1 - j), m,
                        [j \in 1..(Len(m.heap) \div 2) |-> j])
HeapFix(m) == HeapDown(m, 1)
HeapPop(m) == HeapDown([m EXCEPT !.heap = Front([@ EXCEPT ![1] = Last(m.heap)])], 1)
Top(m) == m.heap[1]
TopEntry(m) == m.levels[Top(m)].entry

-----------------------------------------------------------------------------
\* initHeap: a level without a key may have stopped at an error.
InitHeap(m) ==
    LET some == SelectSeq([i \in DOMAIN m.levels |-> i], LAMBDA i : m.levels[i].entry # NoEntry)
        failed == \E i \in DOMAIN m.levels : m.levels[i].entry = NoEntry /\ IterError(m.levels[i].iter)
    IN  IF m.err \/ failed THEN [m EXCEPT !.err = TRUE, !.heap = <<>>]
        ELSE HeapInit([m EXCEPT !.heap = some])

SeekTombstone(m, i, t) == [m EXCEPT !.levels[i].tombstone = t]
TombstoneGE(m, i, key) == TombstoneSeekGE(m.levels[i].iter.rd, key, m.snapshot)
TombstoneLE(m, i, key) == TombstoneSeekLE(m.levels[i].iter.rd, key, m.snapshot)

\* The tombstones of the levels above the top of the heap are positioned at its key.
InitMinRangeDelIters(m, oldTopLevel) ==
    IF m.heap = <<>> THEN m
    ELSE [m EXCEPT !.levels = [i \in DOMAIN @ |->
             IF i > oldTopLevel /\ i <= Top(m) /\ @[i].iter.rd # <<>>
             THEN [@[i] EXCEPT !.tombstone = TombstoneGE(m, i, TopEntry(m).key.key)] ELSE @[i]]]
InitMaxRangeDelIters(m, oldTopLevel) ==
    IF m.heap = <<>> THEN m
    ELSE [m EXCEPT !.levels = [i \in DOMAIN @ |->
             IF i > oldTopLevel /\ i <= Top(m) /\ @[i].iter.rd # <<>>
             THEN [@[i] EXCEPT !.tombstone = TombstoneLE(m, i, TopEntry(m).key.key)] ELSE @[i]]]

InitMinHeap(m) == InitMinRangeDelIters(InitHeap([m EXCEPT !.dir = 1, !.reverse = FALSE]), 0)
InitMaxHeap(m) == InitMaxRangeDelIters(InitHeap([m EXCEPT !.dir = -1, !.reverse = TRUE]), 0)

-----------------------------------------------------------------------------
(* seekGE and seekLT: a tombstone that contains the key moves the seek of  *)
(* the levels below to the end of the tombstone, within its table.         *)

InSmallest(it, key) == it.smallestUserKey <= key
InLargest(it, key) == \/ it.largestUserKey = Nil \/ it.largestUserKey > key
                      \/ it.largestUserKey = key /\ ~it.sentinel
EndWithin(it, t) == IF it.largestUserKey # Nil /\ it.largestUserKey < t.end
                    THEN it.largestUserKey ELSE t.end
StartWithin(it, t) == IF it.smallestUserKey > t.start.key THEN it.smallestUserKey ELSE t.start.key

RECURSIVE SeekLevelsGE(_, _, _, _)
SeekLevelsGE(m, key, i, try) ==
    IF i > Len(m.levels) THEN InitMinHeap(m)
    ELSE LET old == m.levels[i].iter
             it == IF m.prefix # Nil THEN IterSeekPrefixGE(old, key, try, m.fp)
                                     ELSE IterSeekGE(old, key)
             n == SetIter(m, i, it)
             t == TombstoneSeekGE(it.rd, key, m.snapshot)
         IN  IF it.rd = <<>> THEN SeekLevelsGE(n, key, i + 1, try)
             ELSE SeekLevelsGE(SeekTombstone(n, i, t),
                      IF ~TombstoneEmpty(t) /\ ContainsKey(t, key) /\ InSmallest(it, key)
                      THEN EndWithin(it, t) ELSE key, i + 1, try)

RECURSIVE SeekLevelsLT(_, _, _)
SeekLevelsLT(m, key, i) ==
    IF i > Len(m.levels) THEN InitMaxHeap(m)
    ELSE LET it == IterSeekLT(m.levels[i].iter, key)
             n == SetIter(m, i, it)
             t == TombstoneSeekLE(it.rd, key, m.snapshot)
         IN  IF it.rd = <<>> THEN SeekLevelsLT(n, key, i + 1)
             ELSE SeekLevelsLT(SeekTombstone(n, i, t),
                      IF ~TombstoneEmpty(t) /\ ContainsKey(t, key) /\ InLargest(it, key)
                      THEN StartWithin(it, t) ELSE key, i + 1)

-----------------------------------------------------------------------------
\* nextEntry and prevEntry: the level at the top moves.
Moved(m, it) ==
    LET i == Top(m)
        n == SetIter(m, i, it)
    IN  IF it.ret # NoEntry THEN HeapFix(n) ELSE HeapPop(n)
NextEntry(m) ==
    LET i == Top(m)
        old == m.levels[i].iter
        it == IterNext(old)
        changed == it.ret # NoEntry /\ <<it.rd, it.iterFile>> # <<old.rd, old.iterFile>>
    IN  IF it.ret = NoEntry /\ IterError(it) THEN [SetIter(m, i, it) EXCEPT !.err = TRUE]
        ELSE InitMinRangeDelIters(Moved(m, it), IF changed THEN i - 1 ELSE i)
PrevEntry(m) ==
    LET i == Top(m)
        old == m.levels[i].iter
        it == IterPrev(old)
        changed == it.ret # NoEntry /\ it.rd # <<>>
                   /\ <<it.rd, it.iterFile>> # <<old.rd, old.iterFile>>
    IN  IF it.ret = NoEntry /\ IterError(it) THEN [SetIter(m, i, it) EXCEPT !.err = TRUE]
        ELSE InitMaxRangeDelIters(Moved(m, it), IF changed THEN i - 1 ELSE i)

\* isNextEntryDeleted from level i on: deleted says whether the top was skipped.
RECURSIVE NextDeleted(_, _)
NextDeleted(m, i) ==
    LET key == TopEntry(m).key
        l == m.levels[i]
        t == IF l.tombstone.end <= key.key THEN TombstoneGE(m, i, key.key) ELSE l.tombstone
        n == SeekTombstone(m, i, t)
    IN  IF i > Top(m) THEN [m |-> m, deleted |-> FALSE]
        ELSE IF l.iter.rd = <<>> \/ TombstoneEmpty(l.tombstone) THEN NextDeleted(m, i + 1)
        ELSE IF TombstoneEmpty(t) \/ ~InSmallest(l.iter, key.key) \/ ~ContainsKey(t, key.key)
        THEN NextDeleted(n, i + 1)
        ELSE IF i < Top(m)
        THEN [m |-> SeekLevelsGE(n, EndWithin(l.iter, t), Top(m), FALSE), deleted |-> TRUE]
        ELSE IF Deletes(t, key.seq) THEN [m |-> NextEntry(n), deleted |-> TRUE]
        ELSE NextDeleted(n, i + 1)

RECURSIVE PrevDeleted(_, _)
PrevDeleted(m, i) ==
    LET key == TopEntry(m).key
        l == m.levels[i]
        t == IF key.key < l.tombstone.start.key THEN TombstoneLE(m, i, key.key) ELSE l.tombstone
        n == SeekTombstone(m, i, t)
    IN  IF i > Top(m) THEN [m |-> m, deleted |-> FALSE]
        ELSE IF l.iter.rd = <<>> \/ TombstoneEmpty(l.tombstone) THEN PrevDeleted(m, i + 1)
        ELSE IF TombstoneEmpty(t) \/ ~InLargest(l.iter, key.key) \/ ~ContainsKey(t, key.key)
        THEN PrevDeleted(n, i + 1)
        ELSE IF i < Top(m)
        THEN [m |-> SeekLevelsLT([n EXCEPT !.prefix = Nil], StartWithin(l.iter, t), Top(m)),
              deleted |-> TRUE]
        ELSE IF Deletes(t, key.seq) THEN [m |-> PrevEntry(n), deleted |-> TRUE]
        ELSE PrevDeleted(n, i + 1)

Shown(m, key) == Visible(key, m.snapshot) /\ (key.kind # KindRangeDelete \/ ~m.elide)
Stuck(m) == m.heap = <<>> \/ m.err \/ m.levels[Top(m)].iter.synth

RECURSIVE MergingFindNext(_)
MergingFindNext(m) ==
    IF Stuck(m) THEN [m EXCEPT !.ret = NoEntry]
    ELSE LET d == NextDeleted(m, 1)
         IN  IF d.deleted THEN MergingFindNext(d.m)
             ELSE IF Shown(d.m, TopEntry(d.m).key) THEN [d.m EXCEPT !.ret = TopEntry(d.m)]
             ELSE MergingFindNext(NextEntry(d.m))

RECURSIVE MergingFindPrev(_)
MergingFindPrev(m) ==
    IF Stuck(m) THEN [m EXCEPT !.ret = NoEntry]
    ELSE LET d == PrevDeleted(m, 1)
         IN  IF d.deleted THEN MergingFindPrev(d.m)
             ELSE IF Shown(d.m, TopEntry(d.m).key) THEN [d.m EXCEPT !.ret = TopEntry(d.m)]
             ELSE MergingFindPrev(PrevEntry(d.m))

-----------------------------------------------------------------------------
Clear(m) == [m EXCEPT !.err = FALSE, !.prefix = Nil]

MergingSeekGE(m, key) == MergingFindNext(SeekLevelsGE(Clear(m), key, 1, FALSE))
MergingSeekPrefixGE(m, prefix, key, try, fp) ==
    MergingFindNext(SeekLevelsGE([Clear(m) EXCEPT !.prefix = prefix, !.fp = fp], key, 1, try))
MergingSeekLT(m, key) == MergingFindPrev(SeekLevelsLT(Clear(m), key, 1))

AllLevels(m, Op(_)) == [m EXCEPT !.levels = [i \in DOMAIN @ |->
                           LET it == Op(@[i].iter) IN [@[i] EXCEPT !.iter = it, !.entry = it.ret]]]
MergingFirst(m) == MergingFindNext(InitMinHeap(AllLevels(Clear(m), IterFirst)))
MergingLast(m) == MergingFindPrev(InitMaxHeap(AllLevels(Clear(m), IterLast)))

RECURSIVE IterNextPast(_, _), IterPrevPast(_, _)
IterNextPast(it, key) ==
    IF it.ret = NoEntry \/ Less(key, it.ret.key) THEN it ELSE IterNextPast(IterNext(it), key)
IterPrevPast(it, key) ==
    IF it.ret = NoEntry \/ Less(it.ret.key, key) THEN it ELSE IterPrevPast(IterPrev(it), key)

\* A level that ran out of the bounds on the other side, or stands at the
\* synthetic key it returned there, starts again from the bound.
AtLowerEnd(m, e, it) == \/ e = NoEntry
                        \/ /\ m.lower # Nil /\ it.synth /\ IsExclusiveSentinel(e.key)
                           /\ e.key.key <= m.lower
AtUpperEnd(m, e, it) == \/ e = NoEntry
                        \/ /\ m.upper # Nil /\ it.synth /\ IsExclusiveSentinel(e.key)
                           /\ e.key.key >= m.upper

SwitchToMinHeap(m) ==
    LET key == TopEntry(m).key
        from(l) == IF AtLowerEnd(m, l.entry, l.iter)
                   THEN IF m.lower # Nil THEN IterSeekGE(l.iter, m.lower) ELSE IterFirst(l.iter)
                   ELSE [l.iter EXCEPT !.ret = l.entry]
        moved(i) == LET l == m.levels[i]
                    IN  IF i = Top(m) THEN IterNext(l.iter) ELSE IterNextPast(from(l), key)
    IN  IF m.heap = <<>>
        THEN IF m.lower # Nil THEN MergingSeekGE(m, m.lower) ELSE MergingFirst(m)
        ELSE InitMinHeap([m EXCEPT !.levels = [i \in DOMAIN @ |->
                 LET it == moved(i) IN [@[i] EXCEPT !.iter = it, !.entry = it.ret]]])

SwitchToMaxHeap(m) ==
    LET key == TopEntry(m).key
        from(l) == IF AtUpperEnd(m, l.entry, l.iter)
                   THEN IF m.upper # Nil THEN IterSeekLT(l.iter, m.upper) ELSE IterLast(l.iter)
                   ELSE [l.iter EXCEPT !.ret = l.entry]
        moved(i) == LET l == m.levels[i]
                    IN  IF i = Top(m) THEN IterPrev(l.iter) ELSE IterPrevPast(from(l), key)
    IN  IF m.heap = <<>>
        THEN IF m.upper # Nil THEN MergingSeekLT(m, m.upper) ELSE MergingLast(m)
        ELSE InitMaxHeap([m EXCEPT !.levels = [i \in DOMAIN @ |->
                 LET it == moved(i) IN [@[i] EXCEPT !.iter = it, !.entry = it.ret]]])

NilMerging(m) == [m EXCEPT !.ret = NoEntry]
MergingNext(m) == IF m.err THEN NilMerging(m)
                  ELSE IF m.dir # 1 THEN MergingFindNext(SwitchToMinHeap(m))
                  ELSE IF m.heap = <<>> THEN NilMerging(m) ELSE MergingFindNext(NextEntry(m))
MergingPrev(m) == IF m.err THEN NilMerging(m)
                  ELSE IF m.dir # -1
                  THEN IF m.prefix # Nil THEN NilMerging([m EXCEPT !.err = TRUE])
                       ELSE MergingFindPrev(SwitchToMaxHeap(m))
                  ELSE IF m.heap = <<>> THEN NilMerging(m) ELSE MergingFindPrev(PrevEntry(m))

MergingError(m) == IF m.heap = <<>> \/ m.err THEN m.err ELSE IterError(m.levels[Top(m)].iter)

MergingSetBounds(m, lower, upper) ==
    [m EXCEPT !.prefix = Nil, !.lower = lower, !.upper = upper, !.heap = <<>>,
              !.levels = [i \in DOMAIN @ |-> [@[i] EXCEPT !.iter = IterSetBounds(@, lower, upper)]]]
=============================================================================
