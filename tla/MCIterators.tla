----------------------------- MODULE MCIterators ----------------------------
(* Instances of Iterators for TLC, with the iterators of UserIter.         *)
EXTENDS Iterators, UserIter

B == INSTANCE Batch

MCOpened(s, b) == LET d == NewIter(s.batch, s.memtables, s.levels, s.seqNum, b[1], b[2]) IN d
MCCalled(d, c) == LET e == IteratorCall(d, c) IN e
MCFailed(d) == LET err == IteratorError(d) IN err
MCGot(s, k) ==
    LET g == Get(NewGetIter(s.batch, s.memtables, s.levels, s.seqNum, k)) IN g

\* A write, a table entry and a tombstone.
W(kind, key, val, seq) == [kind |-> kind, key |-> key, val |-> val, seq |-> seq]
E(w) == [ikey |-> MakeInternalKey(w.key, w.seq, w.kind), val |-> w.val]
T(w) == MakeTombstone(MakeInternalKey(w.key, w.seq, KindRangeDelete), w.val)
SortedPoints(ws) == Sorted({E(w) : w \in {x \in ws : x.kind # KindRangeDelete}},
                                 LAMBDA a, b : Less(a.ikey, b.ikey))
Tombstones(ws) == Fragment(SetToSeq({T(w) : w \in {x \in ws : x.kind = KindRangeDelete}}))

Small == [blockSize |-> 1, indexBlockSize |-> 2, restartInterval |-> 1, filter |-> TRUE]
Large == [blockSize |-> 2, indexBlockSize |-> 9, restartInterval |-> 2, filter |-> FALSE]

MakeFile(o, ws) ==
    LET ts == Tombstones(ws)
        table == BuildTable(o, SortedPoints(ws) \o [i \in DOMAIN ts |->
                                  [ikey |-> ts[i].start, val |-> ts[i].end]], 0)
    IN  [smallest |-> SmallestOf(table.meta), largest |-> LargestOf(table.meta), table |-> table, rangeDels |-> ts]
MakeMem(kind, ws, logSeqNum) == [kind |-> kind, entries |-> SortedPoints(ws),
                                 tombstones |-> Tombstones(ws), logSeqNum |-> logSeqNum]

\* L1: a tombstone [13, 25)#3 cut at 22.
L1a == {W(KindSet, 11, 1, 1), W(KindSet, 13, 2, 2), W(KindRangeDelete, 13, 22, 3)}
L1b == {W(KindRangeDelete, 22, 25, 3), W(KindSet, 24, 3, 1), W(KindSet, 31, 4, 2)}
L0a == {W(KindMerge, 11, 5, 5), W(KindSet, 22, 6, 6), W(KindSingleDelete, 31, Nil, 5),
        W(KindRangeDelete, 11, 13, 7)}
Imm == {W(KindSet, 13, 4, 9), W(KindMerge, 13, 7, 10), W(KindSet, 24, 8, 11), W(KindRangeDelete, 21, 23, 12)}
Mut == {W(KindMerge, 22, 9, 15), W(KindMerge, 24, 1, 16), W(KindDelete, 13, Nil, 17)}

\* An indexed batch: the first records written to it, the last ones applied from
\* another batch after its tombstones were fragmented.
BatchOf(recs) == FoldLeft(B!BatchOp, B!NewBatch(TRUE, TRUE), recs)
Uncommitted ==
    B!BatchApply(B!FragmentTombstones(BatchOf(<<B!Rec(KindSet, 12, 2), B!Rec(KindRangeDelete, 25, 32)>>)),
                 BatchOf(<<B!Rec(KindRangeDelete, 23, 25), B!Rec(KindMerge, 31, 3)>>))
BatchSource(b) == [kind |-> "batch", entries |-> B!BatchEntries(b),
                   tombstones |-> B!FragmentTombstones(b).tombstones, logSeqNum |-> 0]
BatchWrites(b) == {W(b.data[i].kind, b.data[i].key, b.data[i].val, SeqNumBatch + i) : i \in DOMAIN b.data}

MCBuilt(d) ==
    LET file(ws) == MakeFile(d.opts, ws)
    IN  [batch |-> IF d.withBatch THEN <<BatchSource(Uncommitted)>> ELSE <<>>,
         memtables |-> IF d.withMems THEN <<MakeMem("flushable", Imm, 9), MakeMem("mem", Mut, 14)>>
                                     ELSE <<>>,
         levels |-> << <<file(L0a)>>, <<file(L1a), file(L1b)>> >>,
         writes |-> L1a \cup L1b \cup L0a \cup (IF d.withMems THEN Imm \cup Mut ELSE {})
                    \cup (IF d.withBatch THEN BatchWrites(Uncommitted) ELSE {}),
         seqNum |-> d.seqNum, bounds |-> d.bounds, faults |-> d.faults]

Description(opts, seqNum, withMems, withBatch, bounds_, faults) ==
    [opts |-> opts, seqNum |-> seqNum, withMems |-> withMems, withBatch |-> withBatch,
     bounds |-> bounds_, faults |-> faults]
Unbounded == <<Nil, Nil>>
MCStores == {Description(Small, 13, TRUE, FALSE, {Unbounded, <<13, 24>>}, {}),
             Description(Large, 20, TRUE, TRUE, {Unbounded}, {}),
             Description(Small, 20, FALSE, FALSE, {Unbounded},
                         {[files |-> {2}, blocks |-> {}],
                          [files |-> {}, blocks |-> {<<"data", 2>>}]})}
MCKeys == {12, 22, 31}
MCGetKeys == {11, 12, 13, 20, 22, 24, 31, 40}
=============================================================================
