-------------------------------- MODULE MCLsm -------------------------------
(* Instances of Lsm for TLC, with the algorithms of Batch, UserIter and    *)
(* Compaction.                                                             *)
EXTENDS Lsm, Compaction

B == INSTANCE Batch

\* A batch is filled part by part: the first record by record, the others by
\* applying a batch to it, and committed through its representation.
PartOf(recs) == FoldLeft(B!BatchOp, B!NewBatch(FALSE, TRUE), recs)
MakeBatch(parts) ==
    LET b == FoldLeft(LAMBDA x, recs : B!BatchApply(x, PartOf(recs)), PartOf(Head(parts)), Tail(parts))
    IN  B!SetRepr(B!NewBatch(FALSE, TRUE), B!Repr(b))

MCRotated(queue, seq) == Append(queue, B!NewMemTable(seq))
MCCommitted(queue, batch, seq) ==
    LET b == MakeBatch(batch.parts)
        mem == B!MemTableApply(Last(queue), b, seq)
    IN  IF batch.large
        THEN [queue |-> queue \o <<B!SetSeqNum(B!NewFlushableBatch(b), seq), B!NewMemTable(seq + b.count)>>,
              seqNum |-> seq + b.count, err |-> FALSE]
        ELSE [queue |-> Append(Front(queue), mem), seqNum |-> seq + b.count, err |-> mem.err]

MCFlushOf(v, baseLevel, in) ==
    LET result == RunCompaction(v, NewFlush(v, baseLevel, in[1]), in[2]) IN result
MCCompactionOf(v, pc, snaps) ==
    LET result == RunCompaction(v, NewCompactionOf(v, pc), snaps) IN result

RECURSIVE Walk(_, _)
Walk(d, forward) ==
    IF ~d.valid THEN <<>>
    ELSE <<<<d.key, d.value>>>> \o Walk(IF forward THEN IteratorNext(d) ELSE IteratorPrev(d), forward)
MCScan(queue, levels, s) ==
    LET d == NewIter(<<>>, queue, levels, s, Nil, Nil)
    IN  <<Walk(IteratorFirst(d), TRUE), Walk(IteratorLast(d), FALSE)>>
MCGot(queue, levels, s, k) == LET g == Get(NewGetIter(<<>>, queue, levels, s, k)) IN g

R(kind, key, val) == [kind |-> kind, key |-> key, val |-> val]
Set(k, v) == R(KindSet, k, v)
Merge(k, v) == R(KindMerge, k, v)
Delete(k) == R(KindDelete, k, Nil)
SingleDelete(k) == R(KindSingleDelete, k, Nil)
DeleteRange(k, end) == R(KindRangeDelete, k, end)
LogData == R(KindLogData, 10, Nil)
Small(recs) == [parts |-> <<recs>>, large |-> FALSE]
Large(recs) == [parts |-> <<recs>>, large |-> TRUE]

MCTableOptions == [blockSize |-> 2, indexBlockSize |-> 2, restartInterval |-> 2, filter |-> FALSE]

\* Values overwritten and merged under a tombstone that spans tables; single
\* deletes over a snapshot; a large batch.
MCScripts ==
    {<< Small(<<Set(11, 1), Set(13, 2), Set(22, 3)>>),
        [parts |-> << <<Merge(13, 4), LogData>>, <<DeleteRange(12, 24), Set(24, 5)>> >>, large |-> FALSE],
        Large(<<Set(13, 6), Delete(11), Merge(22, 7)>>) >>,
     << Large(<<Set(11, 1), Merge(12, 2), Set(21, 3)>>),
        Small(<<SingleDelete(11), DeleteRange(12, 22)>>),
        Small(<<Merge(12, 4), Merge(12, 5), Delete(21)>>) >>}
MCManualRanges == {[level |-> 0, start |-> 11, end |-> 31]}
=============================================================================
