------------------------------- MODULE Batch -------------------------------
(***************************************************************************)
(* Batch (batch.go), what applying one does to a memtable (mem_table.go),  *)
(* and the flushable batch a large batch becomes.                          *)
(*                                                                         *)
(* data is the sequence of records after the header, and a record's offset *)
(* is its position.  index and rangeDelIndex are the records in the order  *)
(* of the two skiplists of an indexed batch (module SkipList).  A record's *)
(* size is one for the key and one for the value.                          *)
(***************************************************************************)
EXTENDS ListIter

Rec(kind, key, val) == [kind |-> kind, key |-> key, val |-> val]
RecSize(r) == IF HasValue(r.kind) THEN 2 ELSE 1

\* newBatch and newIndexedBatch; hasDB is FALSE for a batch without a DB.
NewBatch(indexed, hasDB) ==
    [data |-> <<>>, seqNum |-> 0, count |-> 0, countRangeDels |-> 0, memTableSize |-> 0,
     indexed |-> indexed, hasDB |-> hasDB, index |-> {}, rangeDelIndex |-> {},
     tombstones |-> <<>>]

\* The internal key of the record at offset i of an uncommitted batch.
BatchKey(b, i) == MakeInternalKey(b.data[i].key, SeqNumBatch + i, b.data[i].kind)

\* prepareDeferredKeyValueRecord and prepareDeferredKeyRecord.
PrepareRecord(b, r) ==
    [b EXCEPT !.data = Append(@, r), !.count = @ + 1, !.memTableSize = @ + RecSize(r)]
\* DeferredBatchOp.Finish, for a point record.
Finish(b) == [b EXCEPT !.index = IF b.indexed THEN @ \cup {Len(b.data)} ELSE @]

BatchSet(b, key, val) == Finish(PrepareRecord(b, Rec(KindSet, key, val)))
BatchMerge(b, key, val) == Finish(PrepareRecord(b, Rec(KindMerge, key, val)))
BatchDelete(b, key) == Finish(PrepareRecord(b, Rec(KindDelete, key, Nil)))
BatchSingleDelete(b, key) == Finish(PrepareRecord(b, Rec(KindSingleDelete, key, Nil)))

\* The range index is only added to by Finish; the fragments are dropped first.
IndexRangeDel(b, i) ==
    IF b.indexed THEN [b EXCEPT !.tombstones = <<>>, !.rangeDelIndex = @ \cup {i}] ELSE b
BatchDeleteRange(b, start, end) ==
    LET p == PrepareRecord(b, Rec(KindRangeDelete, start, end))
    IN  IndexRangeDel([p EXCEPT !.countRangeDels = @ + 1], Len(p.data))

\* LogData is in the WAL record only: count and memTableSize are put back.
BatchLogData(b, data) ==
    [PrepareRecord(b, Rec(KindLogData, data, Nil))
        EXCEPT !.count = b.count, !.memTableSize = b.memTableSize]

\* The call a record stands for.
BatchOp(b, r) == CASE r.kind = KindSet -> BatchSet(b, r.key, r.val)
                   [] r.kind = KindMerge -> BatchMerge(b, r.key, r.val)
                   [] r.kind = KindDelete -> BatchDelete(b, r.key)
                   [] r.kind = KindSingleDelete -> BatchSingleDelete(b, r.key)
                   [] r.kind = KindRangeDelete -> BatchDeleteRange(b, r.key, r.val)
                   [] r.kind = KindLogData -> BatchLogData(b, r.key)

\* Apply one record of another batch: every record is indexed and sized.
ApplyRecord(b, i) ==
    LET r == b.data[i]
        c == [b EXCEPT !.countRangeDels = IF r.kind = KindRangeDelete THEN @ + 1 ELSE @,
                       !.memTableSize = @ + RecSize(r)]
    IN  IF ~b.hasDB /\ ~b.indexed THEN b
        ELSE IF r.kind = KindRangeDelete THEN IndexRangeDel(c, i)
        ELSE [c EXCEPT !.index = IF b.indexed THEN @ \cup {i} ELSE @]
BatchApply(b, other) ==
    LET n == Len(b.data)
        grown == [b EXCEPT !.data = @ \o other.data, !.count = @ + other.count]
    IN  FoldLeft(ApplyRecord, grown, [i \in DOMAIN other.data |-> n + i])

\* SetRepr, of the data and the count of another batch's Repr.
Repr(b) == [data |-> b.data, count |-> b.count, seqNum |-> b.seqNum]
RefreshMemTableSize(b) ==
    [b EXCEPT !.memTableSize = FoldLeft(LAMBDA n, r : n + RecSize(r), 0, b.data),
              !.countRangeDels = Len(SelectSeq(b.data, LAMBDA r : r.kind = KindRangeDelete))]
SetRepr(b, repr) ==
    LET s == [b EXCEPT !.data = repr.data, !.count = repr.count, !.seqNum = repr.seqNum]
    IN  IF b.hasDB THEN RefreshMemTableSize(s) ELSE s

\* The records of an index in key order, the newest first.
Ordered(b, index) ==
    Sorted(index, LAMBDA i, j : Less(BatchKey(b, i), BatchKey(b, j)))
BatchEntries(b) ==
    LET o == Ordered(b, b.index)
    IN  [n \in DOMAIN o |-> [ikey |-> BatchKey(b, o[n]), val |-> b.data[o[n]].val]]

\* newRangeDelIter: the fragments are computed once and kept until the next
\* range deletion.
FragmentTombstones(b) ==
    LET o == Ordered(b, b.rangeDelIndex)
        list == [n \in DOMAIN o |-> MakeTombstone(BatchKey(b, o[n]), b.data[o[n]].val)]
    IN  IF b.tombstones # <<>> THEN b ELSE [b EXCEPT !.tombstones = Fragment(list)]

-----------------------------------------------------------------------------
(* memTable.  points and rangeDels are the contents of its two skiplists;  *)
(* frags is the cache of fragmented tombstones, whose races are module     *)
(* SkipList's.                                                             *)

NewMemTable(logSeqNum) == [kind |-> "mem", entries |-> <<>>, rangeDels |-> {},
                           tombstones |-> <<>>, logSeqNum |-> logSeqNum, err |-> FALSE]

SortEntries(s) == SortSeq(s, LAMBDA a, b : Less(a.ikey, b.ikey))

\* The loop of apply: seqNum does not advance past a LogData record.
ApplyStep(a, r) ==
    LET ik == MakeInternalKey(r.key, a.seqNum, r.kind)
    IN  CASE r.kind = KindRangeDelete ->
                 [a EXCEPT !.dels = @ \cup {MakeTombstone(ik, r.val)}, !.seqNum = @ + 1]
          [] r.kind = KindLogData -> a
          [] OTHER -> [a EXCEPT !.adds = Append(@, [ikey |-> ik, val |-> r.val]),
                                !.seqNum = @ + 1]
MemTableApply(m, b, seqNum) ==
    LET a == FoldLeft(ApplyStep, [adds |-> <<>>, dels |-> {}, seqNum |-> seqNum], b.data)
        dels == m.rangeDels \cup a.dels
    IN  IF seqNum < m.logSeqNum THEN [m EXCEPT !.err = TRUE]
        ELSE [m EXCEPT !.entries = SortEntries(@ \o a.adds), !.rangeDels = dels,
                       !.tombstones = IF a.dels = {} THEN @ ELSE Fragment(SetToSeq(dels)),
                       !.err = @ \/ a.seqNum # seqNum + b.count]

-----------------------------------------------------------------------------
(* flushableBatch.  A record's index is its ordinal in the batch.          *)

NewFlushableBatch(b) ==
    LET keyOf(i) == MakeInternalKey(b.data[i].key, b.seqNum + i - 1, b.data[i].kind)
        dels == {i \in DOMAIN b.data : b.data[i].kind = KindRangeDelete}
        offsets == Sorted(DOMAIN b.data \ dels,
                           LAMBDA i, j : Less(keyOf(i), keyOf(j)))
    IN  [kind |-> "flushable", err |-> FALSE, logSeqNum |-> b.seqNum, rangeDels |-> {},
         entries |-> [n \in DOMAIN offsets |-> [ikey |-> keyOf(offsets[n]),
                                                val |-> b.data[offsets[n]].val]],
         tombstones |-> Fragment(SetToSeq({MakeTombstone(keyOf(i), b.data[i].val) : i \in dels}))]

\* setSeqNum: the keys of the entries are computed from it, the fragments are
\* rewritten.
SetSeqNum(f, seqNum) ==
    [f EXCEPT !.logSeqNum = seqNum,
              !.entries = [i \in DOMAIN @ |-> [@[i] EXCEPT !.ikey.seq = @ + seqNum]],
              !.tombstones = [i \in DOMAIN @ |-> [@[i] EXCEPT !.start.seq = @ + seqNum]]]
=============================================================================
