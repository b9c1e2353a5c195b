------------------------------- MODULE Table --------------------------------
(***************************************************************************)
(* Writing a table (sstable/writer.go): point keys go to data blocks,      *)
(* range tombstones to a block of their own, each finished data block gets *)
(* an index entry, and an index that outgrows its block is split into      *)
(* partitions below a top-level index.                                     *)
(*                                                                         *)
(* The file is the sequence of its blocks: a block handle is the number    *)
(* of a data block, or of an index partition.  An entry has size one, so   *)
(* a block size counts entries; compression, checksums, the properties     *)
(* and metaindex blocks and the footer are left out.                       *)
(***************************************************************************)
EXTENDS Block

\* NewWriter; o has blockSize, indexBlockSize, restartInterval and filter.
NewWriter(o) ==
    [opts |-> o, block |-> NewBlockWriter(o.restartInterval),
     indexBlock |-> NewBlockWriter(1), rangeDelBlock |-> NewBlockWriter(1),
     indexPartitions |-> <<>>, blocks |-> <<>>, twoLevelIndex |-> FALSE,
     filter |-> {}, err |-> FALSE,
     numEntries |-> 0, numDeletions |-> 0, numRangeDeletions |-> 0,
     smallestPoint |-> NoKey, largestPoint |-> NoKey,
     smallestRange |-> NoKey, largestRange |-> NoKey,
     smallestSeqNum |-> SeqNumMax, largestSeqNum |-> 0]

UpdateSeqNum(w, seq) ==
    [w EXCEPT !.smallestSeqNum = IF @ > seq THEN seq ELSE @,
              !.largestSeqNum = IF @ < seq THEN seq ELSE @]

\* Writer.Metadata's bounds over points and ranges.
SmallestOf(m) == IF m.smallestPoint = NoKey THEN m.smallestRange
                 ELSE IF m.smallestRange = NoKey THEN m.smallestPoint
                 ELSE IF Less(m.smallestPoint, m.smallestRange) THEN m.smallestPoint
                                                                ELSE m.smallestRange
LargestOf(m) == IF m.largestPoint = NoKey THEN m.largestRange
                ELSE IF m.largestRange = NoKey THEN m.largestPoint
                ELSE IF Less(m.largestRange, m.largestPoint) THEN m.largestPoint
                                                             ELSE m.largestRange

\* EstimatedSize counts the points written so far.
EstimatedSize(w) == w.numEntries - w.numRangeDeletions

ShouldFlush(b, size) == NEntries(b) > 0 /\ NEntries(b) >= size

FinishIndexBlock(w) == [w EXCEPT !.indexPartitions = Append(@, w.indexBlock),
                                 !.indexBlock = NewBlockWriter(1)]

\* key = NoKey after the last block.
AddIndexEntry(w, key, bh) ==
    LET prev == DecodeInternalKey(w.block.curKey)
        sep == IF key = NoKey THEN Successor(prev) ELSE Separator(prev, key)
        v == IF ShouldFlush(w.indexBlock, w.opts.indexBlockSize)
             THEN [FinishIndexBlock(w) EXCEPT !.twoLevelIndex = TRUE] ELSE w
    IN  [v EXCEPT !.indexBlock = AddEntry(@, sep, bh)]

\* finish keeps curKey and resets the rest of the block writer.
WriteDataBlock(w, key) ==
    LET v == [w EXCEPT !.blocks = Append(@, FinishBlock(w.block))]
    IN  [AddIndexEntry(v, key, Len(v.blocks)) EXCEPT
            !.block = [NewBlockWriter(w.opts.restartInterval) EXCEPT !.curKey = w.block.curKey]]

AddPoint(w, ik, value) ==
    IF Less(ik, w.largestPoint) THEN [w EXCEPT !.err = TRUE]
    ELSE LET v == IF ShouldFlush(w.block, w.opts.blockSize) THEN WriteDataBlock(w, ik) ELSE w
         IN  UpdateSeqNum([v EXCEPT !.block = AddEntry(@, ik, value),
                      !.filter = @ \cup {Prefix(ik.key)},
                      !.smallestPoint = IF w.numEntries = 0 THEN ik ELSE @,
                      !.largestPoint = ik,
                      !.numEntries = @ + 1,
                      !.numDeletions = IF ik.kind = KindDelete THEN @ + 1 ELSE @], ik.seq)

\* addTombstone: tombstones come fragmented, by start key and, for the same
\* span, by descending sequence number.
AddTombstone(w, ik, end) ==
    LET prev == DecodeInternalKey(w.rangeDelBlock.curKey)
        misplaced == /\ NEntries(w.rangeDelBlock) > 0
                     /\ \/ prev.key > ik.key
                        \/ prev.key = ik.key /\ (w.rangeDelBlock.curValue # end \/ prev.seq <= ik.seq)
                        \/ prev.key < ik.key /\ w.rangeDelBlock.curValue > ik.key
    IN  IF misplaced \/ IsExclusiveSentinel(ik) THEN [w EXCEPT !.err = TRUE]
        ELSE UpdateSeqNum([w EXCEPT !.rangeDelBlock = AddEntry(@, ik, end),
                      !.smallestRange = IF w.numRangeDeletions = 0 THEN ik ELSE @,
                      !.numEntries = @ + 1, !.numDeletions = @ + 1,
                      !.numRangeDeletions = @ + 1], ik.seq)

\* Writer.Add.
AddToTable(w, ik, value) ==
    IF w.err THEN w
    ELSE IF ik.kind = KindRangeDelete THEN AddTombstone(w, ik, value) ELSE AddPoint(w, ik, value)

\* writeTwoLevelIndex: the separator of a partition is its last key.
RECURSIVE TopLevelIndex(_, _, _)
TopLevelIndex(parts, n, top) ==
    IF n > Len(parts) THEN FinishBlock(top)
    ELSE TopLevelIndex(parts, n + 1, AddEntry(top, DecodeInternalKey(parts[n].curKey), n))

\* Close; a table without points has one empty data block.
LastBlock(w) == IF NEntries(w.block) > 0 \/ NEntries(w.indexBlock) = 0 THEN WriteDataBlock(w, NoKey)
                ELSE w
LastPartition(w) == IF w.twoLevelIndex THEN FinishIndexBlock(w) ELSE w
LastRange(w) == [w EXCEPT !.largestRange = IF w.numRangeDeletions > 0
                                           THEN MakeRangeDeleteSentinelKey(w.rangeDelBlock.curValue)
                                           ELSE NoKey]
Finished(w, globalSeqNum) ==
    [blocks |-> w.blocks,
     twoLevel |-> w.twoLevelIndex,
     index |-> IF w.twoLevelIndex THEN TopLevelIndex(w.indexPartitions, 1, NewBlockWriter(1))
                                  ELSE FinishBlock(w.indexBlock),
     parts |-> [n \in DOMAIN w.indexPartitions |-> FinishBlock(w.indexPartitions[n])],
     filter |-> w.filter, filtered |-> w.opts.filter,
     rangeDel |-> FinishBlock(w.rangeDelBlock), err |-> w.err,
     meta |-> [smallestPoint |-> w.smallestPoint, largestPoint |-> w.largestPoint,
               smallestRange |-> w.smallestRange, largestRange |-> w.largestRange],
     smallestSeqNum |-> w.smallestSeqNum, largestSeqNum |-> w.largestSeqNum,
     numEntries |-> w.numEntries, numDeletions |-> w.numDeletions,
     numRangeDeletions |-> w.numRangeDeletions,
     globalSeqNum |-> globalSeqNum]
CloseTable(w, globalSeqNum) == Finished(LastRange(LastPartition(LastBlock(w))), globalSeqNum)

RECURSIVE AddAll(_, _)
AddAll(w, entries) ==
    IF entries = <<>> THEN w
    ELSE AddAll(AddToTable(w, Head(entries).ikey, Head(entries).val), Tail(entries))

\* The table written from a sequence of entries in order.
BuildTable(o, entries, globalSeqNum) == CloseTable(AddAll(NewWriter(o), entries), globalSeqNum)
=============================================================================
