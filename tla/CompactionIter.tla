--------------------------- MODULE CompactionIter ---------------------------
(***************************************************************************)
(* compactionIter (compaction_iter.go): the entries of the inputs of a     *)
(* compaction, collapsed.  Snapshots cut the versions of a key into        *)
(* stripes; inside a stripe the newest version counts.  Range tombstones   *)
(* are returned as they come, and the fragmenter the compaction adds them  *)
(* to says what they delete.                                               *)
(*                                                                         *)
(* inuse is the set of key ranges that tables below the output cover, and  *)
(* elide is FALSE while memtables are flushed.  The chunks the fragmenter  *)
(* emitted are in frag.out until Tombstones takes them.                    *)
(***************************************************************************)
EXTENDS UserIter

(* Mutant: an entry written right after a snapshot counts as visible in it. *)
SnapshotIndexBelow(seq, snapshots) == Len(SelectSeq(snapshots, LAMBDA s : s < seq))
SnapshotIndex(seq, snapshots) == Len(SelectSeq(snapshots, LAMBDA s : s <= seq))
SnapshotAbove(seq, snapshots) ==
    LET n == SnapshotIndex(seq, snapshots)
    IN  IF n = Len(snapshots) THEN SeqNumMax ELSE snapshots[n + 1]

\* elideTombstone and elideRangeTombstone of the compaction.
ElideTombstone(i, key) == i.elide /\ \A r \in i.inuse : key < r[1] \/ r[2] < key
ElideRangeTombstone(elide, inuse, start, end) ==
    elide /\ \A r \in inuse : r[2] < start \/ end < r[1]

NewCompactionIter(iter, snapshots, elide, inuse, allowZeroSeqNum) ==
    [iter |-> iter, entry |-> NoEntry, snapshots |-> snapshots, elide |-> elide,
     inuse |-> inuse, allowZeroSeqNum |-> allowZeroSeqNum, frag |-> NewFragmenter,
     key |-> NoKey, value |-> Nil, valid |-> FALSE, skip |-> FALSE, pos |-> "next",
     idx |-> 0, change |-> "newStripe", err |-> FALSE]

AtEntry(i, m) ==
    [i EXCEPT !.iter = m, !.entry = m.ret,
              !.idx = IF m.ret = NoEntry THEN @ ELSE SnapshotIndex(m.ret.key.seq, i.snapshots)]
StripeOf(i) == SnapshotAbove(i.entry.key.seq, i.snapshots)
DeletedByRange(i) == FragDeleted(i.frag, i.entry.key, StripeOf(i))
\* The iterator after it asked the fragmenter about its entry.
Asked(i) == [i EXCEPT !.frag = AskedDeleted(@, i.entry.key)]

NextInStripe(i) ==
    LET n == AtEntry(i, MergingNext(i.iter))
        same == n.entry # NoEntry /\ n.entry.key.key = i.key.key /\ n.idx = i.idx
        sentinel == n.entry # NoEntry /\ IsExclusiveSentinel(n.entry.key)
    IN  [n EXCEPT !.err = @ \/ sentinel,
                  !.change = IF ~same THEN "newStripe"
                             ELSE IF n.entry.key.kind = KindRangeDelete THEN "sameStripeNonSkippable"
                             ELSE "sameStripeSkippable"]

RECURSIVE SkipOn(_)
SkipOn(i) == LET n == NextInStripe(i) IN IF n.change = "sameStripeSkippable" THEN SkipOn(n) ELSE n
SkipInStripe(i) == LET n == SkipOn([i EXCEPT !.skip = TRUE])
                   IN  [n EXCEPT !.skip = n.change # "newStripe"]

SaveKey(i) == [i EXCEPT !.key = i.entry.key]
ReturnKey(i) == [SaveKey(i) EXCEPT !.value = i.entry.val, !.valid = TRUE]
MaybeZeroSeqnum(i, idx) ==
    [i EXCEPT !.key.seq = IF i.allowZeroSeqNum /\ idx = 0 THEN 0 ELSE @]
InvalidKind(i) == [i EXCEPT !.err = TRUE, !.valid = FALSE]

\* mergeNext, with the operands merged so far in value.
RECURSIVE MergeInStripe(_)
MergeInStripe(i) ==
    LET m == NextInStripe(i)
        kind == m.entry.key.kind
        asks == m.change = "sameStripeSkippable" /\ kind \in {KindSet, KindMerge}
        n == IF asks THEN Asked(m) ELSE m
        asSet == [n EXCEPT !.key.kind = KindSet, !.skip = TRUE]
        merged == [n EXCEPT !.value = Concat(n.entry.val, @)]
    IN  IF n.change # "sameStripeSkippable" THEN [n EXCEPT !.pos = "next"]
        ELSE CASE kind = KindDelete -> asSet
               [] kind = KindSet -> IF DeletedByRange(n) THEN asSet
                                    ELSE [asSet EXCEPT !.value = merged.value]
               [] kind = KindMerge -> IF DeletedByRange(n) THEN asSet ELSE MergeInStripe(merged)
               [] OTHER -> InvalidKind(n)

\* singleDeleteNext: valid is FALSE when the SINGLEDEL and a SET cancelled out.
RECURSIVE SingleDeleteNext(_)
SingleDeleteNext(i) ==
    LET n == NextInStripe(i)
        kind == n.entry.key.kind
    IN  IF n.change # "sameStripeSkippable" THEN [n EXCEPT !.pos = "next"]
        ELSE CASE kind \in {KindDelete, KindMerge} ->
                      [n EXCEPT !.key.kind = KindDelete, !.skip = TRUE]
               [] kind = KindSet -> [NextInStripe(n) EXCEPT !.valid = FALSE]
               [] kind = KindSingleDelete -> SingleDeleteNext(n)
               [] OTHER -> InvalidKind(n)

\* The loop of Next.
RECURSIVE CompactNext(_)
CompactNext(at) ==
    LET kind == at.entry.key.kind
        i == IF at.entry = NoEntry \/ kind = KindRangeDelete THEN at ELSE Asked(at)
        single == SingleDeleteNext(ReturnKey(i))
        merged == MergeInStripe(ReturnKey(i))
    IN  IF at.entry = NoEntry THEN i
        ELSE IF kind = KindRangeDelete THEN ReturnKey(i)
        ELSE IF DeletedByRange(i) \/ (IsDeletion(kind) /\ i.idx = 0 /\ ElideTombstone(i, i.entry.key.key))
        THEN CompactNext(SkipInStripe(SaveKey(i)))
        ELSE CASE kind = KindDelete -> [ReturnKey(i) EXCEPT !.skip = TRUE]
               [] kind = KindSingleDelete -> IF single.valid \/ single.err THEN single
                                             ELSE CompactNext(single)
               [] kind = KindSet -> MaybeZeroSeqnum([ReturnKey(i) EXCEPT !.skip = TRUE], i.idx)
               [] kind = KindMerge ->
                      IF merged.err \/ merged.change = "sameStripeNonSkippable" THEN merged
                      ELSE MaybeZeroSeqnum(merged, i.idx)
               [] OTHER -> InvalidKind(i)

CompactionIterNext(i) ==
    LET n == IF i.pos = "next" THEN i
             ELSE IF i.skip THEN SkipInStripe(i) ELSE NextInStripe(i)
    IN  IF i.err THEN [i EXCEPT !.valid = FALSE]
        ELSE CompactNext([n EXCEPT !.pos = "cur", !.valid = FALSE])
CompactionIterFirst(i) == CompactionIterNext([AtEntry(i, MergingFirst(i.iter)) EXCEPT !.pos = "next"])

\* emitRangeDelChunk: the newest tombstone of each stripe, until one of the
\* last stripe is elided.
RECURSIVE KeepByStripe(_, _, _)
KeepByStripe(i, chunk, stripe) ==
    IF chunk = <<>> THEN <<>>
    ELSE LET t == Head(chunk)
             idx == SnapshotIndex(t.start.seq, i.snapshots)
         IN  IF idx = stripe THEN KeepByStripe(i, Tail(chunk), stripe)
             ELSE IF idx = 0 /\ ElideRangeTombstone(i.elide, i.inuse, t.start.key, t.end) THEN <<>>
             ELSE IF idx = 0 THEN <<t>>
             ELSE <<t>> \o KeepByStripe(i, Tail(chunk), idx)
PendingTombstones(i) ==
    FlattenSeq([n \in DOMAIN i.frag.out |-> KeepByStripe(i, i.frag.out[n], -1)])

\* Tombstones: what is flushed up to key is in frag.out afterwards.
FlushTombstones(i, key, exclude) ==
    [i EXCEPT !.frag = IF key = Nil THEN FragFinish(@)
                       ELSE IF exclude THEN TruncateAndFlushTo(@, key) ELSE FlushTo(@, key)]
TakeTombstones(i) == [i EXCEPT !.frag.out = <<>>]
=============================================================================
