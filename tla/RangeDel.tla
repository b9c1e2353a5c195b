------------------------------ MODULE RangeDel ------------------------------
(***************************************************************************)
(* Range tombstones (internal/rangedel).  A tombstone deletes the user     *)
(* keys of [start.key, end) below its sequence number.  A list of          *)
(* fragmented tombstones is a sequence ordered by start, in which          *)
(* tombstones that overlap have the same start key and the same end key.   *)
(* A position in it runs from 0, before the first, to Len + 1.             *)
(***************************************************************************)
EXTENDS InternalKeys, FiniteSetsExt, SequencesExt

MakeTombstone(start, end) == [start |-> start, end |-> end]
EmptyTombstone == MakeTombstone(NoKey, Nil)

TombstoneEmpty(t) == t.start.kind # KindRangeDelete
ContainsKey(t, key) == t.start.key <= key /\ key < t.end
Deletes(t, seq) == ~TombstoneEmpty(t) /\ t.start.seq > seq

-----------------------------------------------------------------------------
(* Searching a list of fragmented tombstones (iter.go, seek.go, get.go).   *)

\* Iter.SeekLT: the binary search, as what it finds.
RangeDelSeekLT(ts, key) ==
    Max({i \in DOMAIN ts : Less(ts[i].start, MakeSearchKey(key))} \cup {0})

FirstVisible(ts, from, snapshot) ==
    Min({i \in from..Len(ts) : Visible(ts[i].start, snapshot)} \cup {Len(ts) + 1})
At(ts, i) == IF i \in DOMAIN ts THEN ts[i] ELSE EmptyTombstone

\* The newest visible tombstone with the bounds of ts[p]: stepping back ends at
\* a tombstone that lies before key or is not visible.
BackUp(ts, p, key, snapshot) ==
    Min({i \in 1..p : \A j \in i..(p - 1) : ts[j].end > key /\ Visible(ts[j].start, snapshot)})

TombstoneSeekGE(ts, key, snapshot) ==
    LET p == RangeDelSeekLT(ts, key)
        from == IF p > 0 /\ key < ts[p].end THEN BackUp(ts, p, ts[p].start.key, snapshot)
                                             ELSE p + 1
    IN  At(ts, FirstVisible(ts, from, snapshot))

\* The visible tombstones from position p on that start at or before key.
VisibleAt(ts, p, key, snapshot) ==
    {i \in p..Len(ts) : ts[i].start.key <= key /\ Visible(ts[i].start, snapshot)}
NotVisibleAt(ts, p, key) == {i \in p..Len(ts) : ts[i].start.key <= key}

TombstoneSeekLE(ts, key, snapshot) ==
    LET p == RangeDelSeekLT(ts, key)
        forward == IF p = 0 \/ key >= ts[p].end THEN VisibleAt(ts, p + 1, key, snapshot) ELSE {}
        back == Max({i \in 1..Max({p} \cup NotVisibleAt(ts, p + 1, key)) :
                        Visible(ts[i].start, snapshot)} \cup {0})
        newest == Min({i \in 1..back : \A j \in i..back :
                        ts[j].start.key = ts[back].start.key /\ Visible(ts[j].start, snapshot)})
    IN  IF forward # {} THEN ts[Min(forward)]
        ELSE IF p = 0 \/ back = 0 THEN EmptyTombstone ELSE ts[newest]

TombstoneGet(ts, key, snapshot) ==
    LET p == RangeDelSeekLT(ts, key)
        q == IF p > 0 THEN p ELSE 1
        after == Min({i \in (q + 1)..Len(ts) : key < ts[i].end \/ key < ts[i].start.key}
                     \cup {Len(ts) + 1})
        from == IF key < ts[q].end THEN BackUp(ts, q, key, snapshot) ELSE after
        found == Min({i \in from..Len(ts) : \/ key < ts[i].start.key
                                            \/ Visible(ts[i].start, snapshot)} \cup {Len(ts) + 1})
    IN  IF q > Len(ts) \/ key < ts[q].start.key \/ key < At(ts, found).start.key
        THEN EmptyTombstone ELSE At(ts, found)

\* rangedel.Truncate.  A start or end bound of NoKey stands for a nil pointer.
Truncate(ts, lower, upper, start, end) ==
    LET inside(t) == /\ start # NoKey => t.end > start.key
                     /\ end # NoKey => LessEq(t.start, end)
        clip(t) == MakeTombstone([t.start EXCEPT !.key = IF @ < lower THEN lower ELSE @],
                                 IF t.end > upper THEN upper ELSE t.end)
        kept == SelectSeq(ts, inside)
    IN  SelectSeq([i \in DOMAIN kept |-> clip(kept[i])], LAMBDA t : t.start.key < t.end)

-----------------------------------------------------------------------------
(* Fragmenter.  out is the sequence of chunks given to Emit; panic records *)
(* that a method was called out of order.                                  *)

NewFragmenter == [pending |-> <<>>, flushedKey |-> Nil, finished |-> FALSE, panic |-> FALSE,
                  out |-> <<>>]

BySeqNum(chunk) == SortSeq(chunk, LAMBDA a, b : a.start.seq > b.start.seq)
ByEndKey(buf) == SortSeq(buf, LAMBDA a, b : a.end < b.end)
\* rangedel.Sort.
ByStartKey(buf) == SortSeq(buf, LAMBDA a, b : Less(a.start, b.start))

\* flush: the chunks of a list of tombstones with one start key, ordered by end.
RECURSIVE FlushChunks(_, _)
FlushChunks(buf, lastKey) ==
    IF buf = <<>> THEN <<>>
    ELSE LET split == Head(buf).end
             chunk == BySeqNum([i \in DOMAIN buf |-> [buf[i] EXCEPT !.end = split]])
             rest == SelectSeq(buf, LAMBDA t : t.end # split)
         IN  <<chunk>> \o IF lastKey # Nil /\ split > lastKey THEN <<>>
                          ELSE FlushChunks([i \in DOMAIN rest |->
                                               [rest[i] EXCEPT !.start.key = split]], lastKey)
FragFlush(f, buf, lastKey) == [f EXCEPT !.out = @ \o FlushChunks(ByEndKey(buf), lastKey)]

\* What is left of the pending tombstones after key.
PendingFrom(buf, key) ==
    LET rest == SelectSeq(buf, LAMBDA t : key < t.end)
    IN  [i \in DOMAIN rest |-> [rest[i] EXCEPT !.start.key = key]]

TruncateAndFlush(f, key) ==
    LET nonempty == SelectSeq(f.pending, LAMBDA t : key >= t.end \/ t.start.key < key)
        done == [i \in DOMAIN nonempty |-> [nonempty[i] EXCEPT !.end = IF key < @ THEN key ELSE @]]
    IN  FragFlush([f EXCEPT !.flushedKey = key, !.pending = PendingFrom(f.pending, key)], done, Nil)

OutOfOrder(f, key) == \/ f.finished \/ key < f.flushedKey
                      \/ f.pending # <<>> /\ Head(f.pending).start.key > key

FragAdd(f, start, end) ==
    LET g == IF f.pending = <<>> \/ Head(f.pending).start.key = start.key THEN f
             ELSE TruncateAndFlush(f, start.key)
    IN  IF f.finished \/ start.key < f.flushedKey THEN [f EXCEPT !.panic = TRUE]
        ELSE IF start.key >= end THEN f
        ELSE IF OutOfOrder(f, start.key) THEN [f EXCEPT !.panic = TRUE]
        ELSE [g EXCEPT !.pending = Append(@, MakeTombstone(start, end))]

\* Deleted: the answer, and the fragmenter afterwards, which panics when it is
\* finished or the key lies before the pending tombstones.
FragDeleted(f, ik, snapshot) ==
    \E i \in DOMAIN f.pending : /\ ik.key < f.pending[i].end
                                /\ Visible(f.pending[i].start, snapshot)
                                /\ f.pending[i].start.seq > ik.seq
AskedDeleted(f, ik) ==
    [f EXCEPT !.panic = @ \/ f.finished \/ (f.pending # <<>> /\ Head(f.pending).start.key > ik.key)]

FragEmpty(f) == f.finished \/ f.pending = <<>>
FragStart(f) == IF f.pending = <<>> THEN Nil ELSE Head(f.pending).start.key

FlushTo(f, key) ==
    IF OutOfOrder(f, key) THEN [f EXCEPT !.panic = TRUE]
    ELSE [FragFlush(f, f.pending, key) EXCEPT !.flushedKey = key,
                                              !.pending = PendingFrom(f.pending, key)]

TruncateAndFlushTo(f, key) ==
    IF OutOfOrder(f, key) THEN [f EXCEPT !.panic = TRUE]
    ELSE IF FragStart(f) = key THEN f ELSE TruncateAndFlush(f, key)

FragFinish(f) == IF f.finished THEN [f EXCEPT !.panic = TRUE]
                 ELSE [FragFlush(f, f.pending, Nil) EXCEPT !.finished = TRUE]

\* Fragmenting a whole list, as batches, memtables and old range-del blocks do.
Fragment(ts) ==
    LET f == FoldLeft(LAMBDA g, t : FragAdd(g, t.start, t.end), NewFragmenter, ByStartKey(ts))
    IN  FlattenSeq(FragFinish(f).out)
=============================================================================
