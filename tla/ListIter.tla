------------------------------ MODULE ListIter ------------------------------
(***************************************************************************)
(* Iterators over entries that are in memory: a memtable                   *)
(* (internal/arenaskl/iterator.go), an indexed batch (batch.go over        *)
(* internal/batchskl/iterator.go) and a large batch in the queue of        *)
(* memtables (flushableBatchIter in batch.go).  All three walk an ordered  *)
(* list of entries; pos is 0 at the head of the list and Len + 1 at its    *)
(* tail.  The skiplists that keep the lists ordered are module SkipList.   *)
(*                                                                         *)
(* rd, smallestUserKey, largestUserKey, sentinel and synth are the fields  *)
(* of mergingIterLevel; only a levelIter changes them.                     *)
(***************************************************************************)
EXTENDS RangeDel

NewListIter(kind, entries, tombstones, lower, upper) ==
    [kind |-> kind, entries |-> entries, pos |-> 0, key |-> NoKey, lower |-> lower,
     upper |-> upper, ret |-> NoEntry, err |-> FALSE, rd |-> tombstones, iterFile |-> 0,
     smallestUserKey |-> Nil, largestUserKey |-> Nil, sentinel |-> FALSE, synth |-> FALSE]

Last0(it) == Len(it.entries)
EntryAt(it, p) == [key |-> it.entries[p].ikey, val |-> it.entries[p].val]

\* Standing at p after a forward or a backward move: the bound is checked, and
\* an iterator that left its bounds goes to the end of the list.
LandForward(it, p) ==
    IF p > Last0(it) THEN [it EXCEPT !.pos = Last0(it) + 1, !.ret = NoEntry]
    ELSE LET k == it.entries[p].ikey
         IN  IF it.upper # Nil /\ it.upper <= k.key
             THEN [it EXCEPT !.pos = Last0(it) + 1, !.ret = NoEntry, !.key = k]
             ELSE [it EXCEPT !.pos = p, !.ret = EntryAt(it, p), !.key = k]
LandBackward(it, p) ==
    IF p = 0 THEN [it EXCEPT !.pos = 0, !.ret = NoEntry]
    ELSE LET k == it.entries[p].ikey
         IN  IF it.lower > k.key
             THEN [it EXCEPT !.pos = 0, !.ret = NoEntry, !.key = k]
             ELSE [it EXCEPT !.pos = p, !.ret = EntryAt(it, p), !.key = k]

\* seekForBaseSplice: the last entry before the search key.
SpliceBefore(it, key) ==
    Max({p \in DOMAIN it.entries : Less(it.entries[p].ikey, MakeSearchKey(key))} \cup {0})

-----------------------------------------------------------------------------
(* arenaskl.Iterator.                                                      *)

MemSeekGE(it, key) == LandForward(it, SpliceBefore(it, key) + 1)
MemSeekLT(it, key) == LandBackward(it, SpliceBefore(it, key))
MemFirst(it) == LandForward(it, 1)
MemLast(it) == LandBackward(it, Last0(it))
MemNext(it) == LandForward(it, it.pos + 1)
MemPrev(it) == LandBackward(it, IF it.pos = 0 THEN 0 ELSE it.pos - 1)

NumNexts == 5
RECURSIVE MemStep(_, _, _)
MemStep(it, key, n) ==
    IF it.key.key >= key THEN [it EXCEPT !.ret = EntryAt(it, it.pos)]
    ELSE IF n = NumNexts THEN MemSeekGE(it, key)
    ELSE LET t == MemNext(it) IN IF t.ret = NoEntry THEN t ELSE MemStep(t, key, n + 1)
MemSeekPrefixGE(it, key, trySeekUsingNext) ==
    IF ~trySeekUsingNext THEN MemSeekGE(it, key)
    ELSE IF it.pos > Last0(it) THEN [it EXCEPT !.ret = NoEntry]
    ELSE MemStep(it, key, 0)

-----------------------------------------------------------------------------
(* batchskl.Iterator and batchIter: the index of the batch gives the key   *)
(* and the record in the batch the value.                                  *)

BatchSklSeekGE(it, key) == LandForward(it, SpliceBefore(it, key) + 1)
BatchSklSeekLT(it, key) == LandBackward(it, SpliceBefore(it, key))
BatchSklFirst(it) == LandForward(it, 1)
BatchSklLast(it) == LandBackward(it, Last0(it))
BatchSklNext(it) == LandForward(it, it.pos + 1)
BatchSklPrev(it) == LandBackward(it, IF it.pos = 0 THEN 0 ELSE it.pos - 1)

HasValue(kind) == kind \in {KindSet, KindMerge, KindRangeDelete}
BatchValue(it) == [it EXCEPT !.ret.val = IF HasValue(it.ret.key.kind) THEN @ ELSE Nil]
BatchSeekGE(it, key) == BatchValue(BatchSklSeekGE([it EXCEPT !.err = FALSE], key))
BatchSeekLT(it, key) == BatchValue(BatchSklSeekLT([it EXCEPT !.err = FALSE], key))
BatchFirst(it) == BatchValue(BatchSklFirst([it EXCEPT !.err = FALSE]))
BatchLast(it) == BatchValue(BatchSklLast([it EXCEPT !.err = FALSE]))
BatchNext(it) == BatchValue(BatchSklNext(it))
BatchPrev(it) == BatchValue(BatchSklPrev(it))

-----------------------------------------------------------------------------
(* flushableBatchIter.  An empty list leaves the position alone.           *)

FlushableSeekGE(it, key) == BatchValue(LandForward(it, SpliceBefore(it, key) + 1))
FlushableSeekLT(it, key) == BatchValue(LandBackward(it, SpliceBefore(it, key)))
FlushableFirst(it) == IF it.entries = <<>> THEN [it EXCEPT !.ret = NoEntry]
                      ELSE BatchValue(LandForward(it, 1))
FlushableLast(it) == IF it.entries = <<>> THEN [it EXCEPT !.ret = NoEntry]
                     ELSE BatchValue(LandBackward(it, Last0(it)))
FlushableNext(it) == IF it.pos > Last0(it) THEN [it EXCEPT !.ret = NoEntry]
                     ELSE BatchValue(LandForward(it, it.pos + 1))
FlushablePrev(it) == IF it.pos = 0 THEN [it EXCEPT !.ret = NoEntry]
                     ELSE BatchValue(LandBackward(it, it.pos - 1))

-----------------------------------------------------------------------------
(* rangedel.Iter, whose entries are tombstones: the value is the end key.  *)

NewRangeDelIter(ts) == NewListIter("rangedel", [i \in DOMAIN ts |-> [ikey |-> ts[i].start, val |-> ts[i].end]],
                                   <<>>, Nil, Nil)
RangeDelFirst(it) == LandForward(it, 1)
RangeDelNext(it) == LandForward(it, it.pos + 1)

-----------------------------------------------------------------------------
(* The method of whichever iterator it is.                                 *)

ListSeekGE(it, key) == CASE it.kind = "mem" -> MemSeekGE(it, key)
                         [] it.kind = "batch" -> BatchSeekGE(it, key)
                         [] it.kind = "flushable" -> FlushableSeekGE(it, key)
ListSeekPrefixGE(it, key, trySeekUsingNext) ==
    CASE it.kind = "mem" -> MemSeekPrefixGE(it, key, trySeekUsingNext)
      [] it.kind = "batch" -> BatchSeekGE(it, key)
      [] it.kind = "flushable" -> FlushableSeekGE(it, key)
ListSeekLT(it, key) == CASE it.kind = "mem" -> MemSeekLT(it, key)
                         [] it.kind = "batch" -> BatchSeekLT(it, key)
                         [] it.kind = "flushable" -> FlushableSeekLT(it, key)
ListFirst(it) == CASE it.kind = "mem" -> MemFirst(it)
                   [] it.kind = "batch" -> BatchFirst(it)
                   [] it.kind = "flushable" -> FlushableFirst(it)
                   [] it.kind = "rangedel" -> RangeDelFirst(it)
ListLast(it) == CASE it.kind = "mem" -> MemLast(it)
                  [] it.kind = "batch" -> BatchLast(it)
                  [] it.kind = "flushable" -> FlushableLast(it)
ListNext(it) == CASE it.kind = "mem" -> MemNext(it)
                  [] it.kind = "batch" -> BatchNext(it)
                  [] it.kind = "flushable" -> FlushableNext(it)
                  [] it.kind = "rangedel" -> RangeDelNext(it)
ListPrev(it) == CASE it.kind = "mem" -> MemPrev(it)
                  [] it.kind = "batch" -> BatchPrev(it)
                  [] it.kind = "flushable" -> FlushablePrev(it)
ListSetBounds(it, lower, upper) == [it EXCEPT !.lower = lower, !.upper = upper]
=============================================================================
