----------------------------- MODULE TableIter ------------------------------
(***************************************************************************)
(* Reading a table (sstable/reader.go).  singleLevelIterator finds a data  *)
(* block through the index, twoLevelIterator finds the index through the   *)
(* top-level index, and the compaction iterators are their forward-only    *)
(* variants.  An iterator is a record and each method an operator from     *)
(* records to records; ret is what the method returned.                    *)
(*                                                                         *)
(* bad is the set of blocks that cannot be read at the moment: pairs of    *)
(* "data" or "index" and a block number.                                   *)
(***************************************************************************)
EXTENDS Table

NewTableIter(table, lower, upper) ==
    [table |-> table, lower |-> lower, upper |-> upper, blockLower |-> Nil, blockUpper |-> Nil,
     top |-> IF table.twoLevel THEN InitBlockIter(NewBlockIter, table.index, table.globalSeqNum)
                               ELSE NewBlockIter,
     index |-> IF table.twoLevel THEN NewBlockIter
                                 ELSE InitBlockIter(NewBlockIter, table.index, table.globalSeqNum),
     data |-> NewBlockIter, err |-> FALSE, boundsCmp |-> 0, positioned |-> FALSE,
     exhausted |-> 0, bloomMatched |-> FALSE, bad |-> {}, ret |-> NoEntry]

Return(s, key, val) == [s EXCEPT !.ret = [key |-> key, val |-> val]]
ReturnNil(s) == [s EXCEPT !.ret = NoEntry]
Yield(s) == Return(s, s.data.ikey, s.data.val)

\* The entry the data block stands at, unless a bound excludes it.
YieldForward(s) ==
    IF s.blockUpper # Nil /\ s.data.ikey.key >= s.blockUpper
    THEN ReturnNil([s EXCEPT !.exhausted = 1]) ELSE Yield(s)
YieldBackward(s) ==
    IF s.blockLower # Nil /\ s.data.ikey.key < s.blockLower
    THEN ReturnNil([s EXCEPT !.exhausted = -1]) ELSE Yield(s)

\* initBounds and initBoundsForAlreadyLoadedBlock.
BlockBounds(s, first) ==
    [s EXCEPT !.blockLower = IF first.key # Nil /\ s.lower < first.key THEN Nil ELSE s.lower,
              !.blockUpper = IF s.upper > s.index.ikey.key THEN Nil ELSE s.upper]
InitBounds(s) ==
    LET d == IF s.lower # Nil THEN BlockFirst(s.data) ELSE s.data
    IN  BlockBounds([s EXCEPT !.data = d], IF Valid(d) THEN d.ikey ELSE NoKey)

\* loadBlock succeeded iff the data iterator holds a block afterwards.
LoadBlock(s) ==
    LET v == [s EXCEPT !.data = Invalidate(@)]
        bh == s.index.val
    IN  IF ~Valid(s.index) THEN v
        ELSE IF <<"data", bh>> \in s.bad THEN [v EXCEPT !.err = TRUE]
        ELSE InitBounds([v EXCEPT !.err = FALSE,
                 !.data = InitBlockIter(@, s.table.blocks[bh], s.table.globalSeqNum)])
Loaded(s) == ~IsDataInvalidated(s.data)

NumStepsBeforeSeek == 4

RECURSIVE TryNextWithinBlock(_, _, _)
TryNextWithinBlock(s, key, j) ==
    IF j = NumStepsBeforeSeek \/ ~Valid(s.data) THEN [s |-> s, done |-> FALSE]
    ELSE IF s.data.ikey.key >= key THEN [s |-> YieldForward(s), done |-> TRUE]
    ELSE TryNextWithinBlock([s EXCEPT !.data = BlockNext(@)], key, j + 1)

RECURSIVE TryPrevWithinBlock(_, _, _)
TryPrevWithinBlock(s, key, j) ==
    IF j = NumStepsBeforeSeek \/ ~Valid(s.data) THEN [s |-> s, done |-> FALSE]
    ELSE IF s.data.ikey.key < key THEN [s |-> YieldBackward(s), done |-> TRUE]
    ELSE TryPrevWithinBlock([s EXCEPT !.data = BlockPrev(@)], key, j + 1)

RECURSIVE SingleSkipForward(_)
SingleSkipForward(s) ==
    LET t == [s EXCEPT !.index = BlockNext(@)]
        u == LoadBlock(t)
        v == [u EXCEPT !.data = BlockFirst(@)]
    IN  IF ~Valid(t.index) THEN ReturnNil([t EXCEPT !.data = Invalidate(@)])
        ELSE IF ~Loaded(u) THEN IF u.err THEN ReturnNil(u) ELSE SingleSkipForward(u)
        ELSE IF Valid(v.data) THEN YieldForward(v) ELSE SingleSkipForward(v)

RECURSIVE SingleSkipBackward(_)
SingleSkipBackward(s) ==
    LET t == [s EXCEPT !.index = BlockPrev(@)]
        u == LoadBlock(t)
        v == [u EXCEPT !.data = BlockLast(@)]
    IN  IF ~Valid(t.index) THEN ReturnNil([t EXCEPT !.data = Invalidate(@)])
        ELSE IF ~Loaded(u) THEN IF u.err THEN ReturnNil(u) ELSE SingleSkipBackward(u)
        ELSE IF Valid(v.data) THEN YieldBackward(v) ELSE ReturnNil(v)

SingleNext(s) ==
    LET t == [s EXCEPT !.exhausted = 0, !.boundsCmp = 0]
        u == [t EXCEPT !.data = BlockNext(@)]
    IN  IF s.err THEN ReturnNil(t)
        ELSE IF Valid(u.data) THEN YieldForward(u) ELSE SingleSkipForward(u)

SinglePrev(s) ==
    LET t == [s EXCEPT !.exhausted = 0, !.boundsCmp = 0]
        u == [t EXCEPT !.data = BlockPrev(@)]
    IN  IF s.err THEN ReturnNil(t)
        ELSE IF Valid(u.data) THEN YieldBackward(u) ELSE SingleSkipBackward(u)

SeekWithinBlockGE(s, key) ==
    LET v == [s EXCEPT !.data = BlockSeekGE(@, key)]
    IN  IF Valid(v.data) THEN YieldForward(v) ELSE SingleSkipForward(v)
SeekWithinBlockLT(s, key) ==
    LET v == [s EXCEPT !.data = BlockSeekLT(@, key)]
    IN  IF Valid(v.data) THEN YieldBackward(v) ELSE SingleSkipBackward(v)

RECURSIVE StepTo(_, _, _)
StepTo(s, key, j) ==
    IF s.ret = NoEntry \/ s.ret.key.key >= key THEN [s |-> s, done |-> TRUE]
    ELSE IF j = NumStepsBeforeSeek THEN [s |-> s, done |-> FALSE]
    ELSE StepTo(SingleNext(s), key, j + 1)

SeekIndexGE(s, key) ==
    LET t == [s EXCEPT !.index = BlockSeekGE(@, key)]
        u == LoadBlock(t)
    IN  IF ~Valid(t.index) THEN ReturnNil([t EXCEPT !.data = Invalidate(@)])
        ELSE IF ~Loaded(u) THEN ReturnNil(u)
        ELSE SeekWithinBlockGE(u, key)

InBlocks(s) == /\ ~IsDataInvalidated(s.data) /\ ~IsDataInvalidated(s.index)
               /\ Valid(s.data) /\ Valid(s.index)

SeekGEHelper(s, key, boundsCmp, trySeekUsingNext) ==
    IF InBlocks(s) /\ boundsCmp > 0 /\ key <= s.index.ikey.key
    THEN LET r == TryNextWithinBlock(BlockBounds(s, s.data.firstKey), key, 0)
         IN  IF r.done THEN r.s
             ELSE IF Valid(r.s.data) THEN SeekWithinBlockGE(r.s, key)
             ELSE SingleSkipForward(r.s)
    ELSE IF trySeekUsingNext
         THEN LET r == StepTo(Yield(s), key, 0)
              IN  IF r.done THEN r.s ELSE SeekIndexGE(r.s, key)
         ELSE SeekIndexGE(s, key)

Positioning(s) == [s EXCEPT !.exhausted = 0, !.err = FALSE, !.boundsCmp = 0]

SingleSeekGE(s, key) ==
    SeekGEHelper([Positioning(s) EXCEPT !.positioned = TRUE], key, s.boundsCmp, FALSE)

\* The part of seekPrefixGE after the check of the filter.
SingleSeekPrefixGE(s0, key, trySeekUsingNext) ==
    LET s == [s0 EXCEPT !.err = FALSE]
    IN  IF trySeekUsingNext /\ (s.exhausted = 1 \/ IsDataInvalidated(s.data)) THEN ReturnNil(s)
        ELSE SeekGEHelper([Positioning(s) EXCEPT !.positioned = TRUE], key, s.boundsCmp,
                          trySeekUsingNext)

SingleSeekLT(s0, key) ==
    LET s == [Positioning(s0) EXCEPT !.positioned = TRUE]
        t == [s EXCEPT !.index = BlockSeekGE(@, key)]
        u == LoadBlock(IF Valid(t.index) THEN t ELSE [t EXCEPT !.index = BlockLast(@)])
    IN  IF InBlocks(s) /\ s0.boundsCmp < 0 /\ s.data.firstKey.key < key
        THEN LET r == TryPrevWithinBlock(BlockBounds(s, s.data.firstKey), key, 0)
             IN  IF r.done THEN r.s
                 ELSE IF Valid(r.s.data) THEN SeekWithinBlockLT(r.s, key)
                 ELSE SingleSkipBackward(r.s)
        ELSE IF ~Loaded(u) THEN ReturnNil(u) ELSE SeekWithinBlockLT(u, key)

FirstInternal(s) ==
    LET t == [Positioning(s) EXCEPT !.index = BlockFirst(@)]
        u == LoadBlock(t)
        v == [u EXCEPT !.data = BlockFirst(@)]
    IN  IF ~Valid(t.index) THEN ReturnNil([t EXCEPT !.data = Invalidate(@)])
        ELSE IF ~Loaded(u) THEN ReturnNil(u)
        ELSE IF Valid(v.data) THEN YieldForward(v) ELSE SingleSkipForward(v)
SingleFirst(s) == FirstInternal([s EXCEPT !.positioned = TRUE])

LastInternal(s) ==
    LET t == [Positioning(s) EXCEPT !.index = BlockLast(@)]
        u == LoadBlock(t)
        v == [u EXCEPT !.data = BlockLast(@)]
    IN  IF ~Valid(t.index) THEN ReturnNil([t EXCEPT !.data = Invalidate(@)])
        ELSE IF ~Loaded(u) THEN ReturnNil(u)
        ELSE IF Valid(v.data) THEN YieldBackward(v) ELSE SingleSkipBackward(v)
SingleLast(s) == LastInternal([s EXCEPT !.positioned = TRUE])

-----------------------------------------------------------------------------
(* twoLevelIterator.                                                       *)

\* loadIndex succeeded iff it leaves no error and the index holds a partition.
LoadIndex(s) ==
    LET v == [s EXCEPT !.data = Invalidate(@)]
        h == s.top.val
    IN  IF ~Valid(s.top) THEN [v EXCEPT !.index.offset = 0, !.index.restarts = 0]
        ELSE IF <<"index", h>> \in s.bad THEN [v EXCEPT !.err = TRUE]
        ELSE [v EXCEPT !.err = FALSE,
                       !.index = InitBlockIter(@, s.table.parts[h], s.table.globalSeqNum)]
IndexLoaded(s, t) == Valid(s.top) /\ ~t.err

InvalidateBoth(s) == ReturnNil([s EXCEPT !.data = Invalidate(@), !.index = Invalidate(@)])

RECURSIVE TwoSkipForward(_)
TwoSkipForward(s) ==
    LET t == [s EXCEPT !.exhausted = 0, !.top = BlockNext(@)]
        u == LoadIndex(t)
        v == FirstInternal(u)
    IN  IF s.err \/ Valid(s.data) THEN ReturnNil(s)
        ELSE IF ~Valid(t.top) THEN InvalidateBoth(t)
        ELSE IF ~IndexLoaded(t, u) THEN ReturnNil(u)
        ELSE IF v.ret # NoEntry THEN v ELSE TwoSkipForward(v)

RECURSIVE TwoSkipBackward(_)
TwoSkipBackward(s) ==
    LET t == [s EXCEPT !.exhausted = 0, !.top = BlockPrev(@)]
        u == LoadIndex(t)
        v == LastInternal(u)
    IN  IF s.err \/ Valid(s.data) THEN ReturnNil(s)
        ELSE IF ~Valid(t.top) THEN InvalidateBoth(t)
        ELSE IF ~IndexLoaded(t, u) THEN ReturnNil(u)
        ELSE IF v.ret # NoEntry THEN v ELSE TwoSkipBackward(v)

ElseForward(s) == IF s.ret # NoEntry THEN s ELSE TwoSkipForward(s)
ElseBackward(s) == IF s.ret # NoEntry THEN s ELSE TwoSkipBackward(s)

TopIsBehind(s, key) == \/ IsDataInvalidated(s.top) \/ ~Valid(s.top)
                       \/ s.boundsCmp <= 0 \/ key > s.top.ikey.key

TwoSeekGE(s0, key) ==
    LET s == [s0 EXCEPT !.exhausted = 0, !.err = FALSE]
        t == [s EXCEPT !.top = BlockSeekGE(@, key)]
        u == LoadIndex(t)
    IN  IF ~TopIsBehind(s, key) THEN ElseForward(SingleSeekGE(s, key))
        ELSE IF ~Valid(t.top) THEN InvalidateBoth(t)
        ELSE IF ~IndexLoaded(t, u) THEN ReturnNil(u)
        ELSE ElseForward(SingleSeekGE(u, key))

\* The part of SeekPrefixGE after the check of the filter.
TwoSeekPrefixGE(s0, key, trySeekUsingNext) ==
    LET s == [s0 EXCEPT !.exhausted = 0]
        t == [s EXCEPT !.top = BlockSeekGE(@, key)]
        u == LoadIndex(t)
    IN  IF ~TopIsBehind(s, key) THEN ElseForward(SingleSeekPrefixGE(s, key, trySeekUsingNext))
        ELSE IF ~Valid(t.top) THEN InvalidateBoth(t)
        ELSE IF ~IndexLoaded(t, u) THEN ReturnNil(u)
        ELSE ElseForward(SingleSeekPrefixGE(u, key, FALSE))

TwoSeekLT(s0, key) ==
    LET s == Positioning(s0)
        t == [s EXCEPT !.top = BlockSeekGE(@, key)]
        l == [t EXCEPT !.top = BlockLast(@)]
        u == LoadIndex(IF Valid(t.top) THEN t ELSE l)
    IN  IF ~Valid(t.top)
        THEN IF ~Valid(l.top) THEN InvalidateBoth(l)
             ELSE IF ~IndexLoaded(l, u) THEN ReturnNil(u) ELSE LastInternal(u)
        ELSE IF ~IndexLoaded(t, u) THEN ReturnNil(u)
        ELSE ElseBackward(SingleSeekLT(u, key))

TwoFirst(s) ==
    LET t == [Positioning(s) EXCEPT !.top = BlockFirst(@)]
        u == LoadIndex(t)
    IN  IF ~Valid(t.top) THEN ReturnNil(t)
        ELSE IF ~IndexLoaded(t, u) THEN ReturnNil(u) ELSE ElseForward(SingleFirst(u))

TwoLast(s) ==
    LET t == [Positioning(s) EXCEPT !.top = BlockLast(@)]
        u == LoadIndex(t)
    IN  IF ~Valid(t.top) THEN ReturnNil(t)
        ELSE IF ~IndexLoaded(t, u) THEN ReturnNil(u) ELSE ElseBackward(SingleLast(u))

TwoNext(s) == IF s.err THEN ReturnNil([s EXCEPT !.boundsCmp = 0]) ELSE ElseForward(SingleNext(s))
TwoPrev(s) == IF s.err THEN ReturnNil([s EXCEPT !.boundsCmp = 0]) ELSE ElseBackward(SinglePrev(s))

-----------------------------------------------------------------------------
(* The iterator Reader.NewIter returns.                                    *)

TableSeekGE(s, key) == IF s.table.twoLevel THEN TwoSeekGE(s, key) ELSE SingleSeekGE(s, key)
TableSeekLT(s, key) == IF s.table.twoLevel THEN TwoSeekLT(s, key) ELSE SingleSeekLT(s, key)
TableFirst(s) == IF s.table.twoLevel THEN TwoFirst(s) ELSE SingleFirst(s)
TableLast(s) == IF s.table.twoLevel THEN TwoLast(s) ELSE SingleLast(s)
TableNext(s) == IF s.table.twoLevel THEN TwoNext(s) ELSE SingleNext(s)
TablePrev(s) == IF s.table.twoLevel THEN TwoPrev(s) ELSE SinglePrev(s)

\* The filter of the table has no false negatives; fp are its false positives.
MayContain(s, prefix, fp) == prefix \in s.table.filter \cup fp

TableSeekPrefixGE(s0, key, trySeekUsingNext, fp) ==
    LET s == [s0 EXCEPT !.err = FALSE]
        try == trySeekUsingNext /\ (s.table.filtered => s.bloomMatched)
        t == [s EXCEPT !.bloomMatched = s.table.filtered]
    IN  IF s.table.filtered /\ <<"filter", 1>> \in s.bad
        THEN ReturnNil([s EXCEPT !.bloomMatched = FALSE, !.err = TRUE, !.data = Invalidate(@)])
        ELSE IF s.table.filtered /\ ~MayContain(s, Prefix(key), fp)
        THEN ReturnNil([s EXCEPT !.bloomMatched = FALSE, !.data = Invalidate(@)])
        ELSE IF s.table.twoLevel THEN TwoSeekPrefixGE(t, key, try)
                                 ELSE SingleSeekPrefixGE(t, key, try)

TableSetBounds(s, lower, upper) ==
    [s EXCEPT !.boundsCmp = IF ~s.positioned THEN 0
                            ELSE IF s.upper # Nil /\ lower # Nil /\ s.upper <= lower THEN 1
                            ELSE IF s.lower # Nil /\ upper # Nil /\ upper <= s.lower THEN -1
                            ELSE 0,
              !.positioned = FALSE, !.lower = lower, !.upper = upper,
              !.blockLower = Nil, !.blockUpper = Nil]

-----------------------------------------------------------------------------
(* compactionIterator and twoLevelCompactionIterator: First and Next only. *)

RECURSIVE CompactionSkip(_)
CompactionSkip(s) ==
    LET t == [s EXCEPT !.index = BlockNext(@)]
        u == LoadBlock(t)
        v == [u EXCEPT !.data = BlockFirst(@)]
    IN  IF ~Valid(t.index) THEN ReturnNil(t)
        ELSE IF ~Loaded(u) THEN IF u.err THEN ReturnNil(u) ELSE CompactionSkip(u)
        ELSE IF Valid(v.data) THEN Yield(v) ELSE CompactionSkip(v)

RECURSIVE TwoCompactionSkip(_)
TwoCompactionSkip(s) ==
    LET t == [s EXCEPT !.top = BlockNext(@)]
        u == LoadIndex(t)
        v == SingleFirst(u)
    IN  IF s.ret # NoEntry THEN s
        ELSE IF ~Valid(t.top) THEN ReturnNil(t)
        ELSE IF IndexLoaded(t, u) THEN TwoCompactionSkip(v) ELSE TwoCompactionSkip(ReturnNil(u))

CompactionFirst(s) ==
    IF s.table.twoLevel THEN TwoCompactionSkip(TwoFirst([s EXCEPT !.err = FALSE]))
    ELSE LET t == SingleFirst([s EXCEPT !.err = FALSE])
         IN  IF t.ret # NoEntry THEN t ELSE CompactionSkip(t)

CompactionNext(s) ==
    LET t == [s EXCEPT !.data = BlockNext(@)]
    IN  IF s.err THEN ReturnNil(s)
        ELSE IF s.table.twoLevel THEN TwoCompactionSkip(SingleNext(s))
        ELSE IF Valid(t.data) THEN Yield(t) ELSE CompactionSkip(t)

-----------------------------------------------------------------------------
\* NewRawRangeDelIter: a blockIter over the range-del block, as the list it
\* walks.
RECURSIVE RangeDelsFrom(_)
RangeDelsFrom(i) ==
    IF ~Valid(i) THEN <<>> ELSE << [start |-> i.ikey, end |-> i.val] >> \o RangeDelsFrom(BlockNext(i))
NewRawRangeDelIter(table) ==
    RangeDelsFrom(BlockFirst(InitBlockIter(NewBlockIter, table.rangeDel, table.globalSeqNum)))
=============================================================================
