------------------------------- MODULE Block --------------------------------
(***************************************************************************)
(* Blocks of a table (sstable/block.go): blockWriter builds a block whose  *)
(* keys are stored without the prefix they share with their predecessor,   *)
(* except at the restart points; blockIter decodes it in both directions.  *)
(*                                                                         *)
(* A block is its sequence of entries and its restart points.  An offset   *)
(* is the number of entries before it (the code counts bytes), so          *)
(* Len(entries) is the offset restarts where the data ends.  The varints   *)
(* of an entry are its fields shared, rest and val.                        *)
(***************************************************************************)
EXTENDS InternalKeys

NewBlockWriter(interval) ==
    [restartInterval |-> interval, nextRestart |-> 0, entries |-> <<>>,
     restarts |-> <<>>, curKey |-> <<>>, curValue |-> Nil]

NEntries(w) == Len(w.entries)

SharedPrefixLen(a, b) ==
    CHOOSE n \in 0 .. Len(a) :
        /\ n <= Len(b) /\ SubSeq(a, 1, n) = SubSeq(b, 1, n)
        /\ \/ n = Len(a) \/ n = Len(b)
           \/ a[n + 1] # b[n + 1]

\* blockWriter.add and store.
AddEntry(w, ik, value) ==
    LET restart == NEntries(w) = w.nextRestart
        bytes == Encode(ik)
        shared == IF restart THEN 0 ELSE SharedPrefixLen(bytes, w.curKey)
    IN  [w EXCEPT !.curKey = bytes, !.curValue = value,
                  !.nextRestart = IF restart THEN NEntries(w) + w.restartInterval ELSE @,
                  !.restarts = IF restart THEN Append(@, NEntries(w)) ELSE @,
                  !.entries = Append(@, [shared |-> shared, val |-> value,
                                         rest |-> SubSeq(bytes, shared + 1, Len(bytes))])]

\* finish: a block has at least one restart point.
FinishBlock(w) == [entries |-> w.entries,
                   restarts |-> IF w.entries = <<>> THEN <<0>> ELSE w.restarts]

-----------------------------------------------------------------------------
(* blockIter.  cached holds the entries decoded between the restart point   *)
(* and the current one during reverse iteration; cachedBuf tells whether    *)
(* their buffer holds bytes, which a step back does not take out of it.     *)

NoBlock == [entries |-> <<>>, restarts |-> <<>>]

NewBlockIter ==
    [data |-> NoBlock, offset |-> 0, nextOffset |-> 0, restarts |-> 0, fullKey |-> <<>>,
     key |-> <<>>, ikey |-> NoKey, val |-> Nil, cached |-> <<>>, cachedBuf |-> FALSE,
     globalSeqNum |-> 0, firstKey |-> NoKey]

IsDataInvalidated(i) == i.data = NoBlock
Valid(i) == i.offset >= 0 /\ i.offset < i.restarts
ClearCache(i) == [i EXCEPT !.cached = <<>>, !.cachedBuf = FALSE]
Invalidate(i) == [ClearCache(i) EXCEPT !.offset = 0, !.nextOffset = 0, !.restarts = 0,
                                       !.data = NoBlock]

GlobalSeq(i, ik) == IF i.globalSeqNum # 0 THEN [ik EXCEPT !.seq = i.globalSeqNum] ELSE ik
DecodeKey(i) == [i EXCEPT !.ikey = GlobalSeq(i, DecodeInternalKey(i.key))]

\* readEntry: the key is the shared prefix of fullKey followed by the rest.
\* Past the end of the data it reads the restart array; the caller tests Valid.
ReadEntry(i) ==
    IF i.offset >= i.restarts THEN i
    ELSE LET e == i.data.entries[i.offset + 1]
             full == SubSeq(i.fullKey, 1, e.shared) \o e.rest
         IN  [i EXCEPT !.fullKey = full, !.key = full, !.val = e.val,
                       !.nextOffset = i.offset + 1]
ReadKey(i) == IF i.offset >= i.restarts THEN i ELSE DecodeKey(ReadEntry(i))

ReadFirstKey(i) == GlobalSeq(i, DecodeInternalKey(i.data.entries[1].rest))

InitBlockIter(i, block, seq) ==
    LET j == [ClearCache(i) EXCEPT !.data = block, !.restarts = Len(block.entries),
                                   !.globalSeqNum = seq, !.fullKey = <<>>, !.val = Nil]
    IN  [j EXCEPT !.firstKey = IF block.entries = <<>> THEN NoKey ELSE ReadFirstKey(j)]

CacheEntry(i) ==
    [i EXCEPT !.cached = Append(@, [offset |-> i.offset, key |-> i.key, val |-> i.val]),
              !.cachedBuf = TRUE]

\* The binary searches over the restart points count those whose key (or
\* offset) is below the target.
RestartKey(i, n) == DecodeInternalKey(i.data.entries[i.data.restarts[n] + 1].rest)
RestartsBelow(i, Below(_)) ==
    IF i.restarts = 0 THEN 0
    ELSE LET R == {n \in 1 .. Len(i.data.restarts) : Below(n)}
         IN  IF R = {} THEN 0 ELSE CHOOSE n \in R : \A m \in R : m <= n

BlockNext(i) ==
    LET j == [IF i.cachedBuf THEN [ClearCache(i) EXCEPT !.fullKey = i.key] ELSE i
                  EXCEPT !.offset = i.nextOffset]
    IN  ReadKey(j)

RECURSIVE CacheUpTo(_, _)
CacheUpTo(i, target) ==
    IF i.nextOffset >= target THEN i
    ELSE CacheUpTo(ReadEntry([CacheEntry(i) EXCEPT !.offset = i.nextOffset]), target)

BlockPrev(i) ==
    LET n == Len(i.cached)
        j == ClearCache(i)
        index == RestartsBelow(i, LAMBDA r : i.data.restarts[r] < i.offset)
        start == IF index > 0 THEN i.data.restarts[index] ELSE 0
    IN  IF n > 0
        THEN DecodeKey([i EXCEPT !.nextOffset = i.offset, !.offset = i.cached[n].offset,
                                 !.val = i.cached[n].val, !.key = i.cached[n].key,
                                 !.cached = SubSeq(@, 1, n - 1)])
        ELSE IF i.offset <= 0 THEN [j EXCEPT !.offset = -1, !.nextOffset = 0]
        ELSE DecodeKey(CacheUpTo(ReadEntry([j EXCEPT !.offset = start]), i.offset))

RECURSIVE AdvanceGE(_, _)
AdvanceGE(i, ik) ==
    IF ~Valid(i) \/ LessEq(ik, i.ikey) THEN i ELSE AdvanceGE(BlockNext(i), ik)

BlockSeekGE(i, key) ==
    LET ik == MakeSearchKey(key)
        index == RestartsBelow(i, LAMBDA r : LessEq(RestartKey(i, r), ik))
    IN  AdvanceGE(ReadKey([ClearCache(i) EXCEPT !.offset =
                             IF index > 0 THEN i.data.restarts[index] ELSE 0]), ik)

RECURSIVE AdvanceLT(_, _, _)
AdvanceLT(i, key, target) ==
    LET j == ReadKey([i EXCEPT !.offset = i.nextOffset])
    IN  IF j.ikey.key >= key THEN BlockPrev(j)
        ELSE IF j.nextOffset >= target THEN j
        ELSE AdvanceLT(CacheEntry(j), key, target)

BlockSeekLT(i, key) ==
    LET index == RestartsBelow(i, LAMBDA r : Less(RestartKey(i, r), MakeSearchKey(key)))
        j == ClearCache(i)
    IN  IF index = 0 THEN [j EXCEPT !.offset = -1, !.nextOffset = 0]
        ELSE AdvanceLT([j EXCEPT !.offset = i.data.restarts[index],
                                 !.nextOffset = i.data.restarts[index]], key,
                       IF index < Len(i.data.restarts) THEN i.data.restarts[index + 1]
                                                       ELSE i.restarts)

BlockFirst(i) == IF i.restarts = 0 THEN [i EXCEPT !.offset = 0]
                 ELSE ReadKey([ClearCache(i) EXCEPT !.offset = 0])

BlockLast(i) ==
    LET j == [i EXCEPT !.offset = i.data.restarts[Len(i.data.restarts)]]
    IN  IF ~Valid(j) THEN j ELSE DecodeKey(CacheUpTo(ClearCache(ReadEntry(j)), i.restarts))
=============================================================================
