------------------------------ MODULE UserIter ------------------------------
(***************************************************************************)
(* Iterator (iterator.go) turns the internal keys of a mergingIter into    *)
(* user keys and values: the newest visible version of a key counts, a     *)
(* deletion hides the key, and merge operands are combined with the value  *)
(* below them.  DB.Get uses the same iterator over getIter (get_iter.go),  *)
(* which looks for one key level by level.                                 *)
(*                                                                         *)
(* A value is the decimal number of its digits, and the merge operator     *)
(* concatenates, as base.DefaultMerger does.                               *)
(***************************************************************************)
EXTENDS MergingIter

Concat(older, newer) == IF newer < 10 THEN 10 * older + newer
                        ELSE IF newer < 100 THEN 100 * older + newer ELSE 1000 * older + newer

\* finishInitializingIter: the batch, the memtables from the newest to the
\* oldest that have entries below the sequence number, then the levels of
\* tables (L0 sublevels from the newest, then L1 and below).
NewIter(batch, memtables, levels, seqNum, lower, upper) ==
    LET mems == SelectSeq(Reverse(memtables), LAMBDA m : m.logSeqNum < seqNum)
        lists == batch \o mems
        iters == [i \in DOMAIN lists |->
                     NewListIter(lists[i].kind, lists[i].entries, lists[i].tombstones, lower, upper)]
                 \o [i \in DOMAIN levels |-> NewLevelIter(levels[i], lower, upper, TRUE, FALSE)]
    IN  [iter |-> NewMergingIter(iters, seqNum, lower, upper, TRUE), lower |-> lower,
         upper |-> upper, key |-> Nil, value |-> Nil, entry |-> NoEntry, valid |-> FALSE,
         pos |-> "curForward", hasPrefix |-> FALSE, prefix |-> Nil, lastSeekPrefixGE |-> FALSE,
         err |-> FALSE]

\* The calls of the underlying iterator.
SetEntry(d, m) == [d EXCEPT !.iter = m, !.entry = m.ret]
InnerNext(d) == SetEntry(d, MergingNext(d.iter))
InnerPrev(d) == SetEntry(d, MergingPrev(d.iter))
ToFirst(d) == SetEntry(d, IF d.lower # Nil THEN MergingSeekGE(d.iter, d.lower)
                                           ELSE MergingFirst(d.iter))
ToLast(d) == SetEntry(d, IF d.upper # Nil THEN MergingSeekLT(d.iter, d.upper)
                                          ELSE MergingLast(d.iter))
IteratorError(d) == d.err \/ MergingError(d.iter)

IsDeletion(kind) == kind \in {KindDelete, KindSingleDelete}
Corrupt(d) == [d EXCEPT !.err = TRUE]

\* nextUserKey, after the current key was saved.
RECURSIVE NextPastKey(_, _)
NextPastKey(d, done) ==
    LET n == InnerNext(d)
    IN  IF done \/ n.entry = NoEntry \/ n.entry.key.key # d.key THEN n
        ELSE NextPastKey(n, n.entry.key.seq = 0)
NextUserKey(d) ==
    IF d.entry = NoEntry THEN d
    ELSE NextPastKey([d EXCEPT !.key = IF d.valid THEN @ ELSE d.entry.key.key], d.entry.key.seq = 0)

RECURSIVE PrevPastKey(_)
PrevPastKey(d) ==
    LET n == InnerPrev(d)
    IN  IF n.entry = NoEntry \/ n.entry.key.key # d.key THEN n ELSE PrevPastKey(n)
PrevVersion(d) == IF d.entry = NoEntry THEN d ELSE InnerPrev(d)
PrevUserKey(d) ==
    IF d.entry = NoEntry THEN d
    ELSE PrevPastKey([d EXCEPT !.key = IF d.valid THEN @ ELSE d.entry.key.key])

\* mergeNext: value holds the operands merged so far.
RECURSIVE MergeOlder(_)
MergeOlder(d) ==
    LET n == InnerNext(d)
        kind == n.entry.key.kind
        m == [n EXCEPT !.value = Concat(n.entry.val, @)]
    IN  IF n.entry = NoEntry \/ n.entry.key.key # d.key THEN [n EXCEPT !.pos = "next"]
        ELSE IF IsDeletion(kind) THEN n
        ELSE IF kind = KindSet THEN m
        ELSE IF kind = KindMerge THEN MergeOlder(m) ELSE Corrupt(n)
MergeNext(d) == MergeOlder([d EXCEPT !.key = d.entry.key.key, !.valid = TRUE,
                                     !.value = d.entry.val])

RECURSIVE FindNextEntry(_)
FindNextEntry(d0) ==
    LET d == [d0 EXCEPT !.valid = FALSE, !.pos = "curForward"]
        kind == d.entry.key.kind
    IN  IF d.entry = NoEntry \/ (d.hasPrefix /\ Prefix(d.entry.key.key) # d.prefix) THEN d
        ELSE IF IsDeletion(kind) THEN FindNextEntry(NextUserKey(d))
        ELSE IF kind = KindSet
        THEN [d EXCEPT !.key = d.entry.key.key, !.value = d.entry.val, !.valid = TRUE]
        ELSE IF kind = KindMerge THEN MergeNext(d) ELSE Corrupt(d)

\* The loop of findPrevEntry: the versions of a key come from the oldest to the
\* newest, and value is what those seen so far amount to.
RECURSIVE PrevEntries(_)
PrevEntries(d) ==
    LET kind == d.entry.key.kind
        k == d.entry.key.key
        v == d.entry.val
    IN  IF d.entry = NoEntry THEN [d EXCEPT !.pos = IF d.valid THEN "prev" ELSE @]
        ELSE IF d.valid /\ k # d.key THEN [d EXCEPT !.pos = "prev"]
        ELSE IF IsDeletion(kind)
        THEN PrevEntries(InnerPrev([d EXCEPT !.value = Nil, !.valid = FALSE]))
        ELSE IF kind = KindSet
        THEN PrevEntries(InnerPrev([d EXCEPT !.key = k, !.value = v, !.valid = TRUE]))
        ELSE IF kind = KindMerge
        THEN PrevEntries(InnerPrev([d EXCEPT !.key = k, !.valid = TRUE,
                                             !.value = IF d.valid THEN Concat(@, v) ELSE v]))
        ELSE Corrupt(d)
FindPrevEntry(d) == PrevEntries([d EXCEPT !.valid = FALSE, !.pos = "curReverse"])

-----------------------------------------------------------------------------
Absolute(d) == [d EXCEPT !.err = FALSE, !.hasPrefix = FALSE, !.lastSeekPrefixGE = FALSE]
Clamp(d, key) == IF d.lower # Nil /\ key < d.lower THEN d.lower
                 ELSE IF d.upper # Nil /\ key > d.upper THEN d.upper ELSE key

SeekGE(d, key) ==
    FindNextEntry(SetEntry(Absolute(d), MergingSeekGE(d.iter, Clamp(d, key))))
SeekLT(d, key) ==
    FindPrevEntry(SetEntry(Absolute(d), MergingSeekLT(d.iter, Clamp(d, key))))
IteratorFirst(d) == FindNextEntry(ToFirst(Absolute(d)))
IteratorLast(d) == FindPrevEntry(ToLast(Absolute(d)))

\* A later key after another SeekPrefixGE may be reached with Next.
SeekPrefixGE(d0, key, fp) ==
    LET try == d0.lastSeekPrefixGE /\ d0.prefix < Prefix(key)
        d == [d0 EXCEPT !.lastSeekPrefixGE = FALSE, !.err = FALSE, !.prefix = Prefix(key),
                        !.hasPrefix = TRUE]
        bound == Clamp(d, key)
        n == FindNextEntry(SetEntry(d, MergingSeekPrefixGE(d.iter, d.prefix, bound, try, fp)))
    IN  IF Prefix(bound) # d.prefix THEN [d EXCEPT !.err = TRUE]
        ELSE [n EXCEPT !.lastSeekPrefixGE = ~IteratorError(n)]

IteratorNext(d0) ==
    LET d == [d0 EXCEPT !.lastSeekPrefixGE = FALSE]
        u == [d EXCEPT !.valid = FALSE]
    IN  IF d.err THEN d0
        ELSE CASE d.pos = "curForward" -> FindNextEntry(NextUserKey(d))
               [] d.pos = "curReverse" /\ d.entry # NoEntry -> Corrupt(u)
               [] d.pos = "curReverse" /\ d.entry = NoEntry -> FindNextEntry(ToFirst(d))
               [] d.pos = "prev" /\ d.entry = NoEntry ->
                      FindNextEntry(NextUserKey(ToFirst(u)))
               [] d.pos = "prev" /\ d.entry # NoEntry ->
                      FindNextEntry(NextUserKey(NextUserKey(u)))
               [] d.pos = "next" -> FindNextEntry(d)

IteratorPrev(d0) ==
    LET d == [d0 EXCEPT !.lastSeekPrefixGE = FALSE]
        u == [d EXCEPT !.valid = FALSE]
        back == IF d.entry = NoEntry THEN ToLast(u) ELSE PrevUserKey(u)
    IN  IF d.err THEN d0
        ELSE IF d.hasPrefix THEN Corrupt(d)
        ELSE CASE d.pos = "curForward" -> FindPrevEntry(back)
               [] d.pos = "next" -> FindPrevEntry(PrevUserKey(back))
               [] d.pos = "curReverse" -> FindPrevEntry(PrevUserKey(d))
               [] d.pos = "prev" -> FindPrevEntry(d)

SetBounds(d, lower, upper) ==
    IF lower = d.lower /\ upper = d.upper THEN d
    ELSE [d EXCEPT !.lastSeekPrefixGE = FALSE, !.hasPrefix = FALSE, !.entry = NoEntry,
                   !.pos = IF @ \in {"curForward", "next"} THEN "curForward" ELSE "curReverse",
                   !.valid = FALSE, !.lower = lower, !.upper = upper,
                   !.iter = MergingSetBounds(@, lower, upper)]

-----------------------------------------------------------------------------
(* A call of the API by name, with what cannot be read during it.          *)

LevelFaults(d, f) ==
    [d EXCEPT !.iter.levels = [i \in DOMAIN @ |->
        IF IsLevel(@[i].iter) THEN [@[i] EXCEPT !.iter.faults = f] ELSE @[i]]]
Perform(d, c) ==
    CASE c.op = "SeekGE" -> SeekGE(d, c.key)
      [] c.op = "SeekLT" -> SeekLT(d, c.key)
      [] c.op = "SeekPrefixGE" -> SeekPrefixGE(d, c.key, c.fp)
      [] c.op = "First" -> IteratorFirst(d)
      [] c.op = "Last" -> IteratorLast(d)
      [] c.op = "Next" -> IteratorNext(d)
      [] c.op = "Prev" -> IteratorPrev(d)
      [] c.op = "SetBounds" -> SetBounds(d, c.bounds[1], c.bounds[2])
IteratorCall(d, c) == LevelFaults(Perform(LevelFaults(d, c.faults), c), NoReadFaults)

-----------------------------------------------------------------------------
(* getIter.  sources are the iterators not opened yet, in order; iter is   *)
(* the open one.                                                           *)

NewGetIter(batch, memtables, levels, seqNum, key) ==
    LET mems == SelectSeq(Reverse(memtables), LAMBDA m : m.logSeqNum < seqNum)
        lists == batch \o mems
    IN  [key |-> key, snapshot |-> seqNum, open |-> FALSE, iter |-> NoTableIter,
         tombstone |-> EmptyTombstone, err |-> FALSE, entry |-> NoEntry, batch |-> Len(batch),
         sources |-> [i \in DOMAIN lists |-> NewListIter(lists[i].kind, lists[i].entries,
                                                         lists[i].tombstones, Nil, Nil)]
                     \o [i \in DOMAIN levels |-> NewLevelIter(levels[i], Nil, Nil, TRUE, FALSE)]]

GetDone(g) == [g EXCEPT !.entry = NoEntry, !.open = FALSE]
CloseSourceForgetting(g) == [g EXCEPT !.err = IterError(g.iter), !.open = FALSE, !.entry = NoEntry,
                                      !.tombstone = EmptyTombstone]
CloseSource(g) == [g EXCEPT !.err = IterError(g.iter), !.open = FALSE, !.entry = NoEntry]

RECURSIVE GetLoop(_)
GetLoop(g0) ==
    LET t == IF g0.open /\ g0.iter.rd # <<>>
             THEN TombstoneGet(g0.iter.rd, g0.key, g0.snapshot) ELSE g0.tombstone
        g == [g0 EXCEPT !.tombstone = t, !.iter.rd = <<>>]
        n == IterNext(g.iter)
        c == CloseSource(g)
        s == IterSeekGE(Head(g0.sources), g0.key)
    IN  IF g0.open
        THEN IF g.entry # NoEntry /\ Deletes(t, g.entry.key.seq) THEN c
             ELSE IF g.entry # NoEntry /\ g.entry.key.key = g.key
             THEN IF Visible(g.entry.key, g.snapshot) THEN g
                  ELSE GetLoop([g EXCEPT !.iter = n, !.entry = n.ret])
             ELSE IF c.err THEN c ELSE GetLoop(c)
        ELSE IF g0.sources = <<>> \/ (g0.batch = 0 /\ ~TombstoneEmpty(g0.tombstone))
        THEN GetDone(g0)
        ELSE GetLoop([g0 EXCEPT !.sources = Tail(@), !.batch = 0, !.open = TRUE, !.iter = s,
                                !.entry = s.ret])

GetNext(g) ==
    LET n == IterNext(g.iter)
    IN  GetLoop(IF g.open THEN [g EXCEPT !.iter = n, !.entry = n.ret] ELSE g)

\* DB.Get: Iterator.First over getIter.  A version that is a deletion ends the
\* search; merge operands collect the versions below them.
RECURSIVE GetMerge(_, _)
GetMerge(g, value) ==
    LET n == GetNext(g)
        kind == n.entry.key.kind
        v == Concat(n.entry.val, value)
    IN  IF n.entry = NoEntry \/ IsDeletion(kind) THEN [found |-> TRUE, value |-> value, err |-> FALSE]
        ELSE IF kind = KindSet THEN [found |-> TRUE, value |-> v, err |-> FALSE]
        ELSE GetMerge(n, v)

RECURSIVE GetPastDeletion(_)
GetPastDeletion(g) ==
    IF g.entry = NoEntry THEN g ELSE GetPastDeletion(GetNext(g))

Get(g0) ==
    LET g == GetNext(g0)
        kind == g.entry.key.kind
        past == GetPastDeletion(g)
    IN  IF g.entry = NoEntry THEN [found |-> FALSE, value |-> Nil, err |-> g.err]
        ELSE IF IsDeletion(kind) THEN [found |-> FALSE, value |-> Nil, err |-> past.err]
        ELSE IF kind = KindSet THEN [found |-> TRUE, value |-> g.entry.val, err |-> FALSE]
        ELSE IF kind = KindMerge THEN GetMerge(g, g.entry.val)
        ELSE [found |-> FALSE, value |-> Nil, err |-> TRUE]
=============================================================================
