------------------------------ MODULE LevelIter -----------------------------
(***************************************************************************)
(* levelIter (level_iter.go): one iterator over the tables of a level,     *)
(* which have disjoint ranges.  It pauses at a table's boundary while the  *)
(* table's range tombstones may still be needed, by returning a key of     *)
(* kind RANGEDEL there.                                                    *)
(*                                                                         *)
(* files is the sequence of the level's tables, pos the position of        *)
(* manifest.LevelIterator in it.  A file has its bounds, its table and the *)
(* fragmented tombstones of its range-del block.  open is FALSE when       *)
(* l.iter is nil.  faults is what cannot be read during the operation: a   *)
(* file that cannot be opened, and blocks of the table.                    *)
(***************************************************************************)
EXTENDS ListIter, TableIter

NoReadFaults == [files |-> {}, blocks |-> {}]
NoTableIter == [ret |-> NoEntry, err |-> FALSE]

NewLevelIter(files, lower, upper, withRangeDels, compacting) ==
    [kind |-> "level", compacting |-> compacting, files |-> files, pos |-> 0, iterFile |-> 0,
     lower |-> lower, upper |-> upper, tableLower |-> Nil, tableUpper |-> Nil, open |-> FALSE,
     iter |-> NoTableIter, smallestBoundary |-> NoKey, largestBoundary |-> NoKey,
     withRangeDels |-> withRangeDels, rd |-> <<>>, rdCopy |-> <<>>, err |-> FALSE,
     smallestUserKey |-> Nil, largestUserKey |-> Nil, sentinel |-> FALSE, synth |-> FALSE,
     faults |-> NoReadFaults, ret |-> NoEntry]

-----------------------------------------------------------------------------
(* manifest.LevelIterator: every method leaves a position in 0..Len + 1.   *)

FileSeekGE(files, key) ==
    Min({i \in DOMAIN files : files[i].largest.key >= key} \cup {Len(files) + 1})
FileSeekLT(files, key) ==
    Min({i \in DOMAIN files : files[i].smallest.key >= key} \cup {Len(files) + 1}) - 1
FileNext(files, p) == IF p > Len(files) THEN p ELSE p + 1
FilePrev(files, p) == IF p = 0 THEN p ELSE p - 1

FindFileGE(files, key) ==
    LET p == FileSeekGE(files, key)
    IN  Min({i \in p..Len(files) : ~(/\ IsExclusiveSentinel(files[i].largest)
                                     /\ files[i].largest.key = key)} \cup {Len(files) + 1})

-----------------------------------------------------------------------------
NilLevel(l) == [l EXCEPT !.ret = NoEntry]
ReturnBoundary(l, key) == [l EXCEPT !.ret = [key |-> key, val |-> Nil]]

\* initTableBounds: where file f lies, and the bounds that fall inside of it.
TableSide(l, f) == IF l.lower # Nil /\ f.largest.key < l.lower THEN -1
                   ELSE IF l.upper # Nil /\ f.smallest.key >= l.upper THEN 1 ELSE 0
InitTableBounds(l, f) ==
    [l EXCEPT !.tableLower = IF l.lower <= f.smallest.key THEN Nil ELSE l.lower,
              !.tableUpper = IF l.upper > f.largest.key THEN Nil ELSE l.upper]

\* Close: an error the table's iterator holds becomes the level's error.
CloseLevel(l) ==
    [l EXCEPT !.err = IF l.open THEN l.iter.err ELSE @, !.open = FALSE, !.iter = NoTableIter,
              !.rd = <<>>, !.rdCopy = <<>>]

\* The table iterators are used through these, with the faults of the moment.
Blocks(l) == [l.iter EXCEPT !.bad = l.faults.blocks]
WithIter(l, iter) == [l EXCEPT !.iter = [iter EXCEPT !.bad = {}], !.ret = iter.ret]
FirstOfFile(l) ==
    WithIter(l, IF l.compacting THEN CompactionFirst(Blocks(l)) ELSE TableFirst(Blocks(l)))
NextOfFile(l) ==
    WithIter(l, IF l.compacting THEN CompactionNext(Blocks(l)) ELSE TableNext(Blocks(l)))

OpenFile(l, p) ==
    LET f == l.files[p]
        t == InitTableBounds([l EXCEPT !.iterFile = p, !.pos = p], f)
    IN  IF p \in l.faults.files THEN [t EXCEPT !.err = TRUE]
        ELSE [t EXCEPT !.open = TRUE, !.err = FALSE,
                       !.iter = NewTableIter(f.table, t.tableLower, t.tableUpper),
                       !.rd = IF l.withRangeDels THEN f.rangeDels ELSE <<>>,
                       !.rdCopy = IF l.withRangeDels THEN f.rangeDels ELSE <<>>,
                       !.smallestUserKey = f.smallest.key, !.largestUserKey = f.largest.key,
                       !.sentinel = IsExclusiveSentinel(f.largest)]

\* The loop of loadFile: tables outside the bounds are passed over.
RECURSIVE LoadFrom(_, _, _)
LoadFrom(l, p, dir) ==
    LET t == [l EXCEPT !.pos = p, !.iterFile = IF p \in DOMAIN l.files THEN p ELSE 0]
    IN  IF p \notin DOMAIN l.files THEN t
        ELSE CASE TableSide(l, l.files[p]) = -1 -> IF dir < 0 THEN t ELSE LoadFrom(t, p + 1, dir)
               [] TableSide(l, l.files[p]) = 1 -> IF dir > 0 THEN t ELSE LoadFrom(t, p - 1, dir)
               [] OTHER -> OpenFile(l, p)

\* loadFile.  It loaded a file iff the level is open and without an error after it.
LoadFile(l0, p, dir) ==
    LET l == [l0 EXCEPT !.smallestBoundary = NoKey, !.largestBoundary = NoKey, !.synth = FALSE,
                        !.pos = p]
        c == CloseLevel(l)
        same == l.iterFile # 0 /\ l.iterFile = p
    IN  IF same /\ l.err THEN l
        ELSE IF same /\ l.open THEN [l EXCEPT !.rd = l.rdCopy]
        ELSE IF c.err THEN c ELSE LoadFrom(c, p, dir)
FileLoaded(l) == l.open /\ ~l.err

-----------------------------------------------------------------------------
RECURSIVE SkipEmptyFileForward(_)
SkipEmptyFileForward(l) ==
    LET bound == MakeRangeDeleteSentinelKey(l.tableUpper)
        largest == l.files[l.iterFile].largest
        n == LoadFile(l, FileNext(l.files, l.pos), 1)
        f == FirstOfFile(n)
    IN  IF l.ret # NoEntry THEN l
        ELSE IF l.withRangeDels /\ l.tableUpper # Nil
        THEN IF l.rd = <<>> THEN l
             ELSE ReturnBoundary([l EXCEPT !.largestBoundary = bound, !.synth = TRUE], bound)
        ELSE IF l.withRangeDels /\ largest.kind = KindRangeDelete
        THEN ReturnBoundary([l EXCEPT !.largestBoundary = largest], largest)
        ELSE IF FileLoaded(n) THEN SkipEmptyFileForward(f) ELSE NilLevel(n)

RECURSIVE SkipEmptyFileBackward(_)
SkipEmptyFileBackward(l) ==
    LET bound == MakeRangeDeleteSentinelKey(l.tableLower)
        smallest == l.files[l.iterFile].smallest
        n == LoadFile(l, FilePrev(l.files, l.pos), -1)
        f == WithIter(n, TableLast(Blocks(n)))
    IN  IF l.ret # NoEntry THEN l
        ELSE IF l.withRangeDels /\ l.tableLower # Nil
        THEN IF l.rd = <<>> THEN l
             ELSE ReturnBoundary([l EXCEPT !.smallestBoundary = bound, !.synth = TRUE], bound)
        ELSE IF l.withRangeDels /\ smallest.kind = KindRangeDelete
        THEN ReturnBoundary([l EXCEPT !.smallestBoundary = smallest], smallest)
        ELSE IF FileLoaded(n) THEN SkipEmptyFileBackward(f) ELSE NilLevel(n)

\* Every positioning method clears the error first.
Fresh(l) == [l EXCEPT !.err = FALSE, !.synth = FALSE]

LevelSeekGE(l, key) ==
    LET n == LoadFile(Fresh(l), FindFileGE(l.files, key), 1)
    IN  IF ~FileLoaded(n) THEN NilLevel(n)
        ELSE SkipEmptyFileForward(WithIter(n, TableSeekGE(Blocks(n), key)))

LevelSeekPrefixGE(l, key, trySeekUsingNext, fp) ==
    LET p == FindFileGE(l.files, key)
        already == l.iterFile = p /\ l.open
        n == LoadFile(Fresh(l), p, 1)
        f == WithIter(n, TableSeekPrefixGE(Blocks(n), key, trySeekUsingNext /\ already, fp))
        inside == f.tableUpper # Nil
        bound == IF inside THEN MakeRangeDeleteSentinelKey(f.tableUpper)
                 ELSE [f.files[f.iterFile].largest EXCEPT !.kind = KindRangeDelete]
    IN  IF ~FileLoaded(n) THEN NilLevel(n)
        ELSE IF f.ret = NoEntry /\ f.rd # <<>>
        THEN ReturnBoundary([f EXCEPT !.largestBoundary = bound, !.synth = inside], bound)
        ELSE SkipEmptyFileForward(f)

LevelSeekLT(l, key) ==
    LET n == LoadFile(Fresh(l), FileSeekLT(l.files, key), -1)
    IN  IF ~FileLoaded(n) THEN NilLevel(n)
        ELSE SkipEmptyFileBackward(WithIter(n, TableSeekLT(Blocks(n), key)))

LevelFirst(l) ==
    LET n == LoadFile(Fresh(l), IF l.files = <<>> THEN 0 ELSE 1, 1)
    IN  IF ~FileLoaded(n) THEN NilLevel(n)
        ELSE SkipEmptyFileForward(FirstOfFile(n))

LevelLast(l) ==
    LET n == LoadFile(Fresh(l), Len(l.files), -1)
    IN  IF ~FileLoaded(n) THEN NilLevel(n)
        ELSE SkipEmptyFileBackward(WithIter(n, TableLast(Blocks(n))))

LevelNext(l) ==
    LET s == [l EXCEPT !.synth = FALSE]
        n == LoadFile(s, FileNext(l.files, l.pos), 1)
    IN  IF l.err \/ ~l.open THEN NilLevel(l)
        ELSE IF l.largestBoundary = NoKey
        THEN SkipEmptyFileForward(NextOfFile([s EXCEPT !.smallestBoundary = NoKey]))
        ELSE IF l.tableUpper # Nil THEN NilLevel([s EXCEPT !.rd = <<>>])
        ELSE IF FileLoaded(n) THEN SkipEmptyFileForward(FirstOfFile(n))
        ELSE NilLevel(n)

LevelPrev(l) ==
    LET s == [l EXCEPT !.synth = FALSE]
        n == LoadFile(s, FilePrev(l.files, l.pos), -1)
    IN  IF l.err \/ ~l.open THEN NilLevel(l)
        ELSE IF l.smallestBoundary = NoKey
        THEN SkipEmptyFileBackward(WithIter([s EXCEPT !.largestBoundary = NoKey],
                                            TablePrev(Blocks(s))))
        ELSE IF l.tableLower # Nil THEN NilLevel([s EXCEPT !.rd = <<>>])
        ELSE IF FileLoaded(n) THEN SkipEmptyFileBackward(WithIter(n, TableLast(Blocks(n))))
        ELSE NilLevel(n)

LevelError(l) == IF l.err \/ ~l.open THEN l.err ELSE l.iter.err

LevelSetBounds(l, lower, upper) ==
    LET s == [l EXCEPT !.lower = lower, !.upper = upper]
        t == InitTableBounds(s, l.files[l.iterFile])
    IN  IF ~l.open THEN s
        ELSE IF TableSide(s, l.files[l.iterFile]) # 0 THEN CloseLevel(s)
        ELSE [t EXCEPT !.iter = TableSetBounds(@, t.tableLower, t.tableUpper)]
=============================================================================
