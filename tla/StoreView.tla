----------------------------- MODULE StoreView ------------------------------
(***************************************************************************)
(* What a client may read: the value of every key in a store, from the     *)
(* operations alone.  A store s has writes, a set of operations with kind, *)
(* key, val and seq, and seqNum, the sequence number it is read at.        *)
(***************************************************************************)
EXTENDS InternalKeys, SequencesExt

\* Values are numbers, and merging appends the digits of the newer one.
MergeValues(older, newer) == IF newer < 10 THEN 10 * older + newer
                             ELSE IF newer < 100 THEN 100 * older + newer ELSE 1000 * older + newer

Seen(s) == {w \in s.writes : w.seq < s.seqNum \/ w.seq >= SeqNumBatch}
Covered(s, w) == \E t \in Seen(s) : /\ t.kind = KindRangeDelete /\ t.seq > w.seq
                                    /\ t.key <= w.key /\ w.key < t.val
Versions(s, k) ==
    Sorted({w \in Seen(s) : w.key = k /\ w.kind # KindRangeDelete /\ ~Covered(s, w)},
                 LAMBDA a, b : a.seq > b.seq)
\* The versions, newest first, down to the first that is not a merge operand.
RECURSIVE Meaning(_)
Meaning(vs) ==
    IF vs = <<>> \/ Head(vs).kind \in {KindDelete, KindSingleDelete} THEN <<>>
    ELSE IF Head(vs).kind = KindSet THEN <<Head(vs).val>>
    ELSE LET rest == Meaning(Tail(vs))
         IN  IF rest = <<>> THEN <<Head(vs).val>> ELSE <<MergeValues(rest[1], Head(vs).val)>>
ViewOf(s) ==
    LET keys == {k \in {w.key : w \in s.writes} : Meaning(Versions(s, k)) # <<>>}
    IN  [k \in keys |-> Meaning(Versions(s, k))[1]]
=============================================================================
