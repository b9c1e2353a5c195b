---------------------------- MODULE InternalKeys ----------------------------
(***************************************************************************)
(* User keys and internal keys (internal/base).                            *)
(*                                                                         *)
(* A user key is a string of one or two bytes, written as a decimal        *)
(* number: 24 is the string <<2, 4>> and 20 the string <<2>>.  The bytes   *)
(* are 1..9, so the order of the numbers is the order of the strings.      *)
(* Nil stands for the absent key (a nil slice).                            *)
(***************************************************************************)
EXTENDS Integers, Sequences, FiniteSetsExt, SequencesExt

Nil == 0

UserBytes(k) == IF k % 10 = 0 THEN <<k \div 10>> ELSE <<k \div 10, k % 10>>
UserKey(bytes) == IF Len(bytes) = 1 THEN 10 * bytes[1] ELSE 10 * bytes[1] + bytes[2]

\* The prefix Comparer.Split selects: the first byte.
Prefix(k) == 10 * (k \div 10)

KindDelete == 0
KindSet == 1
KindMerge == 2
KindLogData == 3
KindSingleDelete == 7
KindRangeDelete == 15
KindMax == 17
KindInvalid == 255

\* The real value is 2^56 - 1.  Sequence numbers of a batch that is not
\* committed carry a bit above every committed number.
SeqNumMax == 999
SeqNumBatch == 500

MakeInternalKey(key, seq, kind) == [key |-> key, seq |-> seq, kind |-> kind]
MakeSearchKey(key) == MakeInternalKey(key, SeqNumMax, KindMax)
MakeRangeDeleteSentinelKey(key) == MakeInternalKey(key, SeqNumMax, KindRangeDelete)
NoKey == MakeInternalKey(Nil, 0, KindDelete)
\* What an iterator returns when it has no entry: a nil key.
NoEntry == [key |-> NoKey, val |-> Nil]

Trailer(ik) == 256 * ik.seq + ik.kind

\* InternalCompare(a, b) < 0 and <= 0: user keys ascending, trailers descending.
Less(a, b) == \/ a.key < b.key
              \/ a.key = b.key /\ Trailer(a) > Trailer(b)
LessEq(a, b) == \/ a.key < b.key
                \/ a.key = b.key /\ Trailer(a) >= Trailer(b)

\* A set as a sequence in the order of before.
Sorted(S, before(_, _)) ==
    FoldSet(LAMBDA x, s : InsertAt(s, 1 + Cardinality({i \in DOMAIN s : before(s[i], x)}), x), <<>>, S)

IsExclusiveSentinel(ik) == ik.seq = SeqNumMax /\ ik.kind = KindRangeDelete

\* Comparer.Separator and Comparer.Successor of DefaultComparer on strings of
\* at most two bytes.
SepUserKey(a, b) ==
    LET x == UserBytes(a)
        y == UserBytes(b)
        i == IF x[1] # y[1] THEN 1 ELSE 2
        m == IF Len(x) < Len(y) THEN Len(x) ELSE Len(y)
    IN  IF i > m \/ x[i] >= y[i] THEN a
        ELSE IF i < Len(y) \/ x[i] + 1 < y[i]
             THEN UserKey(SubSeq([x EXCEPT ![i] = @ + 1], 1, i))
             ELSE IF i < Len(x) THEN UserKey([x EXCEPT ![i + 1] = @ + 1])
                                ELSE a
SuccUserKey(a) == IF a = Nil THEN Nil ELSE 10 * (a \div 10) + 10

Shortened(k, u) ==
    IF Len(UserBytes(u)) <= Len(UserBytes(k.key)) /\ k.key < u
    THEN MakeInternalKey(u, SeqNumMax, KindMax) ELSE k
Separator(k, other) == Shortened(k, SepUserKey(k.key, other.key))
Successor(k) == Shortened(k, SuccUserKey(k.key))

\* InternalKey.Visible: an entry of a batch is visible through its bit, any
\* other entry below the snapshot.
Visible(ik, snapshot) == ik.seq < snapshot \/ ik.seq >= SeqNumBatch

\* InternalKey.Encode and DecodeInternalKey: the user key's bytes, then the
\* trailer (eight bytes in the file, one element here).
Encode(ik) == Append(UserBytes(ik.key), Trailer(ik))
DecodeInternalKey(bytes) ==
    LET n == Len(bytes)
    IN  IF n = 0 THEN MakeInternalKey(Nil, 0, KindInvalid)
        ELSE MakeInternalKey(UserKey(SubSeq(bytes, 1, n - 1)), bytes[n] \div 256, bytes[n] % 256)
=============================================================================
