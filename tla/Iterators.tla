------------------------------ MODULE Iterators -----------------------------
(***************************************************************************)
(* A client of Iterator and of DB.Get over a store: an indexed batch, the  *)
(* queue of memtables and the levels of tables.  Every call is made in     *)
(* lockstep with the ordered map of module OrderedView.                    *)
(*                                                                         *)
(* A store has batch (<<>> or one source), memtables (oldest first) and    *)
(* levels; writes is the set of the operations it was made from, seqNum    *)
(* the sequence number the client reads at, bounds the bounds it sets, and *)
(* faults what may be unreadable during one of its calls.                  *)
(*                                                                         *)
(* The iterators themselves are parameters: UserIter and the modules below *)
(* it define them.  A call has op, key, fp (for SeekPrefixGE, whether the  *)
(* filters that do not hold the prefix report it anyway), bounds, and the  *)
(* tables and blocks that cannot be read during the call.                  *)
(***************************************************************************)
EXTENDS StoreView, OrderedView

CONSTANTS Stores,        \* the descriptions of the stores
          Built(_),      \* the store of a description
          GetKeys,       \* the keys looked up with Get
          MaxFaults,     \* how many calls may fail in a behaviour
          Opened(_, _),  \* the iterator over a store with some bounds
          Called(_, _),  \* the iterator after a call
          Failed(_),     \* whether an iterator reports an error
          Got(_, _)      \* what Get of a key in a store returns

VARIABLES store, it, failures
iterVars == <<store, it, failures, view, bounds, cursor>>

-----------------------------------------------------------------------------
NoFaults == [files |-> {}, blocks |-> {}]
Call(op, key) == [op |-> op, key |-> key, fp |-> FALSE, bounds |-> bounds, faults |-> NoFaults]
Seeks == {"SeekGE", "SeekLT", "SeekPrefixGE"}
Moves == {"First", "Last", "Next", "Prev"}
Calls == {Call(op, k) : op \in Seeks, k \in ViewKeys}
         \cup {[Call("SeekPrefixGE", k) EXCEPT !.fp = TRUE] : k \in ViewKeys}
         \cup {Call(op, Absent) : op \in Moves \cup {"Clone"}}
         \cup {[Call("SetBounds", Absent) EXCEPT !.bounds = b] : b \in store.bounds \ {bounds}}
FailingCalls == {[Call(op, k) EXCEPT !.faults = f] : op \in Seeks, k \in ViewKeys, f \in store.faults}
                \cup {[Call(op, Absent) EXCEPT !.faults = f] : op \in Moves, f \in store.faults}

IterInit == /\ store \in {Built(s) : s \in Stores}
            /\ view = ViewOf(store)
            /\ ViewInit(store.bounds)
            /\ it = Opened(store, bounds)
            /\ failures = 0

\* What the client expects of a call.
Promise(c) == CASE c.op = "SeekGE" -> ViewSeekGE(c.key)
                [] c.op = "SeekLT" -> ViewSeekLT(c.key)
                [] c.op = "SeekPrefixGE" -> ViewSeekPrefixGE(c.key)
                [] c.op = "First" -> ViewFirst
                [] c.op = "Last" -> ViewLast
                [] c.op = "Next" -> ViewNext
                [] c.op = "Prev" -> ViewPrev
                [] c.op \in {"SetBounds", "Clone"} -> ViewLost

\* During a failing call some tables or blocks cannot be read.  It may report
\* that; so may the next absolute call, when it closes a table iterator that
\* still holds the error, but no call after it.
Forward == {"SeekGE", "SeekPrefixGE", "First", "Next"}
MayFail(c) == c.faults # NoFaults \/ (cursor.how = "failed" /\ ~cursor.stale)

\* Next and Prev look at Iterator.err only, and a failed read is an error of the
\* merging iterator.  In the direction of the failed call that one returns
\* nothing; in the other direction it is taken to be exhausted, and is
\* positioned anew at its first or last key.
Stays(c) == \/ cursor.how = "error" /\ c.op \in {"Next", "Prev"}
            \/ cursor.prefix # Absent /\ c.op = "Prev"
            \/ cursor.how = "failed" /\ c.op = (IF cursor.forward THEN "Next" ELSE "Prev")
Restarts(c) == cursor.how = "failed" /\ c.op \in {"Next", "Prev"} /\ ~Stays(c)
Restart(c) == IF c.op = "Next" THEN ViewFirst ELSE ViewLast

PrefixAfter(c) == CASE c.op = "SeekPrefixGE" -> PrefixOf(c.key)
                    [] c.op = "Next" -> cursor.prefix
                    [] OTHER -> Absent
Outcome(c) ==
    IF Stays(c) THEN Promise(c)
    ELSE IF MayFail(c) /\ Failed(it') THEN ViewFailed(c.op \in Forward, PrefixAfter(c), c.faults = NoFaults)
    ELSE IF Restarts(c) THEN Restart(c) ELSE Promise(c)

\* Clone makes a new iterator over the same sources with the same bounds.
CallIterator(c) ==
    /\ c.op \in {"Next", "Prev"} => cursor.how # "unset"
    /\ c.faults # NoFaults => failures < MaxFaults
    /\ failures' = IF c.faults # NoFaults THEN failures + 1 ELSE failures
    /\ it' = IF c.op = "Clone" THEN Opened(store, bounds) ELSE Called(it, c)
    /\ Outcome(c)
    /\ bounds' = c.bounds
    /\ UNCHANGED <<store, view>>

IterNext_ == \E c \in Calls \cup FailingCalls : CallIterator(c)
IterSpec == IterInit /\ [][IterNext_]_iterVars

-----------------------------------------------------------------------------
\* Iterator is the ordered map it promises to be: whatever positions the
\* iterators below it are left in by earlier calls, by a change of direction, by
\* a failed read or by bounds, a call ends on the key, the value and the error
\* of the map.  A call during which a read fails reports an error or gives the
\* right answer all the same.  The calls after it do not go wrong: Next and Prev
\* in its direction stay put and keep the error; the first absolute call, or
\* change of direction, may report it once more, and whatever reports no error
\* is right.  This is less than the comment of Iterator says, which has absolute
\* positioning reset the error and Next and Prev never move after one.
IteratorMatchesView ==
    cursor.how # "unset" =>
        /\ Failed(it) <=> cursor.how \in {"error", "failed"}
        /\ cursor.how \notin {"error", "failed"} => (it.valid <=> cursor.how = "at")
        /\ cursor.how = "at" => it.key = cursor.key /\ it.value = cursor.val

\* DB.Get, which stops at the first level with an answer, agrees with the map.
GetMatchesView ==
    cursor.how = "unset" =>
        \A k \in GetKeys : LET g == Got(store, k)
                          IN  /\ ~g.err
                              /\ g.found <=> k \in DOMAIN view
                              /\ g.found => g.value = view[k]
=============================================================================
