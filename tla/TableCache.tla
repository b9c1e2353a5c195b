----------------------------- MODULE TableCache -----------------------------
(***************************************************************************)
(* One shard of the table cache (table_cache.go) over the block cache: the *)
(* sstable readers that goroutines share, opened on the first use of a     *)
(* table, replaced by the clock, and closed by whoever drops the last      *)
(* reference, through releasingCh and its goroutine.                       *)
(*                                                                         *)
(* Threads are goroutines that use a table through findNode: they open an  *)
(* iterator (newIters) and read blocks with it, or use the reader for one  *)
(* call (withReader, getTableProperties).  While they do, a version they   *)
(* reference keeps the table from becoming obsolete.  The cleaner deletes  *)
(* obsolete tables (evict), also while the database closes; DB.Close is    *)
(* called when no call is under way, but iterators may be leaked and their *)
(* Close may overlap.  Opening a table and reading a block may fail.       *)
(***************************************************************************)
EXTENDS BlockCache

CONSTANTS
  Threads,
  Files,       \* table numbers
  TableSize,   \* tableCacheShard.size
  Values,      \* tableCacheValues that exist at a time
  ChanCap,     \* capacity of releasingCh
  Budgets      \* how many calls of findNode, block reads, and reservations or
               \* deletions there may be: the mixes that are explored

VARIABLES
  tc,          \* the clock of the shard: nodes and hands
  tv,          \* [Values -> the value, or Nil]
  mu,          \* who holds c.mu across steps, or Nil
  releasingCh, closedCh,
  releasing,   \* the WaitGroup
  iterCount,
  loop,        \* the value releaseLoop is releasing, or Nil
  th,          \* what each thread is doing
  cleaner,     \* the evict call under way
  closer,      \* DB.Close
  evicted,     \* tables whose evict call has started
  left,        \* what is left of the budget
  failed       \* the panics and Fatalf calls that happened

shardVars == <<tc, tv, mu, releasingCh, closedCh, releasing, iterCount, loop, th,
                cleaner, closer, evicted, failed>>
tableVars == <<shardVars, left>>
vars == <<tableVars, blockVars>>

Idle == [pc |-> "idle", file |-> Nil, val |-> Nil, buf |-> Nil, key |-> Nil, old |-> Nil,
         pend |-> <<>>, then |-> "idle"]

Init ==
  /\ BlockCacheInit
  /\ tc = EmptyClock(TableSize)
  /\ tv = [v \in Values |-> Nil]
  /\ mu = Nil /\ releasingCh = <<>> /\ closedCh = FALSE /\ releasing = 0
  /\ iterCount = 0 /\ loop = Nil /\ evicted = {} /\ failed = {}
  /\ left \in Budgets
  /\ th = [t \in Threads |-> Idle]
  /\ cleaner = [pc |-> "idle", file |-> Nil, val |-> Nil]
  /\ closer = [pc |-> "open", leaked |-> FALSE, pend |-> <<>>]

\* A slot for a new value: nobody refers to the one that was there.
FreeValue(v) == tv[v] = Nil /\ \A t \in Threads : th[t].val # v

FreeBuf(b) == refs[b] = 0 /\ \A t \in Threads : b \notin {th[t].buf, th[t].old}

NodeValue(f) == IF f \in DOMAIN tc.ent THEN tc.ent[f].val ELSE Nil

\* The values after one reference less to each value in out.
Unrefd(vals, out) ==
  [v \in Values |-> IF vals[v] = Nil THEN Nil
                    ELSE [vals[v] EXCEPT !.refs = @ - Cardinality({i \in DOMAIN out : out[i] = v})]]

\* clearNode under the lock: what dropped to zero is to be sent to releasingCh.
Zeroed(vals, out) ==
  LET IsZero(v) == Unrefd(vals, out)[v].refs = 0 IN SelectSeq(out, IsZero)

-----------------------------------------------------------------------------
(* findNode *)

\* The fast path: a hit takes a reference under the shared lock.
FindFast(t, f) ==
  /\ th[t].pc = "idle" /\ closer.pc = "open" /\ f \notin evicted /\ mu = Nil
  /\ left.finds > 0 /\ left' = [left EXCEPT !.finds = @ - 1]
  /\ LET v == NodeValue(f)
     IN IF v # Nil
        THEN /\ tv' = [tv EXCEPT ![v].refs = @ + 1]
             /\ th' = [th EXCEPT ![t] = [Idle EXCEPT !.pc = "mark", !.file = f, !.val = v]]
        ELSE /\ th' = [th EXCEPT ![t] = [Idle EXCEPT !.pc = "slow", !.file = f]]
             /\ UNCHANGED tv
  /\ UNCHANGED <<blockVars, tc, mu, releasingCh, closedCh, releasing, iterCount, loop,
                 cleaner, closer, evicted, failed>>

\* The referenced bit is set after the unlock.  A node that has another value
\* by then, or none, may be the one found or a new one.
MarkReferenced(t) ==
  LET f == th[t].file IN
  /\ th[t].pc = "mark"
  /\ th' = [th EXCEPT ![t].pc = "wait"]
  /\ \/ f \in DOMAIN tc.ent /\ tc' = [tc EXCEPT !.ent[f].referenced = TRUE]
     \/ NodeValue(f) # th[t].val /\ UNCHANGED tc
  /\ UNCHANGED <<blockVars, tv, mu, releasingCh, closedCh, releasing, iterCount, loop,
                 cleaner, closer, evicted, left, failed>>

NewNode(ptype, v) == [ptype |-> ptype, referenced |-> FALSE, size |-> 1, val |-> v]

\* addNode for a table that has no node, or a test node.
AddNode(c, f, v) == MetaAdd(c, f, NewNode("cold", v))

PromoteNode(c, f, v) ==
  LET grown == c.coldTarget + 1
      d == [MetaEvict(c, f) EXCEPT !.coldTarget = IF grown > TableSize THEN TableSize ELSE grown]
  IN MetaAdd(d, f, NewNode("hot", v))

\* The slow path: another thread may have added the node meanwhile; else the
\* node gets a value with two references, its own and the caller's.
FindSlow(t) ==
  LET f == th[t].file IN
  /\ th[t].pc = "slow" /\ mu = Nil
  /\ IF NodeValue(f) # Nil
     THEN /\ tv' = [tv EXCEPT ![NodeValue(f)].refs = @ + 1]
          /\ tc' = [tc EXCEPT !.ent[f].referenced = TRUE]
          /\ th' = [th EXCEPT ![t].pc = "wait", ![t].val = NodeValue(f)]
          /\ UNCHANGED mu
     ELSE \E v \in Values :
            LET new  == [file |-> f, refs |-> 2, loaded |-> FALSE, open |-> FALSE]
                c    == IF f \in DOMAIN tc.ent THEN PromoteNode(tc, f, v) ELSE AddNode(tc, f, v)
                pend == Zeroed(tv, c.out)
            IN /\ FreeValue(v) /\ \A u \in Values : u < v => ~FreeValue(u)
               /\ tc' = Settled(c)
               /\ tv' = [Unrefd(tv, c.out) EXCEPT ![v] = new]
               /\ mu' = IF pend = <<>> THEN Nil ELSE t
               /\ th' = [th EXCEPT ![t] = [@ EXCEPT !.val = v, !.pend = pend, !.then = "load",
                                                    !.pc = IF pend = <<>> THEN "load" ELSE "send"]]
  /\ UNCHANGED <<blockVars, releasingCh, closedCh, releasing, iterCount, loop, cleaner, closer,
                 evicted, left, failed>>

\* A value joins the wait group and is sent to releasingCh, which blocks while
\* it is full and panics when it is closed.
SendReleasing(v) ==
  /\ Len(releasingCh) < ChanCap
  /\ releasing' = releasing + 1
  /\ releasingCh' = IF closedCh THEN releasingCh ELSE Append(releasingCh, v)
  /\ failed' = IF closedCh THEN failed \cup {"send on closed channel"} ELSE failed

\* The next value that thread t has to send; with the last one it goes on.
Send(t) ==
  /\ th[t].pc = "send" /\ th[t].pend # <<>>
  /\ SendReleasing(th[t].pend[1])
  /\ LET rest == Tail(th[t].pend)
     IN /\ th' = [th EXCEPT ![t] = [@ EXCEPT !.pend = rest,
                                             !.pc = IF rest = <<>> THEN th[t].then ELSE "send"]]
        /\ mu' = IF mu = t /\ rest = <<>> THEN Nil ELSE mu
  /\ UNCHANGED <<blockVars, tc, tv, closedCh, iterCount, loop, cleaner, closer, evicted, left>>

\* tableCacheValue.load: the reader holds a reference to the block cache.
LoadOk(t) ==
  /\ th[t].pc = "load"
  /\ tv' = [tv EXCEPT ![th[t].val].loaded = TRUE, ![th[t].val].open = TRUE]
  /\ cacheRefs' = cacheRefs + 1
  /\ th' = [th EXCEPT ![t].pc = "found"]
  /\ UNCHANGED <<bc, refs, reserved, tc, mu, releasingCh, closedCh, releasing, iterCount, loop,
                 cleaner, closer, evicted, left, failed>>

\* A failed load takes the node out of the cache if it still holds this value.
LoadFail(t) ==
  LET f == th[t].file
      v == th[t].val IN
  /\ th[t].pc = "load" /\ mu = Nil
  /\ LET c == IF NodeValue(f) = v THEN MetaEvict(tc, f) ELSE tc
     IN /\ tc' = Settled(c)
        /\ tv' = [Unrefd(tv, c.out) EXCEPT ![v].loaded = TRUE]
  /\ th' = [th EXCEPT ![t].pc = "found"]
  /\ UNCHANGED <<blockVars, mu, releasingCh, closedCh, releasing, iterCount, loop, cleaner,
                 closer, evicted, left, failed>>

\* <-v.loaded
WaitLoaded(t) ==
  /\ th[t].pc = "wait" /\ tv[th[t].val].loaded
  /\ th' = [th EXCEPT ![t].pc = "found"]
  /\ UNCHANGED <<blockVars, tc, tv, mu, releasingCh, closedCh, releasing, iterCount, loop,
                 cleaner, closer, evicted, left, failed>>

-----------------------------------------------------------------------------
(* newIters, withReader, getTableProperties *)

\* unrefValue: whoever drops the last reference sends the value; then is what
\* the thread does next.
UnrefValue(t, then) ==
  LET v == th[t].val
      last == tv[v].refs = 1
  IN /\ tv' = [tv EXCEPT ![v].refs = @ - 1]
     /\ th' = [th EXCEPT ![t] = [@ EXCEPT !.pc = IF last THEN "send" ELSE then, !.then = then,
                                          !.pend = IF last THEN <<v>> ELSE <<>>]]

\* An error, a table filter, or a use within the call: the reference is dropped.
UseAndUnref(t) ==
  /\ th[t].pc = "found"
  /\ UnrefValue(t, "done")
  /\ UNCHANGED <<blockVars, tc, mu, releasingCh, closedCh, releasing, iterCount, loop, cleaner,
                 closer, evicted, left, failed>>

\* An iterator takes the reference over.
OpenIter(t) ==
  /\ th[t].pc = "found" /\ tv[th[t].val].open
  /\ iterCount' = iterCount + 1
  /\ th' = [th EXCEPT ![t].pc = "iter"]
  /\ UNCHANGED <<blockVars, tc, tv, mu, releasingCh, closedCh, releasing, loop, cleaner,
                 closer, evicted, left, failed>>

\* Reader.readBlock: a hit replaces the handle that the block iterator holds.
ReadHit(t, k) ==
  /\ th[t].pc = "iter" /\ k[1] = th[t].file
  /\ GetHit(k, th[t].buf)
  /\ th' = [th EXCEPT ![t].buf = Cached(k)]
  /\ UNCHANGED <<tc, tv, mu, releasingCh, closedCh, releasing, iterCount, loop, cleaner,
                 closer, evicted, left, failed>>

\* A miss allocates a value and reads the block into it ...
ReadMiss(t, k) ==
  /\ th[t].pc = "iter" /\ k[1] = th[t].file
  /\ Cached(k) = Nil
  /\ left.reads > 0 /\ left' = [left EXCEPT !.reads = @ - 1]
  /\ \E b \in Bufs :
       /\ FreeBuf(b) /\ \A a \in Bufs : a < b => ~FreeBuf(a)
       /\ Alloc(b)
       /\ th' = [th EXCEPT ![t] = [@ EXCEPT !.pc = "read", !.key = k, !.old = th[t].buf, !.buf = b]]
  /\ UNCHANGED <<tc, tv, mu, releasingCh, closedCh, releasing, iterCount, loop, cleaner,
                 closer, evicted, failed>>

\* ... which is then added to the cache ...
ReadDone(t) ==
  /\ th[t].pc = "read"
  /\ SetBlock(th[t].key, th[t].buf, th[t].old)
  /\ failed' = IF refs[th[t].buf] # 1 THEN failed \cup {"value already added"} ELSE failed
  /\ th' = [th EXCEPT ![t] = [@ EXCEPT !.pc = "iter", !.key = Nil, !.old = Nil]]
  /\ UNCHANGED <<tc, tv, mu, releasingCh, closedCh, releasing, iterCount, loop, cleaner,
                 closer, evicted, left>>

\* ... or freed when the read fails or the checksum is wrong.
ReadFail(t) ==
  /\ th[t].pc = "read"
  /\ ReleaseHandle(th[t].buf)
  /\ th' = [th EXCEPT ![t] = [@ EXCEPT !.pc = "iter", !.key = Nil, !.buf = th[t].old, !.old = Nil]]
  /\ UNCHANGED <<tc, tv, mu, releasingCh, closedCh, releasing, iterCount, loop, cleaner,
                 closer, evicted, left, failed>>

\* Closing the iterator: the close hook comes first and drops the reference to
\* the reader, while the iterator still holds its block.
CloseIter(t) ==
  /\ th[t].pc = "iter"
  /\ UnrefValue(t, "hook")
  /\ UNCHANGED <<blockVars, tc, mu, releasingCh, closedCh, releasing, iterCount, loop, cleaner, closer,
                 evicted, left, failed>>

\* The close hook ends; only now is the iterator no longer counted.
HookDone(t) ==
  /\ th[t].pc = "hook"
  /\ iterCount' = iterCount - 1
  /\ th' = [th EXCEPT ![t].pc = "handles"]
  /\ UNCHANGED <<blockVars, tc, tv, mu, releasingCh, closedCh, releasing, loop, cleaner,
                 closer, evicted, left, failed>>

\* Then the block iterators are closed: the handle goes when the reader may be
\* closed already, and the block cache itself freed.
ReleaseHandles(t) ==
  /\ th[t].pc = "handles"
  /\ ReleaseHandle(th[t].buf)
  /\ th' = [th EXCEPT ![t].pc = "done", ![t].buf = Nil]
  /\ UNCHANGED <<tc, tv, mu, releasingCh, closedCh, releasing, iterCount, loop, cleaner,
                 closer, evicted, left, failed>>

\* The version reference goes last.
Done(t) ==
  /\ th[t].pc = "done"
  /\ th' = [th EXCEPT ![t] = Idle]
  /\ UNCHANGED <<blockVars, tc, tv, mu, releasingCh, closedCh, releasing, iterCount, loop,
                 cleaner, closer, evicted, left, failed>>

-----------------------------------------------------------------------------
(* The release goroutine *)

\* tableCacheValue.release: the reader is closed, and with it its reference to
\* the block cache.
Release(v) ==
  /\ tv[v] # Nil /\ tv[v].loaded
  /\ tv' = [tv EXCEPT ![v] = Nil]
  /\ releasing' = releasing - 1
  /\ IF tv[v].open THEN Unref(1) ELSE UNCHANGED blockVars

Receive ==
  /\ loop = Nil /\ releasingCh # <<>>
  /\ loop' = releasingCh[1]
  /\ releasingCh' = Tail(releasingCh)
  /\ UNCHANGED <<blockVars, tc, tv, mu, closedCh, releasing, iterCount, th, cleaner, closer,
                 evicted, left, failed>>

ReleaseLoop ==
  /\ loop # Nil
  /\ Release(loop)
  /\ loop' = Nil
  /\ UNCHANGED <<tc, mu, releasingCh, closedCh, iterCount, th, cleaner, closer, evicted, left, failed>>

-----------------------------------------------------------------------------
(* evict, for an obsolete table that no version in use holds *)

\* The node goes and its reference must have been the last one.
EvictNode(f) ==
  /\ cleaner.pc = "idle" /\ closer.pc # "freed" /\ f \notin evicted /\ mu = Nil
  /\ \A t \in Threads : th[t].file # f
  /\ evicted' = evicted \cup {f}
  /\ LET v == NodeValue(f)
         c == IF f \in DOMAIN tc.ent THEN MetaEvict(tc, f) ELSE tc
     IN /\ tc' = Settled(c)
        /\ tv' = Unrefd(tv, c.out)
        /\ failed' = IF v # Nil /\ tv[v].refs # 1 THEN failed \cup {"refcount is not zero"}
                     ELSE failed
        /\ releasing' = IF v # Nil THEN releasing + 1 ELSE releasing
        /\ cleaner' = [pc |-> IF v # Nil THEN "release" ELSE "blocks", file |-> f, val |-> v]
  /\ UNCHANGED <<blockVars, mu, releasingCh, closedCh, iterCount, loop, th, closer, left>>

EvictRelease ==
  /\ cleaner.pc = "release"
  /\ Release(cleaner.val)
  /\ cleaner' = [cleaner EXCEPT !.pc = "blocks", !.val = Nil]
  /\ UNCHANGED <<tc, mu, releasingCh, closedCh, iterCount, loop, th, closer, evicted, left, failed>>

EvictBlocks ==
  /\ cleaner.pc = "blocks"
  /\ EvictFile(cleaner.file)
  /\ cleaner' = [pc |-> "idle", file |-> Nil, val |-> Nil]
  /\ UNCHANGED <<tc, tv, mu, releasingCh, closedCh, releasing, iterCount, loop, th, closer,
                 evicted, left, failed>>

-----------------------------------------------------------------------------
(* Memtables reserve space in the block cache; DB.Close *)

ReserveMemTable ==
  /\ closer.pc = "open" /\ reserved + Reservation <= MaxReserved
  /\ left.others > 0 /\ left' = [left EXCEPT !.others = @ - 1]
  /\ Reserve(Reservation)
  /\ UNCHANGED shardVars

ReleaseMemTable ==
  /\ reserved > 0 /\ closer.pc # "freed"
  /\ Reserve(-Reservation)
  /\ UNCHANGED tableVars

DeleteCached(k) ==
  /\ closer.pc = "open"
  /\ left.others > 0 /\ left' = [left EXCEPT !.others = @ - 1]
  /\ DeleteBlock(k)
  /\ UNCHANGED shardVars

Leaving(t) == th[t].pc \in {"idle", "iter", "hook", "handles", "done"} \/ th[t].then = "hook"

\* The values that the nodes hold, from the hot hand on.
NodeValues ==
  LET Held(f) == NodeValue(f) # Nil
      nodes == SelectSeq(tc.ring, Held)
  IN [i \in DOMAIN nodes |-> NodeValue(nodes[i])]

\* Mutant: the values are left to whoever drops another reference.
NoneUnused(out) == <<>>

\* Those whose node held the last reference.
Unused(out) == Zeroed(tv, out)

\* tableCacheShard.Close takes the lock, looks for leaked iterators and drops
\* the nodes' references.
CloseStart ==
  /\ closer.pc = "open" /\ mu = Nil /\ \A t \in Threads : Leaving(t)
  /\ tv' = Unrefd(tv, NodeValues)
  /\ closer' = [pc |-> "send", leaked |-> iterCount > 0, pend |-> Unused(NodeValues)]
  /\ tc' = EmptyClock(TableSize)
  /\ mu' = "closer"
  /\ UNCHANGED <<blockVars, releasingCh, closedCh, releasing, iterCount, loop, th, cleaner,
                 evicted, left, failed>>

CloseSend ==
  /\ closer.pc = "send" /\ closer.pend # <<>>
  /\ SendReleasing(closer.pend[1])
  /\ closer' = [closer EXCEPT !.pend = Tail(@)]
  /\ UNCHANGED <<blockVars, tc, tv, mu, closedCh, iterCount, loop, th, cleaner, evicted, left>>

\* Mutant: the release goroutine is shut down in any case.
CloseChAlways ==
  /\ closer.pc = "send" /\ closer.pend = <<>>
  /\ closedCh' = TRUE
  /\ closer' = [closer EXCEPT !.pc = "wait"]
  /\ UNCHANGED <<blockVars, tc, tv, mu, releasingCh, releasing, iterCount, loop, th, cleaner,
                 evicted, left, failed>>

\* The release goroutine is shut down unless iterators were leaked.
CloseCh ==
  /\ closer.pc = "send" /\ closer.pend = <<>>
  /\ closedCh' = ~closer.leaked
  /\ closer' = [closer EXCEPT !.pc = "wait"]
  /\ UNCHANGED <<blockVars, tc, tv, mu, releasingCh, releasing, iterCount, loop, th, cleaner,
                 evicted, left, failed>>

\* releasing.Wait, and the table cache's reference to the block cache.
CloseWait ==
  /\ closer.pc = "wait" /\ releasing = 0
  /\ mu' = Nil
  /\ closer' = [closer EXCEPT !.pc = "closed"]
  /\ Unref(1)
  /\ UNCHANGED <<tc, tv, releasingCh, closedCh, releasing, iterCount, loop, th, cleaner,
                 evicted, left, failed>>

\* DB.Close waits for the cleaners and drops the last reference.
CloseDone ==
  /\ closer.pc = "closed" /\ cleaner.pc = "idle"
  /\ closer.leaked \/ reserved = 0
  /\ closer' = [closer EXCEPT !.pc = "freed"]
  /\ Unref(1)
  /\ UNCHANGED <<tc, tv, mu, releasingCh, closedCh, releasing, iterCount, loop, th, cleaner,
                 evicted, left, failed>>

-----------------------------------------------------------------------------
ThreadStep(t) ==
  \/ MarkReferenced(t) \/ FindSlow(t) \/ Send(t) \/ LoadOk(t) \/ LoadFail(t) \/ WaitLoaded(t)
  \/ UseAndUnref(t) \/ OpenIter(t) \/ ReadDone(t) \/ ReadFail(t) \/ CloseIter(t)
  \/ HookDone(t) \/ ReleaseHandles(t) \/ Done(t)

CloseStep == CloseSend \/ CloseCh \/ CloseWait \/ CloseDone

Next ==
  \/ \E t \in Threads : \/ ThreadStep(t)
                        \/ \E f \in Files : FindFast(t, f)
                        \/ \E k \in Blocks : ReadHit(t, k) \/ ReadMiss(t, k)
  \/ Receive \/ ReleaseLoop
  \/ \E f \in Files : EvictNode(f)
  \/ EvictRelease \/ EvictBlocks
  \/ ReserveMemTable \/ ReleaseMemTable
  \/ \E k \in Blocks : DeleteCached(k)
  \/ CloseStart \/ CloseStep

Spec == Init /\ [][Next]_vars

-----------------------------------------------------------------------------
(* The counters and hands of both clocks agree with their entries, after any
   interleaving of hits, loads that fail, replacements, evictions and a late
   referenced bit (table_cache.go addNode, unlinkNode; clockpro.go metaAdd,
   metaDel, Reserve): an entry that was forgotten or counted twice would make a
   cache shrink or grow for ever.  Evictions end. *)
ClocksConsistent == BlockClockOK /\ ClockOK(tc) /\ tc.moves = 0

\* Who holds a reference to a reader, and to a buffer.
ValueHolders(v) ==
  Cardinality({f \in DOMAIN tc.ent : tc.ent[f].val = v})
    + Cardinality({t \in Threads : th[t].val = v /\ th[t].pc \notin {"send", "hook", "handles", "done"}})
    + Cardinality({t \in Threads : th[t].val = v /\ th[t].pc = "send" /\ th[t].then = "load"})

BufHolders(b) ==
  Cardinality({k \in DOMAIN bc.ent : bc.ent[k].val = b})
    + Cardinality({t \in Threads : th[t].buf = b}) + Cardinality({t \in Threads : th[t].old = b})

(* Every reference is counted: the readers and the buffers that a goroutine
   uses stay open and allocated until it is done, whatever the clocks, the
   cleaner and Close do meanwhile (unrefValue, tableCacheValue.release, Close;
   entry.setValue, Handle.Release), none is kept by a count that nobody will
   drop, and the release goroutine never has to wait for a load.  An iterator
   that is closing holds its block longer than the reader and than the
   reference that keeps the block cache (singleLevelIterator.Close). *)
ReferencesExact ==
  /\ \A v \in Values : tv[v] # Nil =>
       tv[v].refs = ValueHolders(v) /\ (tv[v].refs = 0 => tv[v].loaded)
  /\ \A t \in Threads : th[t].pc \in {"iter", "read"} =>
       tv[th[t].val] # Nil /\ tv[th[t].val].open /\ cacheRefs > 0
  /\ \A b \in Bufs : refs[b] = BufHolders(b)

(* No goroutine sends to a closed channel, evicts a table in use, adds a value
   twice or makes the wait group negative, while Close, evict and the close
   hooks of leaked iterators overlap (closeHook: iterCount is decremented last;
   evict: releasing is incremented under the lock). *)
NoCachePanic == failed = {} /\ releasing >= 0

(* What is given up is gone.  When evict returns the table is in neither cache
   and stays out, so that no block of a deleted table uses space for ever: no
   goroutine that is still closing its iterator puts one back.  This is not a
   claim about the reader, which may still wait in releasingCh then.  After
   DB.Close, and the Close of the iterators it reported as leaked, every reader
   is closed and every buffer freed, also when the last block handle is released
   after the cache was. *)
NothingLeaks ==
  /\ \A f \in evicted : cleaner.file # f =>
       f \notin DOMAIN tc.ent /\ \A k \in DOMAIN bc.ent : k[1] # f
  /\ (closer.pc = "freed" /\ (\A t \in Threads : th[t].pc = "idle") /\ releasingCh = <<>> /\ loop = Nil)
       => (\A v \in Values : tv[v] = Nil) /\ (\A b \in Bufs : refs[b] = 0) /\ cacheRefs = 0
=============================================================================
