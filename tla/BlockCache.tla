----------------------------- MODULE BlockCache -----------------------------
(***************************************************************************)
(* One shard of the block cache (internal/cache): a CLOCK-Pro clock over   *)
(* blocks, with reference counted values.  An entry holds one reference to *)
(* its value and every Handle another one; the buffer is freed when the    *)
(* last is released.  Every operation runs under shard.mu, the counts of   *)
(* the values are changed without it.                                      *)
(*                                                                         *)
(* The files map is the entries of a file, and the Robin Hood maps are the *)
(* function bc.ent.                                                        *)
(***************************************************************************)
EXTENDS ClockPro, FiniteSets

CONSTANTS
  Blocks,       \* the block keys <<file, offset>>
  BlockSizes,   \* the length of each block
  MaxSize,      \* shard.maxSize
  Reservation,  \* the bytes one memtable reserves
  MaxReserved,  \* how many bytes may be reserved in total
  Bufs          \* values that can be allocated at a time

VARIABLES
  bc,         \* the clock of the shard
  refs,       \* Value.ref by value; 0: freed
  reserved,   \* shard.reservedSize
  cacheRefs   \* Cache.refs

blockVars == <<bc, refs, reserved, cacheRefs>>

\* targetSize
TargetSize(res) == IF MaxSize - res < 1 THEN 1 ELSE MaxSize - res

\* Cache.New; the database and its table cache each hold a reference.
BlockCacheInit ==
  /\ bc = EmptyClock(MaxSize)
  /\ refs = [b \in Bufs |-> 0]
  /\ reserved = 0
  /\ cacheRefs = 2

\* The references in r after the entries in out gave up theirs.
Released(r, out) ==
  [b \in Bufs |-> r[b] - Cardinality({i \in DOMAIN out : out[i] = b})]

\* The clock between two operations: nothing left to release.
Settled(c) ==
  [c EXCEPT !.out = <<>>, !.moves = IF c.moves < MaxHandMoves THEN 0 ELSE MaxHandMoves]

\* An operation that leaves the clock c and, before the releases, the counts r.
Install(c, r) ==
  /\ bc' = Settled(c)
  /\ refs' = Released(r, c.out)

\* shard.Get: what a lookup finds.
Cached(k) == IF k \in DOMAIN bc.ent THEN bc.ent[k].val ELSE Nil

\* A hit takes a reference for the Handle and sets the referenced bit; old is
\* the handle that the block iterator held until then.
GetHit(k, old) ==
  /\ Cached(k) # Nil
  /\ bc' = [bc EXCEPT !.ent[k].referenced = TRUE]
  /\ refs' = Released([refs EXCEPT ![Cached(k)] = @ + 1], IF old = Nil THEN <<>> ELSE <<old>>)
  /\ UNCHANGED <<reserved, cacheRefs>>

\* Cache.Alloc: a value with one reference, which nobody else knows of.
Alloc(b) ==
  /\ refs[b] = 0
  /\ refs' = [refs EXCEPT ![b] = 1]
  /\ UNCHANGED <<bc, reserved, cacheRefs>>

\* Handle.Release and Cache.Free
ReleaseHandle(b) ==
  /\ refs' = IF b = Nil THEN refs ELSE Released(refs, <<b>>)
  /\ UNCHANGED <<bc, reserved, cacheRefs>>

NewPage(k, b, ptype) ==
  [ptype |-> ptype, referenced |-> FALSE, size |-> BlockSizes[k], val |-> b]

\* Mutant: the old value keeps the entry's reference.
ReplaceKeeping(c, k, b) ==
  Evict([c EXCEPT !.ent[k].val = b, !.ent[k].referenced = TRUE])

\* A new value for a page that has one.
Replace(c, k, b) ==
  Evict([ClearValue(c, k) EXCEPT !.ent[k].val = b, !.ent[k].referenced = TRUE])

\* A value for a test page: it comes back as a hot page and the cold target grows.
Promote(c, k, b) ==
  LET grown == c.coldTarget + c.ent[k].size
      d == [MetaEvict(c, k) EXCEPT !.coldTarget = IF grown > c.target THEN c.target ELSE grown]
  IN MetaAdd(d, k, NewPage(k, b, "hot"))

\* shard.Set: the entry takes a reference to the value, the first one goes to
\* the Handle that is returned; old as in GetHit.
SetBlock(k, b, old) ==
  /\ LET c == IF k \notin DOMAIN bc.ent THEN MetaAdd(bc, k, NewPage(k, b, "cold"))
              ELSE IF Cached(k) # Nil THEN Replace(bc, k, b)
              ELSE Promote(bc, k, b)
     IN Install(c, [bb \in Bufs |-> refs[bb] + (IF bb = b THEN 1 ELSE 0)
                                            - (IF bb = old THEN 1 ELSE 0)])
  /\ UNCHANGED <<reserved, cacheRefs>>

\* shard.Delete: the second look, with the lock held exclusively, decides.
DeleteBlock(k) ==
  /\ k \in DOMAIN bc.ent
  /\ Install(MetaEvict(bc, k), refs)
  /\ UNCHANGED <<reserved, cacheRefs>>

\* shard.EvictFile: every entry of the file goes, test pages too.
EvictFile(f) ==
  /\ LET Gone(k) == k[1] = f
         c == FoldLeft(MetaEvict, bc, SelectSeq(bc.ring, Gone))
     IN Install(c, refs)
  /\ UNCHANGED <<reserved, cacheRefs>>

\* shard.Reserve: the target shrinks, or grows back, and the rest is evicted.
Reserve(n) ==
  /\ reserved' = reserved + n
  /\ Install(Evict([bc EXCEPT !.target = TargetSize(reserved + n)]), refs)
  /\ UNCHANGED cacheRefs

\* Cache.Unref by n holders: the last one frees every entry (shard.Free).
Unref(n) ==
  /\ cacheRefs' = cacheRefs - n
  /\ IF cacheRefs = n
     THEN Install(FoldLeft(MetaDel, bc, bc.ring), refs)
     ELSE UNCHANGED <<bc, refs>>
  /\ UNCHANGED reserved

-----------------------------------------------------------------------------
(* The clock of the block cache agrees with its entries until the last
   reference to the cache frees it.  No sequence of operations makes an
   eviction turn the hands for ever (evict, runHandCold, runHandHot and
   runHandTest call each other), and the cache stays below twice its target:
   it holds less than the target before a block is added, a block larger than
   the target is not added, and a reservation that shrinks the target evicts
   at once. *)
BlockClockOK ==
  /\ cacheRefs > 0 => ClockOK(bc)
  /\ bc.moves = 0
  /\ bc.size["hot"] + bc.size["cold"] < 2 * bc.target
=============================================================================
