------------------------------ MODULE ClockPro ------------------------------
(***************************************************************************)
(* The CLOCK-Pro page replacement that the block cache                     *)
(* (internal/cache/clockpro.go) and the table cache (table_cache.go) each  *)
(* implement over their own entries.                                       *)
(*                                                                         *)
(* A clock is a record:                                                    *)
(*   ring        the circular list of entries, from the hot hand on;       *)
(*   cold, test  the entries the other two hands point at (Nil: none);     *)
(*   ent         the entries by key: page type, referenced bit, size and   *)
(*               the value held (Nil for a test page);                     *)
(*   size        the bytes counted for each page type;                     *)
(*   coldTarget  the share of the space meant for cold pages;              *)
(*   target      the space there is (targetSize, or the table cache size); *)
(*   out         the values whose entry dropped its reference;             *)
(*   moves       how often a hand was run by the present operation.        *)
(* The operators are the code's mutually recursive functions, so this      *)
(* module is for TLC only.                                                 *)
(***************************************************************************)
EXTENDS Integers, Sequences, SequencesExt

CONSTANTS
  Nil,           \* no entry, no value
  MaxHandMoves   \* hand movements after which an operation counts as endless

PageTypes == {"hot", "cold", "test"}

EmptyClock(target) ==
  [ring |-> <<>>, cold |-> Nil, test |-> Nil, ent |-> <<>>,
   size |-> [p \in PageTypes |-> 0], coldTarget |-> target, target |-> target,
   out |-> <<>>, moves |-> 0]

HotHand(c) == IF c.ring = <<>> THEN Nil ELSE c.ring[1]

IndexIn(ring, k) == CHOOSE i \in 1..Len(ring) : ring[i] = k

\* The neighbours of k on the circular list.
NextEntry(c, k) == IF k = Nil THEN Nil ELSE c.ring[(IndexIn(c.ring, k) % Len(c.ring)) + 1]

PrevEntry(c, k) ==
  IF k = Nil THEN Nil
  ELSE c.ring[((IndexIn(c.ring, k) + Len(c.ring) - 2) % Len(c.ring)) + 1]

\* The circular list seen from k on.
RingFrom(ring, k) ==
  LET i == IndexIn(ring, k) IN SubSeq(ring, i, Len(ring)) \o SubSeq(ring, 1, i - 1)

\* A page changes its type; its bytes are counted with the new one.
Retype(c, k, ptype) ==
  LET e == c.ent[k]
  IN [c EXCEPT !.size = [@ EXCEPT ![e.ptype] = @ - e.size, ![ptype] = @ + e.size],
               !.ent[k].ptype = ptype]

\* The entry gives up its reference to its value.
ClearValue(c, k) ==
  IF c.ent[k].val = Nil THEN c
  ELSE [c EXCEPT !.out = Append(@, c.ent[k].val), !.ent[k].val = Nil]

\* The entry joins the list just behind the hot hand.
LinkEntry(c, k, e) ==
  LET d == [c EXCEPT !.ring = Append(@, k), !.ent = (k :> e) @@ @]
      first == [d EXCEPT !.cold = k, !.test = k]
  IN IF c.ring = <<>> THEN first
     ELSE [d EXCEPT !.cold = IF @ = HotHand(d) THEN PrevEntry(d, @) ELSE @]

\* metaDel: the entry leaves the maps and the list, and no hand stays on it.
MetaDel(c, k) ==
  LET d   == ClearValue(c, k)
      off(h) == IF h = k THEN PrevEntry(d, h) ELSE h
      rest == [d.ent EXCEPT ![k].val = Nil]
  IN IF Len(d.ring) = 1
     THEN [d EXCEPT !.ring = <<>>, !.cold = Nil, !.test = Nil, !.ent = <<>>]
     ELSE [d EXCEPT !.ring = Remove(RingFrom(@, off(HotHand(d))), k),
                    !.cold = off(@), !.test = off(@),
                    !.ent = [j \in DOMAIN rest \ {k} |-> rest[j]]]

\* metaEvict: the same, and its bytes are no longer counted.
MetaEvict(c, k) ==
  MetaDel([c EXCEPT !.size[c.ent[k].ptype] = @ - c.ent[k].size], k)

RECURSIVE RunHandCold(_), RunHandHot(_), RunHandTest(_), TrimTest(_), TrimHot(_), Evict(_)

MayMove(c) == c.moves < MaxHandMoves

Counted(c) == [c EXCEPT !.moves = @ + 1]

\* runHandCold: a cold page that was referenced becomes hot, another one loses
\* its value and is kept as a test page; then too many test or hot pages move
\* the other hands.
RunHandCold(c) ==
  LET k == c.cold
      e == c.ent[k]
      swept == IF e.ptype # "cold" THEN c
               ELSE IF e.referenced
                    THEN [Retype(c, k, "hot") EXCEPT !.ent[k].referenced = FALSE]
                    ELSE TrimTest(Retype(ClearValue(c, k), k, "test"))
      moved == [swept EXCEPT !.cold = NextEntry(swept, @)]
  IN TrimHot(Counted(moved))

TrimTest(c) ==
  IF c.target < c.size["test"] /\ c.test # Nil /\ MayMove(c)
  THEN TrimTest(RunHandTest(c)) ELSE c

TrimHot(c) ==
  IF c.target - c.coldTarget <= c.size["hot"] /\ HotHand(c) # Nil /\ MayMove(c)
  THEN TrimHot(RunHandHot(c)) ELSE c

\* runHandHot: a hot page loses its referenced bit or becomes cold; the test
\* hand runs first when it stands at the same entry.
SweepHot(c) ==
  LET k == HotHand(c)
      e == c.ent[k]
      swept == IF e.ptype # "hot" THEN c
               ELSE IF e.referenced THEN [c EXCEPT !.ent[k].referenced = FALSE]
                    ELSE Retype(c, k, "cold")
  IN [swept EXCEPT !.ring = RingFrom(@, NextEntry(c, k))]

RunHandHot(c) ==
  LET d == Counted(IF HotHand(c) = c.test /\ c.test # Nil THEN RunHandTest(c) ELSE c)
  IN IF HotHand(d) = Nil THEN d ELSE SweepHot(d)

\* runHandTest: a test page is forgotten and the cold target shrinks; the cold
\* hand runs first when it stands at the same entry.
SweepTest(c) ==
  LET k == c.test
      e == c.ent[k]
      left == c.coldTarget - e.size
      swept == IF e.ptype # "test" THEN c
               ELSE MetaEvict([c EXCEPT !.coldTarget = IF left < 0 THEN 0 ELSE left], k)
  IN [swept EXCEPT !.test = NextEntry(swept, @)]

RunHandTest(c) ==
  LET d == Counted(IF c.size["cold"] > 0 /\ c.test = c.cold /\ c.cold # Nil
                   THEN RunHandCold(c) ELSE c)
  IN IF d.test = Nil THEN d ELSE SweepTest(d)

\* evict: the cold hand runs until there is space.
Evict(c) ==
  IF c.target <= c.size["hot"] + c.size["cold"] /\ c.cold # Nil /\ MayMove(c)
  THEN Evict(RunHandCold(c)) ELSE c

\* metaAdd with the caller's accounting: space is made, then the entry is
\* linked and its bytes counted; one larger than the whole cache is dropped.
MetaAdd(c, k, e) ==
  LET d == Evict(c)
  IN IF e.size > d.target THEN [d EXCEPT !.out = Append(@, e.val)]
     ELSE [LinkEntry(d, k, e) EXCEPT !.size[e.ptype] = @ + e.size]

-----------------------------------------------------------------------------
(* What a clock must be between two operations. *)

SumOf(c, ptype) ==
  LET sizes == [k \in DOMAIN c.ent |-> IF c.ent[k].ptype = ptype THEN c.ent[k].size ELSE 0]
  IN FoldFunction(+, 0, sizes)

\* The list holds every entry once, the hands stand on it, the byte counts are
\* those of the entries of each type, and exactly the test pages hold no value.
ClockOK(c) ==
  /\ IsInjective(c.ring) /\ ToSet(c.ring) = DOMAIN c.ent
  /\ IF c.ring = <<>> THEN c.cold = Nil /\ c.test = Nil
     ELSE c.cold \in DOMAIN c.ent /\ c.test \in DOMAIN c.ent
  /\ \A p \in PageTypes : c.size[p] = SumOf(c, p)
  /\ \A k \in DOMAIN c.ent : (c.ent[k].ptype = "test") <=> (c.ent[k].val = Nil)
  /\ c.coldTarget >= 0
=============================================================================
