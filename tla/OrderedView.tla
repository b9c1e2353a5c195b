----------------------------- MODULE OrderedView ----------------------------
(***************************************************************************)
(* What an Iterator promises its client: a walk over the ordered map that  *)
(* the visible versions amount to, inside the bounds.                      *)
(*                                                                         *)
(* view maps the keys that have a value to it.  bounds is <<lower, upper>>,*)
(* Nil for an absent bound.  cursor is at a key, past the end, before the  *)
(* start, or nowhere: not positioned yet, or after an error.  A cursor     *)
(* with a prefix sees only the keys of that prefix, and cannot go back.    *)
(* After a failed read it remembers the direction of the call and whether  *)
(* the error was an old one; Next and Prev stay there.                     *)
(***************************************************************************)
EXTENDS Integers, FiniteSets, FiniteSetsExt

CONSTANT ViewKeys        \* the keys a client may seek
VARIABLES view, bounds, cursor

Absent == 0
PrefixOf(k) == 10 * (k \div 10)

Cursor(how, key, prefix) ==
    [how |-> how, key |-> key, val |-> IF how = "at" THEN view[key] ELSE Absent, prefix |-> prefix]

InBounds(k) == /\ bounds[1] # Absent => bounds[1] <= k
               /\ bounds[2] # Absent => k < bounds[2]
Live(prefix) == {k \in DOMAIN view : InBounds(k) /\ (prefix # Absent => PrefixOf(k) = prefix)}

AtFirst(S, prefix) == IF S = {} THEN Cursor("end", Absent, prefix)
                                ELSE Cursor("at", Min(S), prefix)
AtLast(S) == IF S = {} THEN Cursor("start", Absent, Absent) ELSE Cursor("at", Max(S), Absent)

ViewInit(B) == /\ bounds \in B
               /\ cursor = [how |-> "unset", key |-> Absent, val |-> Absent, prefix |-> Absent]

ViewSeekGE(k) == cursor' = AtFirst({x \in Live(Absent) : x >= k}, Absent)
ViewSeekLT(k) == cursor' = AtLast({x \in Live(Absent) : x < k})
ViewFirst == cursor' = AtFirst(Live(Absent), Absent)
ViewLast == cursor' = AtLast(Live(Absent))
\* A bound that lies outside of the prefix is refused.
ViewSeekPrefixGE(k) ==
    LET p == PrefixOf(k)
        clamped == IF bounds[1] # Absent /\ k < bounds[1] THEN bounds[1]
                   ELSE IF bounds[2] # Absent /\ k > bounds[2] THEN bounds[2] ELSE k
    IN  cursor' = IF PrefixOf(clamped) # p THEN Cursor("error", Absent, p)
                  ELSE AtFirst({x \in Live(p) : x >= k}, p)
ViewNext ==
    /\ cursor.how # "unset"
    /\ cursor' = CASE cursor.how = "at" -> AtFirst({x \in Live(cursor.prefix) : x > cursor.key},
                                                   cursor.prefix)
                   [] cursor.how = "start" -> AtFirst(Live(Absent), Absent)
                   [] OTHER -> cursor
ViewPrev ==
    /\ cursor.how # "unset"
    /\ cursor' = CASE cursor.how = "error" -> cursor
                   [] cursor.how # "error" /\ cursor.prefix # Absent ->
                          Cursor("error", Absent, cursor.prefix)
                   [] cursor.how = "at" /\ cursor.prefix = Absent ->
                          AtLast({x \in Live(Absent) : x < cursor.key})
                   [] cursor.how = "end" /\ cursor.prefix = Absent -> AtLast(Live(Absent))
                   [] OTHER -> cursor
ViewFailed(forward, prefix, stale) ==
    cursor' = [how |-> "failed", key |-> Absent, val |-> Absent, prefix |-> prefix,
               forward |-> forward, stale |-> stale]
\* Setting the bounds loses the position.
ViewLost == cursor' = Cursor("unset", Absent, Absent)
=============================================================================
