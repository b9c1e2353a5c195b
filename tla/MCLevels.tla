------------------------------ MODULE MCLevels -------------------------------
(* Instances of Levels for TLC.                                            *)
EXTENDS Levels

Put(k, n) == Entry(k, n, FALSE)
Del(k, n) == Entry(k, n, TRUE)
\* A value whose sequence number a compaction zeroed.
Old(k, n) == [Entry(k, n, FALSE) EXCEPT !.seq = 0]
\* Three shapes of an LSM of three levels: L0 with two sublevels over full
\* levels; a tombstone in L0 under a newer value, with the bottom level as base
\* level; and a level with a gap between two tables.
MCContents ==
    {0 :> << {Put(1, 4), Put(2, 4)}, {Put(2, 7)} >> @@ 1 :> <<{Put(1, 3), Put(2, 3)}>>
         @@ 2 :> << {Put(1, 1)}, {Put(2, 2), Put(3, 2)} >>,
     0 :> << {Del(1, 6), Del(2, 6)}, {Put(1, 7)} >> @@ 1 :> << >> @@ 2 :> << {Old(1, 1)} >>,
     0 :> << >> @@ 1 :> << {Put(1, 3)}, {Put(3, 6)} >> @@ 2 :> << {Put(1, 1)} >>}
MCShapes == {<<{1, 2}, FALSE>>, <<{2}, FALSE>>, <<{2, 3}, TRUE>>}
MCReads == {[level |-> 1, start |-> 1, end |-> 3]}
MCManual == {[level |-> 0, start |-> 2, end |-> 3]}
=============================================================================
