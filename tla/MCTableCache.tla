---------------------------- MODULE MCTableCache ----------------------------
(* Constants of the table and block cache instances. *)
EXTENDS TableCache

MCFiles == {1, 2}
MCBlocks == {<<1, 1>>, <<1, 2>>, <<1, 3>>, <<2, 1>>}
MCBlockSizes == [k \in MCBlocks |-> IF k = <<1, 3>> THEN 2 ELSE 1]
MCValues == 1..5
MCBufs == 1..6

\* Many lookups; many blocks read by one iterator; a few of everything.
MCBudgets == {[finds |-> 4, reads |-> 0, others |-> 0],
              [finds |-> 1, reads |-> 4, others |-> 1],
              [finds |-> 2, reads |-> 2, others |-> 0]}

Symmetry == Permutations(Threads)
=============================================================================
