----------------------------- MODULE MCMemTable -----------------------------
(* Instances of MemTable for TLC.                                          *)
EXTENDS MemTable

P(k) == [list |-> Points, key |-> k]
D(k) == [list |-> Tombstones, key |-> k]
MCWorks == {<< <<P(20), P(40)>>, <<P(30)>>, <<>> >>,
            << <<D(10)>>, <<D(20)>>, <<P(20), P(30)>> >>}
MCScans == {<<"forward", NoKey>>, <<"backward", NoKey>>, <<"forward", 25>>}
=============================================================================
