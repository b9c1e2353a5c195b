---------------------------- MODULE CommitOrder ----------------------------
(***************************************************************************)
(* What the commit pipeline promises, without queue, WAL or locks: calls    *)
(* are given consecutive ranges of sequence numbers, each applies its       *)
(* operations, visibility advances over whole ranges and never into one     *)
(* that is still being applied, and a call returns only once it is visible. *)
(***************************************************************************)
EXTENDS Integers

CONSTANTS Procs, FirstSeqNum

VARIABLES
  nextSeqNum,  \* first sequence number not handed out
  visible,     \* operations below it are visible
  range,       \* the half-open range of a call's batch, <<>> when it has none
  applying     \* calls whose operations are not all applied

vars == <<nextSeqNum, visible, range, applying>>

Holds(p) == range[p] # <<>>

Init ==
  /\ nextSeqNum = FirstSeqNum
  /\ visible = FirstSeqNum
  /\ range = [p \in Procs |-> <<>>]
  /\ applying = {}

(* The next n numbers; an ingestion may not use 0. *)
Allocate(p) ==
  /\ ~Holds(p)
  /\ nextSeqNum' \in Nat
  /\ \E lo \in {nextSeqNum, IF nextSeqNum = 0 THEN 1 ELSE nextSeqNum} :
       /\ lo <= nextSeqNum'
       /\ range' = [range EXCEPT ![p] = <<lo, nextSeqNum'>>]
  /\ applying' = applying \union {p}
  /\ UNCHANGED visible

Apply(p) ==
  /\ p \in applying
  /\ applying' = applying \ {p}
  /\ UNCHANGED <<nextSeqNum, visible, range>>

(* Visibility jumps to the end of an applied batch, past no unapplied one. *)
Publish(p) ==
  /\ Holds(p)
  /\ visible < range[p][2]
  /\ visible' = range[p][2]
  /\ \A q \in Procs : Holds(q) /\ range[q][1] < range[p][2] =>
       q \notin applying /\ range[q][2] <= range[p][2]
  /\ UNCHANGED <<nextSeqNum, range, applying>>

Return(p) ==
  /\ Holds(p)
  /\ p \notin applying
  /\ range[p][2] <= visible
  /\ range' = [range EXCEPT ![p] = <<>>]
  /\ UNCHANGED <<nextSeqNum, visible, applying>>

(* ratchetSeqNum: skip numbers while no call is in progress. *)
Ratchet ==
  /\ \A p \in Procs : ~Holds(p)
  /\ nextSeqNum' \in Nat
  /\ nextSeqNum' > nextSeqNum
  /\ visible' = nextSeqNum'
  /\ UNCHANGED <<range, applying>>

Next ==
  \/ \E p \in Procs : Allocate(p) \/ Apply(p) \/ Publish(p) \/ Return(p)
  \/ Ratchet

Spec == Init /\ [][Next]_vars

=============================================================================
