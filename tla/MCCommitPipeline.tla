--------------------------- MODULE MCCommitPipeline ---------------------------
(* Instances of CommitPipeline for TLC. *)
EXTENDS CommitPipeline, TLC

(* The goroutines of the safety run first share fewer tokens than they are, so
   that the semaphore blocks and the ring wraps around; then, in Wide, a slot
   more, and three calls are in the queue at a time.  The slots tell the two
   instances apart. *)
Wide == INSTANCE CommitPipeline WITH
  SyncConcurrency <- 4, MaxBatches <- 3, Counts <- {2}, SyncModes <- {FALSE}, RatchetTargets <- {}

InWide == Cardinality(DOMAIN slots) = 4

MCInit == Init \/ Wide!Init

MCNext ==
  \/ ~InWide /\ Next
  \/ InWide /\ Wide!Next

MCSpec == MCInit /\ [][MCNext]_vars

(* Goroutines are interchangeable: sound for the safety run. *)
ProcSymmetry == Permutations(Procs)

=============================================================================
