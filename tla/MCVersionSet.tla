---------------------------- MODULE MCVersionSet ----------------------------
(* Instances of VersionSet for TLC. *)
EXTENDS VersionSet, TLC

\* The goroutines of jobs are alike.
Symmetry == Permutations(Jobs)
=============================================================================
