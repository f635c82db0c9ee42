---------------------------- MODULE MC_ParallelRuns ----------------------------
(* Instantiation of ParallelRuns: three functions of the model. *)
EXTENDS ParallelRuns

CONSTANTS f1, f2, f3

MCCallees == {f1, f2, f3}
MCSymmetry == Permutations(MCCallees)
=============================================================================
