---------------------------- MODULE MCMutationGate ----------------------------
(* Instances of MutationGate; the processes are interchangeable. *)
EXTENDS MutationGate, TLC

Interchangeable == Permutations(Procs)
=============================================================================
