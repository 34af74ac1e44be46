-------------------------- MODULE MCReplayLedgerLock --------------------------
(* Processes are interchangeable: nothing orders them.                     *)
EXTENDS ReplayLedgerLock, TLC

Symmetry == Permutations(Procs)
=============================================================================
