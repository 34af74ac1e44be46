------------------------- MODULE MCReplayLedgerStore -------------------------
(* Managers are interchangeable: nothing orders them.                      *)
EXTENDS ReplayLedgerStore, TLC

Symmetry == Permutations(Managers)
=============================================================================
