-------------------------- MODULE MCBleCoordinator --------------------------
(* Small instances of BleCoordinator for TLC.                              *)
EXTENDS BleCoordinator, TLC

Symmetry == Permutations(Workers) \cup Permutations(Links)
=============================================================================
