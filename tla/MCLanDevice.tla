---------------------------- MODULE MCLanDevice ----------------------------
(* Small instances of LanDevice for TLC.                                   *)
EXTENDS LanDevice, TLC

(* Callers, settings and library objects are interchangeable.              *)
Symmetry == Permutations(Callers) \cup Permutations(Configs) \cup Permutations(Conns)
=============================================================================
