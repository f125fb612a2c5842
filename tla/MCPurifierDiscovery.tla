------------------------ MODULE MCPurifierDiscovery ------------------------
(* Small instances of PurifierDiscovery for TLC.                           *)
EXTENDS PurifierDiscovery, TLC

CONSTANT MaxUsers   \* bound on the counter, which failed setups only raise

UsersBounded == users <= MaxUsers

Symmetry == Permutations(Entries) \cup Permutations(Scans) \cup Permutations(Listeners)
=============================================================================
