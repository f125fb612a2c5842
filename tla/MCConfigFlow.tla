---------------------------- MODULE MCConfigFlow ---------------------------
(* A small instance of ConfigFlow for TLC.                                 *)
EXTENDS ConfigFlow

CONSTANTS p1, l1, h1, h2

(* A purifier and another device of the same vendor, at two addresses.     *)
MCIds == {p1, l1}
MCPodiums == {p1}
MCAt == [d \in MCIds |-> IF d = p1 THEN h1 ELSE h2]
=============================================================================
