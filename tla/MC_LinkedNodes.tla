---------------------------- MODULE MC_LinkedNodes ----------------------------
(***************************************************************************)
(* Two goroutines, a list of one node, and spare nodes for two pushes.     *)
(***************************************************************************)
EXTENDS LinkedNodes

CONSTANTS p1, p2, x1, x2, x3

OneNode == <<x1>>

=============================================================================
