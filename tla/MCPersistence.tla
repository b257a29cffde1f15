---------------------------- MODULE MCPersistence ----------------------------
(* A small instance of Persistence: two devices, so that a batch can mix    *)
(* them up.                                                                 *)
EXTENDS Persistence, TLC

CONSTANTS d1, d2

Symmetry == Permutations(Device)
=============================================================================
