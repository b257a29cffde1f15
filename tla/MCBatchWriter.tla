--------------------------- MODULE MCBatchWriter ---------------------------
(* Small instances of BatchWriter.                                          *)
EXTENDS BatchWriter, TLC

CONSTANTS p1, p2, p3, t1

MCKindOf == [i \in Item |-> IF i = t1 THEN "thermal" ELSE "pilot"]
Symmetry == Permutations({p1, p2, p3} \cap Item)
=============================================================================
