------------------------- MODULE MCProtectedMemory -------------------------
(* Small instances of ProtectedMemory.                                     *)
EXTENDS ProtectedMemory, TLC

Symmetry == Permutations(Threads)
=============================================================================
