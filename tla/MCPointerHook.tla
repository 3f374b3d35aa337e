--------------------------- MODULE MCPointerHook ---------------------------
(* Small instances of PointerHook: the objects of each class are alike.    *)
EXTENDS PointerHook, TLC

Symmetry == Permutations(Objects \ VftObjects) \cup Permutations(VftObjects)
              \cup Permutations(Detours)
=============================================================================
