------------------------- MODULE MCSharedEntrypoint -------------------------
(* Small instances of SharedEntrypoint.                                    *)
EXTENDS SharedEntrypoint, TLC

Symmetry == Permutations(Hooks) \cup Permutations(PatchObjects) \cup Permutations(Callers)
=============================================================================
