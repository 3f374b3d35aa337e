--------------------------- MODULE MCInlineDetour ---------------------------
(* Small instances of InlineDetour.                                        *)
EXTENDS InlineDetour, TLC

Symmetry == Permutations(Objects) \cup Permutations(Trampolines)
              \cup Permutations(Entrypoints)
=============================================================================
