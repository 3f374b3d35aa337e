--------------------------- MODULE MCInlinePatch ---------------------------
(* Small instances of InlinePatch: all objects are of one class.           *)
EXTENDS InlinePatch

MCClasses == {{}, Objects}
=============================================================================
