-------------------------- MODULE MCNearAllocator --------------------------
(* Small instances of NearAllocator.                                       *)
EXTENDS NearAllocator, TLC
=============================================================================
