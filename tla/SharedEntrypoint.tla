-------------------------- MODULE SharedEntrypoint --------------------------
(***************************************************************************)
(* PrologHook and BinaryPatch objects on one function: one thread makes    *)
(* and releases them, in any order the client's promises allow, others     *)
(* call the function.  Both classes write its first bytes.                 *)
(***************************************************************************)
EXTENDS PrologHook

CONSTANTS PatchObjects, NoBytes

(* A patch that saved the bytes of a function has some.                    *)
ASSUME BytesAssumption == NoBytes \notin Code \cup Hooks

VARIABLES alive, patch, status  (* of the patch objects                    *)

Patches == INSTANCE BinaryPatch WITH Codes <- Code \ {Pristine}

evars == <<kvars, alive, patch, status>>

EntrypointInit == Init /\ Patches!Init

EntrypointNext ==
  \/ /\ status = "running"
     /\ Next
     /\ UNCHANGED <<alive, patch, status>>
  \/ /\ Quiet
     /\ Patches!Next
     /\ UNCHANGED <<shape, objects, calls>>

Spec == EntrypointInit /\ [][EntrypointNext]_evars

-----------------------------------------------------------------------------
(* No call gets into freed memory or an unbuilt thunk, however hooks and   *)
(* patches were stacked and released before it (PrologHook constructor and *)
(* destructor, restoreEntrypoint, BinaryPatch::disable).                   *)
NoWildCall == \A c \in Callers : at[c] # "wild"

(* Invoking the original runs the whole function: a call that is past the  *)
(* displaced instructions has run them, or what they jump to, once         *)
(* (buildoriginalEntryPointThunk).                                         *)
OriginalRunsWhole == \A c \in Callers : at[c] = "rest" => ran[c] = 1

(* The function, and the thunk of every live hook, leads to no hook that   *)
(* is gone, although neither class looks at what it overwrites.            *)
JumpsLeadToLive ==
  \A h \in Hooks : head = h \/ (\E g \in Hooks : saved[g] = h) => stage[h] # "none"

(* Releasing a patch never diverts the function, whatever was stacked on   *)
(* it since: a BinaryPatch is for ever (isEnabled compares with the        *)
(* original bytes).  And it never looks for bytes that are not there,      *)
(* whatever was moved out of it before.                                    *)
PatchReleaseInert ==
  [][\A o \in PatchObjects : Patches!Destroy(o) \/ (\E s \in PatchObjects : Patches!MoveAssign(o, s))
       => UNCHANGED head /\ status' \notin {"misused", "faulted"}]_evars
=============================================================================
