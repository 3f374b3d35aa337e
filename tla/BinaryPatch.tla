----------------------------- MODULE BinaryPatch -----------------------------
(***************************************************************************)
(* BinaryPatch (include/B3L/BinaryPatch.h, src/BinaryPatch.cpp): bytes     *)
(* written over the start of a function.  isEnabled() compares the         *)
(* function with the bytes that were there BEFORE the patch, so a release  *)
(* writes them back only if they are there already.                        *)
(***************************************************************************)
CONSTANTS PatchObjects, (* storage in which patch objects live             *)
          Codes,        (* the bytes a client may write                    *)
          NoBytes,      (* an empty vector                                 *)
          MayFail,      (* whether VirtualProtect may fail on valid memory *)
          ClientRules   (* "assign_owning": it assigns only to patches     *)
                        (* that write a function                           *)

VARIABLES head,    (* what the function starts with                        *)
          alive,   (* storage that holds an object                         *)
          patch,   (* whether it has an entrypoint, and the bytes it saved *)
          status   (* "running", or how the process ended: "terminated" as *)
                   (* VirtualProtect failed on valid memory, "misused" as  *)
                   (* it was called for none, "faulted" at a null pointer  *)

bvars == <<head, alive, patch, status>>

Blank == [entrypoint |-> FALSE, original |-> NoBytes]

(* A seeded fault: the function is compared with what patches write.       *)
ComparesWithNew(o) == head \in Codes

-----------------------------------------------------------------------------
(* std::equal over the saved bytes; true if there are none.                *)
IsEnabled(o) == patch[o].original \in {NoBytes, head}

(* Comparing saved bytes with a null entrypoint reads through it.          *)
ReadsNull(o) == ~patch[o].entrypoint /\ patch[o].original # NoBytes

(* disable() in a noexcept function: without bytes to restore, size 0,     *)
(* VirtualProtect fails.                                                   *)
Disable(o) ==
  \/ /\ patch[o].original # NoBytes
     /\ head' = patch[o].original
     /\ UNCHANGED status
  \/ /\ patch[o].original # NoBytes /\ MayFail
     /\ head' \in {head, patch[o].original}
     /\ status' = "terminated"
  \/ /\ patch[o].original = NoBytes
     /\ status' = "misused"
     /\ UNCHANGED head

DisablesOnDestroy(o) == patch[o].entrypoint /\ IsEnabled(o)

Init ==
  /\ alive = {}
  /\ patch = [o \in PatchObjects |-> Blank]
  /\ status = "running"

DefaultConstruct(o) ==
  /\ o \notin alive
  /\ alive' = alive \cup {o}
  /\ UNCHANGED <<head, patch, status>>

(* Both constructors: save as many bytes as will be written, write.        *)
Construct(o, c) ==
  /\ o \notin alive
  /\ alive' = alive \cup {o}
  /\ patch' = [patch EXCEPT ![o] = [entrypoint |-> TRUE, original |-> head]]
  /\ head' = c
  /\ UNCHANGED status

(* A constructor whose setPageProtection fails throws, before or after it  *)
(* wrote; the saved bytes are lost either way.                             *)
ConstructThrows(c) ==
  /\ MayFail
  /\ head' \in {head, c}
  /\ UNCHANGED <<alive, patch, status>>

Destroy(o) ==
  /\ o \in alive
  /\ IF DisablesOnDestroy(o) THEN Disable(o) ELSE UNCHANGED <<head, status>>
  /\ IF status' = "running"
     THEN alive' = alive \ {o} /\ patch' = [patch EXCEPT ![o] = Blank]
     ELSE UNCHANGED <<alive, patch>>

MoveConstruct(d, s) ==
  /\ d \notin alive
  /\ s \in alive
  /\ alive' = alive \cup {d}
  /\ patch' = [patch EXCEPT ![d] = patch[s], ![s] = Blank]
  /\ UNCHANGED <<head, status>>

(* Of an object assigned to itself the bytes remain (vector guards against *)
(* it), the entrypoint does not.                                           *)
Assigned(d, s) ==
  IF d = s THEN [patch EXCEPT ![d].entrypoint = FALSE]
  ELSE [patch EXCEPT ![d] = patch[s], ![s] = Blank]

MoveAssign(d, s) ==
  /\ {d, s} \subseteq alive
  /\ "assign_owning" \in ClientRules => patch[d].entrypoint
  /\ IF ReadsNull(d) THEN status' = "faulted" /\ UNCHANGED head
     ELSE IF IsEnabled(d) THEN Disable(d)
     ELSE UNCHANGED <<head, status>>
  /\ patch' = IF status' = "running" THEN Assigned(d, s) ELSE patch
  /\ UNCHANGED alive

Next ==
  /\ status = "running"
  /\ \/ \E o \in PatchObjects : DefaultConstruct(o) \/ Destroy(o)
     \/ \E o \in PatchObjects, c \in Codes : Construct(o, c)
     \/ \E c \in Codes : ConstructThrows(c)
     \/ \E d, s \in PatchObjects : MoveConstruct(d, s) \/ MoveAssign(d, s)
=============================================================================
