---------------------------- MODULE InlineDetour ----------------------------
(***************************************************************************)
(* InlineDetour (include/B3L/InlineDetour.h, src/InlineDetour.cpp): the    *)
(* first instructions of a function are saved and overwritten with a jmp   *)
(* to a trampoline, a page the object owns; release writes the saved       *)
(* instructions back, whatever the function starts with by then.           *)
(***************************************************************************)
CONSTANTS Objects,     (* storage in which detour objects live             *)
          Entrypoints, (* the functions that may be detoured               *)
          Trampolines, (* pages the allocator hands out, and again         *)
          Foreign,     (* first instructions other libraries write         *)
          Pristine,    (* the instructions a function came with            *)
          Null,
          Failures,    (* the steps of construct and release that may fail *)
          ClientRules  (* what the client promises, see below              *)

ASSUME DetourAssumption ==
  /\ Failures \subseteq {"disassemble", "assemble", "unprotect", "reprotect"}
  /\ Pristine \notin Trampolines
  /\ Foreign \cap Trampolines = {}
  /\ Null \notin Entrypoints \cup Trampolines \cup Foreign \cup {Pristine}

(***************************************************************************)
(* The promises a client may make:                                         *)
(*   "nested": it releases no detour whose jmp another object saved;       *)
(*   "no_self_move": it never assigns a detour to itself.                  *)
(***************************************************************************)
VARIABLES head,    (* what each function starts with: a jmp to a           *)
                   (* trampoline, named by it, or instructions             *)
          mapped,  (* trampolines that are allocated                       *)
          alive,   (* storage that holds an object                         *)
          detour,  (* entrypoint, instructions and trampoline of an object *)
          spoiled, (* history: functions that a constructor left half way  *)
          shared,  (* history: functions that other libraries wrote        *)
          status   (* "running" or "terminated"                            *)

dvars == <<head, mapped, alive, detour, spoiled, shared, status>>

Outside == Foreign \cup {Pristine}
Blank   == [entry |-> Null, saved |-> Null, tramp |-> Null]

(* The trampolines an object is responsible for.                           *)
Holds(o) == {detour[o].tramp} \ {Null}

(* Seeded faults: release forgets to restore, an assignment leaks the old  *)
(* trampoline, a move leaves the source its instructions.                  *)
NeverRestored(o) == head
LeaksOld(o)      == mapped
KeepsSaved(o)    == [detour[o] EXCEPT !.tramp = Null]

-----------------------------------------------------------------------------
(* restoreEntrypoint() once it has written: it does not look at what the   *)
(* function starts with; a moved-from object has no instructions.          *)
Restored(o) ==
  IF detour[o].saved = Null THEN head
  ELSE [head EXCEPT ![detour[o].entry] = detour[o].saved]

(* A seeded fault: a release that cannot unprotect the page goes on.       *)
IgnoresFailure(o) ==
  /\ \/ head' = Restored(o)
     \/ "unprotect" \in Failures /\ UNCHANGED head
  /\ UNCHANGED status

(* restoreEntrypoint() from a destructor or an assignment, both noexcept:  *)
(* a failing setPageProtection, before or after the copy, ends the process. *)
RestoreEntrypoint(o) ==
  \/ /\ head' = Restored(o)
     /\ UNCHANGED status
  \/ /\ detour[o].saved # Null
     /\ \/ "unprotect" \in Failures /\ UNCHANGED head
        \/ "reprotect" \in Failures /\ head' = Restored(o)
     /\ status' = "terminated"

(* What is left of an object that was moved from.                          *)
MovedFrom(o) == [detour[o] EXCEPT !.saved = Null, !.tramp = Null]

(* The pages left when the trampoline pointer of o is reset or destroyed.  *)
Unmapped(o) == mapped \ Holds(o)

(* The pages left when a constructor throws: its member was destroyed.     *)
PagesAfterThrow(t) == mapped

Releasable(o) ==
  "nested" \in ClientRules =>
    \A p \in Objects \ {o} : detour[p].saved # Null /\ detour[p].entry = detour[o].entry
                               => detour[p].saved \notin Holds(o)

-----------------------------------------------------------------------------
Init ==
  /\ head = [f \in Entrypoints |-> Pristine]
  /\ mapped = {}
  /\ alive = {}
  /\ detour = [o \in Objects |-> Blank]
  /\ spoiled = {}
  /\ shared = {}
  /\ status = "running"

DefaultConstruct(o) ==
  /\ o \notin alive
  /\ alive' = alive \cup {o}
  /\ UNCHANGED <<head, mapped, detour, spoiled, shared, status>>

(* The first instructions are read, a trampoline is allocated and the jmp  *)
(* is written.                                                             *)
Construct(o, f, t) ==
  /\ o \notin alive
  /\ t \notin mapped
  /\ alive' = alive \cup {o}
  /\ detour' = [detour EXCEPT ![o] = [entry |-> f, saved |-> head[f], tramp |-> t]]
  /\ mapped' = mapped \cup {t}
  /\ head' = [head EXCEPT ![f] = t]
  /\ UNCHANGED <<spoiled, shared, status>>

(* A constructor that throws frees its trampoline and leaves no object.    *)
(* Only the last step, setPageProtection back, fails after the jmp.        *)
ConstructThrows(f, t) ==
  /\ t \notin mapped
  /\ \/ Failures \ {"reprotect"} # {} /\ UNCHANGED <<head, spoiled>>
     \/ /\ "reprotect" \in Failures
        /\ head' = [head EXCEPT ![f] = t]
        /\ spoiled' = spoiled \cup {f}
  /\ mapped' = PagesAfterThrow(t)
  /\ UNCHANGED <<alive, detour, shared, status>>

Destroy(o) ==
  /\ o \in alive
  /\ Releasable(o)
  /\ RestoreEntrypoint(o)
  /\ IF status' = "running"
     THEN /\ alive' = alive \ {o}
          /\ mapped' = Unmapped(o)
          /\ detour' = [detour EXCEPT ![o] = Blank]
     ELSE UNCHANGED <<alive, mapped, detour>>
  /\ UNCHANGED <<spoiled, shared>>

MoveConstruct(d, s) ==
  /\ d \notin alive
  /\ s \in alive
  /\ alive' = alive \cup {d}
  /\ detour' = [detour EXCEPT ![d] = detour[s], ![s] = MovedFrom(s)]
  /\ UNCHANGED <<head, mapped, spoiled, shared, status>>

(* Assigning an object to itself restores the function and keeps the rest: *)
(* vector and unique_ptr of the supported tool sets guard against it.      *)
MoveAssign(d, s) ==
  /\ {d, s} \subseteq alive
  /\ "no_self_move" \in ClientRules => d # s
  /\ Releasable(d)
  /\ RestoreEntrypoint(d)
  /\ IF status' = "terminated" \/ d = s THEN UNCHANGED <<mapped, detour>>
     ELSE /\ detour' = [detour EXCEPT ![d] = detour[s], ![s] = MovedFrom(s)]
          /\ mapped' = Unmapped(d)
  /\ UNCHANGED <<alive, spoiled, shared>>

(* Another library patches the function.                                   *)
Overwrite(f, x) ==
  /\ head' = [head EXCEPT ![f] = x]
  /\ shared' = shared \cup {f}
  /\ UNCHANGED <<mapped, alive, detour, spoiled, status>>

Next ==
  /\ status = "running"
  /\ \/ \E o \in Objects : DefaultConstruct(o) \/ Destroy(o)
     \/ \E o \in Objects, f \in Entrypoints, t \in Trampolines : Construct(o, f, t)
     \/ \E f \in Entrypoints, t \in Trampolines : ConstructThrows(f, t)
     \/ \E d, s \in Objects : MoveConstruct(d, s) \/ MoveAssign(d, s)
     \/ \E f \in Entrypoints, x \in Foreign : Overwrite(f, x)

Spec == Init /\ [][Next]_dvars

-----------------------------------------------------------------------------
(* The trampolines of f that a live object owns.                           *)
Owned(f) == UNION {Holds(o) : o \in {p \in Objects : detour[p].entry = f}}

TypeOK ==
  /\ head \in [Entrypoints -> Trampolines \cup Outside]
  /\ mapped \subseteq Trampolines
  /\ alive \subseteq Objects
  /\ detour \in [Objects -> [entry : Entrypoints \cup {Null},
                            saved : Trampolines \cup Outside \cup {Null},
                            tramp : Trampolines \cup {Null}]]
  /\ \A o \in Objects : detour[o].saved # Null => detour[o].entry # Null
  /\ spoiled \subseteq Entrypoints
  /\ shared \subseteq Entrypoints
  /\ status \in {"running", "terminated"}

(* No function starts with a jmp to a trampoline that was freed, or that   *)
(* was handed out again for another function: each release restores what   *)
(* outlives it (detourEntrypoint, restoreEntrypoint, operator=).  Excepted *)
(* are functions whose constructor failed after it had written the jmp.    *)
NoDanglingJump == \A f \in Entrypoints \ spoiled : head[f] \in Owned(f) \cup Outside

(* Every allocated trampoline has exactly one owner: none is leaked by a   *)
(* move or a constructor that throws, none is freed twice.                 *)
OneOwnerPerTrampoline ==
  /\ mapped = UNION {Holds(o) : o \in Objects}
  /\ \A o, p \in Objects : o # p => Holds(o) \cap Holds(p) = {}

(* Although restoreEntrypoint() does not look at what it overwrites, a     *)
(* release in nested order takes out nothing but the jmp of the released   *)
(* object, never another live detour, where no other library writes.       *)
ReleaseDivertsOnlyOwn ==
  [][\A o \in Objects, f \in Entrypoints \ (spoiled \cup shared) :
       /\ Destroy(o) \/ (\E s \in Objects : MoveAssign(o, s))
       /\ head'[f] # head[f]
       => head[f] \in Holds(o)]_dvars

(* A function with its detours is an interception point: a release never   *)
(* diverts a function that leads elsewhere, and no call leaves it without  *)
(* an owner for what it leads to.  A function that a constructor left half *)
(* way, or that another library wrote and restoreEntrypoint() overwrites   *)
(* without looking, counts as outside code from then on.                   *)
Seen(f) == IF f \in spoiled \cup shared THEN Pristine ELSE head[f]

Point == INSTANCE InterceptPoint
           WITH Points <- Entrypoints, Handlers <- Trampolines,
                target <- [f \in Entrypoints |-> Seen(f)],
                owned <- [f \in Entrypoints |-> Owned(f)]

IsInterceptPoint == Point!Spec
=============================================================================
