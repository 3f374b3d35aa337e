---------------------------- MODULE PointerHook ----------------------------
(***************************************************************************)
(* IatHook and VftHook of include/B3L/Hook.h: objects that swap a function *)
(* pointer (an import table or a vtable entry) and put the old one back    *)
(* when they die.  Several objects may hook one entry, objects are moved   *)
(* and assigned, other libraries overwrite entries, and the page           *)
(* protection calls below every write may fail.                            *)
(***************************************************************************)
CONSTANTS Objects,      (* storage in which hook objects live              *)
          Slots,        (* hookable pointers                               *)
          Detours,      (* the client's hook procedures                    *)
          Foreign,      (* functions other libraries put into a slot       *)
          Pristine,     (* what every slot holds at first                  *)
          Null,
          VftObjects,   (* those that are VftHooks, the rest are IatHooks  *)
          Debug,        (* whether assert() is compiled in                 *)
          MayFail,      (* whether VirtualProtect may fail                 *)
          ClientRules   (* what the client promises, see below             *)

ASSUME HookAssumption ==
  /\ VftObjects \subseteq Objects
  /\ Debug \in BOOLEAN
  /\ MayFail \in BOOLEAN
  /\ Null \notin Slots
  /\ Pristine \notin Detours
  /\ Foreign \cap Detours = {}

(***************************************************************************)
(* The promises a client may make:                                         *)
(*   "nested": it releases no hook whose detour another live hook of the   *)
(*             same slot saved as its original;                            *)
(*   "call_owning": it enables and disables only hooks that own a slot;    *)
(*   "assign_owning": it assigns only to hooks that own a slot.            *)
(***************************************************************************)
VARIABLES slot,    (* what each slot points to                             *)
          alive,   (* storage that holds an object                         *)
          hook,    (* the three pointers of each object                    *)
          moved,   (* history: objects whose last change was to be moved from *)
          status   (* "running", or how the process came to stop           *)

hvars == <<slot, alive, hook, moved, status>>

Outside   == Foreign \cup {Pristine}
Functions == Detours \cup Outside
Blank     == [entry |-> Null, original |-> Null, detour |-> Null]

Owns(h) == hook[h].entry # Null

IsValid(h) ==
  /\ Owns(h)
  /\ slot[hook[h].entry] \in {hook[h].original, hook[h].detour}

(***************************************************************************)
(* Seeded faults: plausible slips in the definitions below, each of which  *)
(* breaks one of the properties.                                           *)
(***************************************************************************)
NotInvalidated(r)    == r
ReleasesUnchecked(h) == TRUE
NeverReleases(h)     == FALSE
KeepsOldOriginal(d, s) ==
  [hook EXCEPT ![d] = [hook[s] EXCEPT !.original = hook[d].original], ![s] = Blank]
SwapsTargets(d, s) ==
  [hook EXCEPT ![d] = [entry |-> hook[s].entry, original |-> hook[s].detour,
                       detour |-> hook[s].original], ![s] = Blank]

-----------------------------------------------------------------------------
IsEnabled(h) == slot[hook[h].entry] = hook[h].detour

(* What calling enable(), disable() or isEnabled() on h runs into first:   *)
(* the assertion, the null pointer, or nothing.                            *)
Trap(h) ==
  IF h \notin VftObjects /\ Debug /\ ~IsValid(h) THEN "asserted"
  ELSE IF ~Owns(h) THEN "faulted"
  ELSE "running"

(* Memory::writeProtectedMemory of one pointer.  It throws before or after *)
(* the copy when VirtualProtect fails; from a noexcept caller that ends    *)
(* the process.                                                            *)
WriteSlot(s, f, nothrow) ==
  \/ /\ slot' = [slot EXCEPT ![s] = f]
     /\ UNCHANGED status
  \/ /\ MayFail
     /\ slot' \in {slot, [slot EXCEPT ![s] = f]}
     /\ status' = IF nothrow THEN "terminated" ELSE status

EnableCall(h) ==
  IF Trap(h) # "running" THEN status' = Trap(h) /\ UNCHANGED slot
  ELSE IF IsEnabled(h) THEN UNCHANGED <<slot, status>>
  ELSE WriteSlot(hook[h].entry, hook[h].detour, FALSE)

(* A seeded fault: the isEnabled() check of disable() is missing.          *)
DisablesBlindly(h, nothrow) ==
  IF Trap(h) # "running" THEN status' = Trap(h) /\ UNCHANGED slot
  ELSE WriteSlot(hook[h].entry, hook[h].original, nothrow)

DisableCall(h, nothrow) ==
  IF Trap(h) # "running" THEN status' = Trap(h) /\ UNCHANGED slot
  ELSE IF ~IsEnabled(h) THEN UNCHANGED <<slot, status>>
  ELSE WriteSlot(hook[h].entry, hook[h].original, nothrow)

Invalidated(r) == [r EXCEPT !.entry = Null]

(* Both destructors and IatHook's assignment ask isValid() before they     *)
(* disable; VftHook's assignment does not.                                 *)
DisablesOnDestroy(h) == IsValid(h)
DisablesOnAssign(h)  == h \in VftObjects \/ IsValid(h)

(* Both are instances of one class.                                        *)
SameClass(d, s) == d \in VftObjects <=> s \in VftObjects

ReleaseHook(h, asks) ==
  IF asks THEN DisableCall(h, TRUE) ELSE UNCHANGED <<slot, status>>

(* The fields of s go to d, then s is invalidated, also when s is d.       *)
Transferred(d, s) ==
  LET copied == [hook EXCEPT ![d] = hook[s]]
  IN  [copied EXCEPT ![s] = Invalidated(@)]

Releasable(h) ==
  "nested" \in ClientRules =>
    \A g \in Objects \ {h} : Owns(h) /\ hook[g].entry = hook[h].entry
                               => hook[g].original # hook[h].detour

-----------------------------------------------------------------------------
Init ==
  /\ slot = [s \in Slots |-> Pristine]
  /\ alive = {}
  /\ hook = [h \in Objects |-> Blank]
  /\ moved = {}
  /\ status = "running"

(* What a constructor that found slot s remembers; one that throws leaves  *)
(* no object.                                                              *)
Constructed(s, d) == [entry |-> s, original |-> slot[s], detour |-> d]

Construct(h, s, d) ==
  /\ h \notin alive
  /\ alive' = alive \cup {h}
  /\ hook' = [hook EXCEPT ![h] = Constructed(s, d)]
  /\ moved' = moved \ {h}
  /\ UNCHANGED <<slot, status>>

Enable(h) ==
  /\ h \in alive
  /\ "call_owning" \in ClientRules => Owns(h)
  /\ EnableCall(h)
  /\ UNCHANGED <<alive, hook, moved>>

Disable(h) ==
  /\ h \in alive
  /\ "call_owning" \in ClientRules => Owns(h)
  /\ DisableCall(h, FALSE)
  /\ UNCHANGED <<alive, hook, moved>>

Destroy(h) ==
  /\ h \in alive
  /\ Releasable(h)
  /\ ReleaseHook(h, DisablesOnDestroy(h))
  /\ IF status' = "running"
     THEN /\ alive' = alive \ {h}
          /\ hook' = [hook EXCEPT ![h] = Blank]
          /\ moved' = moved \ {h}
     ELSE UNCHANGED <<alive, hook, moved>>

MoveConstruct(d, s) ==
  /\ SameClass(d, s)
  /\ d \notin alive
  /\ s \in alive
  /\ alive' = alive \cup {d}
  /\ hook' = Transferred(d, s)
  /\ moved' = (moved \ {d}) \cup {s}
  /\ UNCHANGED <<slot, status>>

MoveAssign(d, s) ==
  /\ SameClass(d, s)
  /\ {d, s} \subseteq alive
  /\ "assign_owning" \in ClientRules => Owns(d)
  /\ Releasable(d)
  /\ ReleaseHook(d, DisablesOnAssign(d))
  /\ IF status' = "running"
     THEN /\ hook' = Transferred(d, s)
          /\ moved' = (moved \ {d}) \cup {s}
     ELSE UNCHANGED <<hook, moved>>
  /\ UNCHANGED alive

(* Another library writes the slot.                                        *)
Overwrite(s, f) ==
  /\ slot' = [slot EXCEPT ![s] = f]
  /\ UNCHANGED <<alive, hook, moved, status>>

Next ==
  /\ status = "running"
  /\ \/ \E h \in Objects, s \in Slots, d \in Detours : Construct(h, s, d)
     \/ \E h \in Objects : Enable(h) \/ Disable(h) \/ Destroy(h)
     \/ \E d, s \in Objects : MoveConstruct(d, s) \/ MoveAssign(d, s)
     \/ \E s \in Slots, f \in Foreign : Overwrite(s, f)

Spec == Init /\ [][Next]_hvars

-----------------------------------------------------------------------------
(* The detours some live object answers for in slot s.                     *)
Owned(s) == {hook[h].detour : h \in {g \in Objects : hook[g].entry = s}}

TypeOK ==
  /\ slot \in [Slots -> Functions]
  /\ alive \subseteq Objects
  /\ hook \in [Objects -> [entry    : Slots \cup {Null},
                          original : Functions \cup {Null},
                          detour   : Detours \cup {Null}]]
  /\ moved \subseteq alive
  /\ status \in {"running", "asserted", "faulted", "terminated"}

(* A slot never leads to a detour whose hook object is gone: whatever the  *)
(* order of enabling, disabling, moving and destroying stacked hooks, each *)
(* restores a function that outlives it (destructors, operator=, disable). *)
NoDanglingDetour == \A s \in Slots : slot[s] \in Owned(s) \cup Outside

(* Destroying or assigning over a moved-from hook leaves every slot as it  *)
(* is: ownership went with the move (move constructors, invalidate()).     *)
MovedFromInert ==
  [][\A h \in moved : Destroy(h) \/ (\E g \in Objects : MoveAssign(h, g))
                        => UNCHANGED slot]_hvars

(* Destroying a hook or assigning over it never runs into an assertion or  *)
(* a null pointer, whatever happened to the slot or the object before      *)
(* (the isValid() checks of the destructors and of operator=).             *)
ReleaseNeverTraps ==
  [][(\E h \in Objects : Destroy(h) \/ (\E g \in Objects : MoveAssign(h, g)))
       => status' \notin {"asserted", "faulted"}]_hvars

(* A slot with its hooks is an interception point: calls that release one  *)
(* hook never divert a slot that leads elsewhere, and no call leaves the   *)
(* slot without an owner for what it leads to.                             *)
Point == INSTANCE InterceptPoint
           WITH Points <- Slots, Handlers <- Detours, target <- slot,
                owned <- [s \in Slots |-> Owned(s)]

IsInterceptPoint == Point!Spec

(* The part of the inductive invariant that looks ahead: what a hook will  *)
(* restore is outside code or the detour of another live hook of the slot; *)
(* and a moved-from object owns nothing.                                   *)
OriginalsOutlive ==
  \A h \in Objects : Owns(h) =>
    \/ hook[h].original \in Outside
    \/ \E g \in Objects \ {h} : /\ hook[g].entry = hook[h].entry
                                /\ hook[g].detour = hook[h].original

MovedOwnNothing ==
  /\ \A h \in Objects : Owns(h) => h \in alive
  /\ \A h \in moved : ~Owns(h)

(* What a hook that owns a slot writes there is a function.                *)
OwnersFilled ==
  \A h \in Objects : Owns(h) => /\ hook[h].original \in Functions
                              /\ hook[h].detour \in Detours

(* The inductive invariants: Shape needs no promise of the client, HookInv *)
(* needs "nested".                                                         *)
Shape   == TypeOK /\ MovedOwnNothing /\ OwnersFilled
HookInv == Shape /\ NoDanglingDetour /\ OriginalsOutlive
=============================================================================
