------------------------- MODULE PointerHookProofs -------------------------
(***************************************************************************)
(* Proofs about IatHook and VftHook for any number of objects, slots and   *)
(* detours, for both kinds, with and without assertions and failures.      *)
(***************************************************************************)
EXTENDS PointerHook, TLAPS

Statuses == {"running", "asserted", "faulted", "terminated"}

-----------------------------------------------------------------------------
(* What the calls do to the slots.                                         *)

(* enable() leaves the slots alone or installs the detour of a hook that   *)
(* owns a slot.                                                            *)
LEMMA EnableEffect ==
  ASSUME NEW h \in Objects, EnableCall(h), status = "running"
  PROVE  /\ status' \in Statuses
         /\ \/ slot' = slot
            \/ Owns(h) /\ slot' = [slot EXCEPT ![hook[h].entry] = hook[h].detour]
  BY HookAssumption DEF EnableCall, WriteSlot, Trap, Statuses

(* disable() leaves the slots alone or takes out the detour it finds there *)
(* (the isEnabled() check).                                                *)
LEMMA DisableEffect ==
  ASSUME NEW h \in Objects, NEW nothrow \in BOOLEAN,
         DisableCall(h, nothrow), status = "running"
  PROVE  /\ status' \in Statuses
         /\ \/ slot' = slot
            \/ /\ Owns(h)
               /\ slot' = [slot EXCEPT ![hook[h].entry] = hook[h].original]
  BY HookAssumption DEF DisableCall, WriteSlot, Trap, Statuses

(* A release (destruction, assignment) that goes through either leaves the *)
(* slots alone, and then the detour of h is not installed, or it restores  *)
(* the slot that h owns (the isValid() and isEnabled() checks).            *)
LEMMA ReleaseEffect ==
  ASSUME NEW h \in Objects, NEW asks \in BOOLEAN,
         IsValid(h) => asks,
         ReleaseHook(h, asks), status = "running"
  PROVE  /\ status' \in Statuses
         /\ status' = "running" =>
              \/ /\ slot' = slot
                 /\ Owns(h) => slot[hook[h].entry] # hook[h].detour
              \/ /\ Owns(h)
                 /\ slot[hook[h].entry] = hook[h].detour
                 /\ slot' = [slot EXCEPT ![hook[h].entry] = hook[h].original]
         /\ \/ slot' = slot
            \/ Owns(h) /\ slot' = [slot EXCEPT ![hook[h].entry] = hook[h].original]
<1>1. CASE ~asks
  BY <1>1 DEF ReleaseHook, IsValid, Owns, Statuses
<1>2. CASE asks
  <2>1. DisableCall(h, TRUE)
    BY <1>2 DEF ReleaseHook
  <2>2. CASE Trap(h) # "running"
    BY <2>1, <2>2 DEF DisableCall, Trap, Statuses
  <2>3. CASE Trap(h) = "running" /\ ~IsEnabled(h)
    BY <2>1, <2>3 DEF DisableCall, IsEnabled, Statuses
  <2>4. CASE Trap(h) = "running" /\ IsEnabled(h)
    <3>1. WriteSlot(hook[h].entry, hook[h].original, TRUE)
      BY <2>1, <2>4 DEF DisableCall
    <3>2. Owns(h)
      BY <2>4 DEF Trap
    <3> QED BY <2>4, <3>1, <3>2 DEF WriteSlot, IsEnabled, Statuses
  <2> QED BY <2>2, <2>3, <2>4
<1> QED BY <1>1, <1>2

(* A move hands the three pointers to the target and leaves the source     *)
(* without a slot; moving onto itself only drops the slot.                 *)
LEMMA TransferEffect ==
  ASSUME TypeOK, NEW d \in Objects, NEW s \in Objects, hook' = Transferred(d, s)
  PROVE  /\ hook' = [g \in Objects |->
                       IF g = s THEN [hook[s] EXCEPT !.entry = Null]
                       ELSE IF g = d THEN hook[s] ELSE hook[g]]
         /\ hook' \in [Objects -> [entry    : Slots \cup {Null},
                                   original : Functions \cup {Null},
                                   detour   : Detours \cup {Null}]]
<1>1. hook' = [g \in Objects |-> IF g = s THEN [hook[s] EXCEPT !.entry = Null]
                                 ELSE IF g = d THEN hook[s] ELSE hook[g]]
  BY DEF Transferred, Invalidated, TypeOK
<1>2. [hook[s] EXCEPT !.entry = Null] \in [entry    : Slots \cup {Null},
                                            original : Functions \cup {Null},
                                            detour   : Detours \cup {Null}]
  BY DEF TypeOK
<1> QED BY <1>1, <1>2 DEF TypeOK

-----------------------------------------------------------------------------
(* The shape of the state needs no promise of the client.                  *)

LEMMA ShapeInit == Init => Shape
  BY HookAssumption DEF Init, Shape, TypeOK, MovedOwnNothing, OwnersFilled,
         Functions, Outside, Blank, Owns

LEMMA ShapeStep ==
  ASSUME Shape, [Next]_hvars
  PROVE  Shape'
<1> USE DEF Shape, MovedOwnNothing, OwnersFilled, Owns
<1>1. ASSUME status = "running", NEW h \in Objects, NEW s \in Slots, NEW d \in Detours,
             Construct(h, s, d)
      PROVE  Shape'
  <2>1. hook' = [g \in Objects |-> IF g = h THEN [entry |-> s, original |-> slot[s], detour |-> d]
                                   ELSE hook[g]]
    BY <1>1 DEF Construct, Constructed, TypeOK
  <2>2. TypeOK'
    BY <1>1, <2>1 DEF Construct, TypeOK
  <2> QED BY <1>1, <2>1, <2>2 DEF Construct, TypeOK
<1>2. ASSUME status = "running", NEW h \in Objects, Enable(h)
      PROVE  Shape'
  <2>1. /\ status' \in Statuses
        /\ \/ slot' = slot
           \/ Owns(h) /\ slot' = [slot EXCEPT ![hook[h].entry] = hook[h].detour]
    BY <1>2, EnableEffect DEF Enable
  <2> QED BY <1>2, <2>1 DEF Enable, TypeOK, Statuses, Functions
<1>3. ASSUME status = "running", NEW h \in Objects, Disable(h)
      PROVE  Shape'
  <2>1. /\ status' \in Statuses
        /\ \/ slot' = slot
           \/ Owns(h) /\ slot' = [slot EXCEPT ![hook[h].entry] = hook[h].original]
    BY <1>3, DisableEffect DEF Disable
  <2> QED BY <1>3, <2>1 DEF Disable, TypeOK, Statuses
<1>4. ASSUME status = "running", NEW h \in Objects, Destroy(h)
      PROVE  Shape'
  <2>1. DisablesOnDestroy(h) \in BOOLEAN /\ (IsValid(h) => DisablesOnDestroy(h))
    BY DEF DisablesOnDestroy, IsValid
  <2>2. /\ status' \in Statuses
        /\ \/ slot' = slot
           \/ Owns(h) /\ slot' = [slot EXCEPT ![hook[h].entry] = hook[h].original]
    BY <1>4, <2>1, ReleaseEffect DEF Destroy
  <2>3. slot' \in [Slots -> Functions]
    BY <2>2 DEF TypeOK
  <2>4. CASE status' = "running"
    <3>1. /\ alive' = alive \ {h}
          /\ moved' = moved \ {h}
          /\ hook' = [g \in Objects |-> IF g = h THEN Blank ELSE hook[g]]
      BY <1>4, <2>4 DEF Destroy, TypeOK
    <3> QED BY <2>2, <2>3, <3>1 DEF TypeOK, Blank, Statuses
  <2>5. CASE status' # "running"
    BY <1>4, <2>2, <2>3, <2>5 DEF Destroy, TypeOK, Statuses
  <2> QED BY <2>4, <2>5
<1>5. ASSUME status = "running", NEW d \in Objects, NEW s \in Objects, MoveConstruct(d, s)
      PROVE  Shape'
  <2>1. hook' = Transferred(d, s)
    BY <1>5 DEF MoveConstruct
  <2> QED BY <1>5, <2>1, TransferEffect DEF MoveConstruct, TypeOK
<1>6. ASSUME status = "running", NEW d \in Objects, NEW s \in Objects, MoveAssign(d, s)
      PROVE  Shape'
  <2>1. DisablesOnAssign(d) \in BOOLEAN /\ (IsValid(d) => DisablesOnAssign(d))
    BY DEF DisablesOnAssign, IsValid
  <2>2. /\ status' \in Statuses
        /\ \/ slot' = slot
           \/ Owns(d) /\ slot' = [slot EXCEPT ![hook[d].entry] = hook[d].original]
    BY <1>6, <2>1, ReleaseEffect DEF MoveAssign
  <2>3. slot' \in [Slots -> Functions]
    BY <2>2 DEF TypeOK
  <2>4. CASE status' = "running"
    <3>1. hook' = Transferred(d, s)
      BY <1>6, <2>4 DEF MoveAssign
    <3> QED BY <1>6, <2>2, <2>3, <2>4, <3>1, TransferEffect DEF MoveAssign, TypeOK, Statuses
  <2>5. CASE status' # "running"
    BY <1>6, <2>2, <2>3, <2>5 DEF MoveAssign, TypeOK, Statuses
  <2> QED BY <2>4, <2>5
<1>7. ASSUME NEW s \in Slots, NEW f \in Foreign, Overwrite(s, f)
      PROVE  Shape'
  BY <1>7 DEF Overwrite, TypeOK, Functions, Outside
<1>8. CASE UNCHANGED hvars
  BY <1>8 DEF hvars, TypeOK
<1> QED BY <1>1, <1>2, <1>3, <1>4, <1>5, <1>6, <1>7, <1>8 DEF Next

(* TypeOK holds whatever the client does.                                  *)
THEOREM TypeCorrect == Spec => []TypeOK
<1>1. Init => Shape
  BY ShapeInit
<1>2. Shape /\ [Next]_hvars => Shape'
  BY ShapeStep
<1>3. Shape => TypeOK
  BY DEF Shape
<1> QED BY <1>1, <1>2, <1>3, PTL DEF Spec

-----------------------------------------------------------------------------
(* Under "nested" every original outlives the hook that will restore it.   *)

LEMMA HookInit == Init => HookInv
  BY ShapeInit DEF Init, HookInv, NoDanglingDetour, OriginalsOutlive, Owned, Outside, Owns, Blank

(* Giving up hook d restores a function that is still answered for.  The   *)
(* other hooks of the slot keep what they will restore, because none of    *)
(* them saved the detour of d.                                             *)
LEMMA ReleaseKeeps ==
  ASSUME HookInv, NEW d \in Objects, NEW asks \in BOOLEAN,
         "nested" \in ClientRules, Releasable(d),
         IsValid(d) => asks,
         ReleaseHook(d, asks), status = "running", status' = "running"
  PROVE  /\ \A p \in Slots :
              \/ slot'[p] \in Outside
              \/ \E g \in Objects \ {d} : hook[g].entry = p /\ hook[g].detour = slot'[p]
         /\ \A h \in Objects \ {d} : Owns(h) =>
              \/ hook[h].original \in Outside
              \/ \E g \in Objects \ {h, d} : /\ hook[g].entry = hook[h].entry
                                             /\ hook[g].detour = hook[h].original
<1>1. \/ /\ slot' = slot
         /\ Owns(d) => slot[hook[d].entry] # hook[d].detour
      \/ /\ Owns(d)
         /\ slot[hook[d].entry] = hook[d].detour
         /\ slot' = [slot EXCEPT ![hook[d].entry] = hook[d].original]
  BY ReleaseEffect
<1>2. ASSUME NEW p \in Slots
      PROVE  \/ slot'[p] \in Outside
             \/ \E g \in Objects \ {d} : hook[g].entry = p /\ hook[g].detour = slot'[p]
  <2>1. \/ slot[p] \in Outside
        \/ \E g \in Objects : hook[g].entry = p /\ hook[g].detour = slot[p]
    BY DEF HookInv, NoDanglingDetour, Owned
  <2>2. CASE /\ slot' = slot
             /\ Owns(d) => slot[hook[d].entry] # hook[d].detour
    BY <2>1, <2>2, HookAssumption DEF Owns
  <2>3. CASE /\ Owns(d)
             /\ slot[hook[d].entry] = hook[d].detour
             /\ slot' = [slot EXCEPT ![hook[d].entry] = hook[d].original]
    <3>1. CASE p = hook[d].entry
      <4>1. slot'[p] = hook[d].original
        BY <2>3, <3>1 DEF HookInv, Shape, TypeOK
      <4> QED BY <2>3, <3>1, <4>1 DEF HookInv, OriginalsOutlive
    <3>2. CASE p # hook[d].entry
      BY <2>1, <2>3, <3>2 DEF HookInv, Shape, TypeOK
    <3> QED BY <3>1, <3>2
  <2> QED BY <1>1, <2>2, <2>3
<1>3. ASSUME NEW h \in Objects \ {d}, Owns(h)
      PROVE  \/ hook[h].original \in Outside
             \/ \E g \in Objects \ {h, d} : /\ hook[g].entry = hook[h].entry
                                            /\ hook[g].detour = hook[h].original
  <2>1. \/ hook[h].original \in Outside
        \/ \E g \in Objects \ {h} : /\ hook[g].entry = hook[h].entry
                                    /\ hook[g].detour = hook[h].original
    BY <1>3 DEF HookInv, OriginalsOutlive
  <2>2. ~(hook[d].entry = hook[h].entry /\ hook[d].detour = hook[h].original)
    BY <1>3 DEF Releasable, Owns
  <2> QED BY <2>1, <2>2
<1> QED BY <1>2, <1>3

LEMMA HookStep ==
  ASSUME "nested" \in ClientRules, HookInv, [Next]_hvars
  PROVE  HookInv'
<1>0. Shape /\ Shape'
  BY ShapeStep DEF HookInv
<1>1. ASSUME status = "running", NEW h \in Objects, NEW s \in Slots, NEW d \in Detours,
             Construct(h, s, d)
      PROVE  (NoDanglingDetour /\ OriginalsOutlive)'
  <2>1. hook' = [g \in Objects |-> IF g = h THEN [entry |-> s, original |-> slot[s], detour |-> d]
                                   ELSE hook[g]]
    BY <1>0, <1>1 DEF Construct, Constructed, Shape, TypeOK
  <2>2. ~Owns(h) /\ slot' = slot
    BY <1>0, <1>1 DEF Construct, Shape, MovedOwnNothing
  <2>3. /\ hook'[h] = [entry |-> s, original |-> slot[s], detour |-> d]
        /\ \A g \in Objects \ {h} : hook'[g] = hook[g]
    BY <2>1
  <2>4. NoDanglingDetour'
    BY <2>2, <2>3, HookAssumption DEF HookInv, NoDanglingDetour, Owned, Owns
  <2>5. \/ slot[s] \in Outside
        \/ \E g \in Objects \ {h} : hook[g].entry = s /\ hook[g].detour = slot[s]
    BY <2>2, HookAssumption DEF HookInv, NoDanglingDetour, Owned, Owns
  <2>6. OriginalsOutlive'
    BY <2>2, <2>3, <2>5 DEF HookInv, OriginalsOutlive, Owns
  <2> QED BY <2>4, <2>6
<1>2. ASSUME status = "running", NEW h \in Objects, Enable(h)
      PROVE  (NoDanglingDetour /\ OriginalsOutlive)'
  <2>1. \/ slot' = slot
        \/ Owns(h) /\ slot' = [slot EXCEPT ![hook[h].entry] = hook[h].detour]
    BY <1>2, EnableEffect DEF Enable
  <2>2. hook' = hook
    BY <1>2 DEF Enable
  <2>3. NoDanglingDetour'
    BY <1>0, <2>1, <2>2 DEF HookInv, NoDanglingDetour, Owned, Shape, TypeOK
  <2> QED BY <2>2, <2>3 DEF HookInv, OriginalsOutlive, Owns
<1>3. ASSUME status = "running", NEW h \in Objects, Disable(h)
      PROVE  (NoDanglingDetour /\ OriginalsOutlive)'
  <2>1. \/ slot' = slot
        \/ Owns(h) /\ slot' = [slot EXCEPT ![hook[h].entry] = hook[h].original]
    BY <1>3, DisableEffect DEF Disable
  <2>2. hook' = hook
    BY <1>3 DEF Disable
  <2>3. Owns(h) => hook[h].original \in Owned(hook[h].entry) \cup Outside
    BY DEF HookInv, OriginalsOutlive, Owned
  <2>4. NoDanglingDetour'
    BY <1>0, <2>1, <2>2, <2>3 DEF HookInv, NoDanglingDetour, Owned, Shape, TypeOK
  <2> QED BY <2>2, <2>4 DEF HookInv, OriginalsOutlive, Owns
<1>4. ASSUME status = "running", NEW h \in Objects, Destroy(h)
      PROVE  (NoDanglingDetour /\ OriginalsOutlive)'
  <2>1. DisablesOnDestroy(h) \in BOOLEAN /\ (IsValid(h) => DisablesOnDestroy(h))
    BY DEF DisablesOnDestroy, IsValid
  <2>2. Releasable(h) /\ ReleaseHook(h, DisablesOnDestroy(h))
    BY <1>4 DEF Destroy
  <2>3. CASE status' = "running"
    <3>1. hook' = [g \in Objects |-> IF g = h THEN Blank ELSE hook[g]]
      BY <1>0, <1>4, <2>3 DEF Destroy, Shape, TypeOK
    <3>2. /\ \A p \in Slots :
               \/ slot'[p] \in Outside
               \/ \E g \in Objects \ {h} : hook[g].entry = p /\ hook[g].detour = slot'[p]
          /\ \A k \in Objects \ {h} : Owns(k) =>
               \/ hook[k].original \in Outside
               \/ \E g \in Objects \ {k, h} : /\ hook[g].entry = hook[k].entry
                                              /\ hook[g].detour = hook[k].original
      BY <1>4, <2>1, <2>2, <2>3, ReleaseKeeps
    <3> QED BY <3>1, <3>2 DEF NoDanglingDetour, OriginalsOutlive, Owned, Owns, Blank
  <2>4. CASE status' # "running"
    <3>1. hook' = hook
      BY <1>4, <2>4 DEF Destroy
    <3>2. \/ slot' = slot
          \/ Owns(h) /\ slot' = [slot EXCEPT ![hook[h].entry] = hook[h].original]
      BY <1>4, <2>1, <2>2, ReleaseEffect
    <3>3. Owns(h) => hook[h].original \in Owned(hook[h].entry) \cup Outside
      BY DEF HookInv, OriginalsOutlive, Owned
    <3>4. NoDanglingDetour'
      BY <1>0, <3>1, <3>2, <3>3 DEF HookInv, NoDanglingDetour, Owned, Shape, TypeOK
    <3> QED BY <3>1, <3>4 DEF HookInv, OriginalsOutlive, Owns
  <2> QED BY <2>3, <2>4
<1>5. ASSUME status = "running", NEW d \in Objects, NEW s \in Objects, MoveConstruct(d, s)
      PROVE  (NoDanglingDetour /\ OriginalsOutlive)'
  <2>1. hook' = [g \in Objects |-> IF g = s THEN [hook[s] EXCEPT !.entry = Null]
                                   ELSE IF g = d THEN hook[s] ELSE hook[g]]
    BY <1>0, <1>5, TransferEffect DEF MoveConstruct, Shape
  <2>2. ~Owns(d) /\ d # s /\ slot' = slot
    BY <1>0, <1>5 DEF MoveConstruct, Shape, MovedOwnNothing
  <2>3. /\ hook[s] \in [entry : Slots \cup {Null}, original : Functions \cup {Null},
                        detour : Detours \cup {Null}]
        /\ hook'[s].entry = Null
        /\ hook'[d] = hook[s]
        /\ \A g \in Objects \ {s, d} : hook'[g] = hook[g]
    BY <1>0, <2>1, <2>2 DEF Shape, TypeOK
  <2>4. NoDanglingDetour'
    BY <2>2, <2>3, HookAssumption DEF HookInv, NoDanglingDetour, Owned, Owns
  <2>5. OriginalsOutlive'
    BY <2>2, <2>3, HookAssumption DEF HookInv, OriginalsOutlive, Owns
  <2> QED BY <2>4, <2>5
<1>6. ASSUME status = "running", NEW d \in Objects, NEW s \in Objects, MoveAssign(d, s)
      PROVE  (NoDanglingDetour /\ OriginalsOutlive)'
  <2>1. DisablesOnAssign(d) \in BOOLEAN /\ (IsValid(d) => DisablesOnAssign(d))
    BY DEF DisablesOnAssign, IsValid
  <2>2. Releasable(d) /\ ReleaseHook(d, DisablesOnAssign(d))
    BY <1>6 DEF MoveAssign
  <2>3. CASE status' = "running"
    <3>1. hook' = [g \in Objects |-> IF g = s THEN [hook[s] EXCEPT !.entry = Null]
                                     ELSE IF g = d THEN hook[s] ELSE hook[g]]
      BY <1>0, <1>6, <2>3, TransferEffect DEF MoveAssign, Shape
    <3>2. /\ hook'[s].entry = Null
          /\ s # d => hook'[d] = hook[s]
          /\ \A g \in Objects \ {s, d} : hook'[g] = hook[g]
      BY <1>0, <3>1 DEF Shape, TypeOK
    <3>3. /\ \A p \in Slots :
               \/ slot'[p] \in Outside
               \/ \E g \in Objects \ {d} : hook[g].entry = p /\ hook[g].detour = slot'[p]
          /\ \A k \in Objects \ {d} : Owns(k) =>
               \/ hook[k].original \in Outside
               \/ \E g \in Objects \ {k, d} : /\ hook[g].entry = hook[k].entry
                                              /\ hook[g].detour = hook[k].original
      BY <1>6, <2>1, <2>2, <2>3, ReleaseKeeps
    <3>4. NoDanglingDetour'
      BY <3>2, <3>3, HookAssumption DEF NoDanglingDetour, Owned
    <3>5. OriginalsOutlive'
      BY <3>2, <3>3, HookAssumption DEF OriginalsOutlive, Owns
    <3> QED BY <3>4, <3>5
  <2>4. CASE status' # "running"
    <3>1. hook' = hook
      BY <1>6, <2>4 DEF MoveAssign
    <3>2. \/ slot' = slot
          \/ Owns(d) /\ slot' = [slot EXCEPT ![hook[d].entry] = hook[d].original]
      BY <1>6, <2>1, <2>2, ReleaseEffect
    <3>3. Owns(d) => hook[d].original \in Owned(hook[d].entry) \cup Outside
      BY DEF HookInv, OriginalsOutlive, Owned
    <3>4. NoDanglingDetour'
      BY <1>0, <3>1, <3>2, <3>3 DEF HookInv, NoDanglingDetour, Owned, Shape, TypeOK
    <3> QED BY <3>1, <3>4 DEF HookInv, OriginalsOutlive, Owns
  <2> QED BY <2>3, <2>4
<1>7. ASSUME NEW s \in Slots, NEW f \in Foreign, Overwrite(s, f)
      PROVE  (NoDanglingDetour /\ OriginalsOutlive)'
  <2>1. \A p \in Slots : slot'[p] = slot[p] \/ slot'[p] \in Outside
    BY <1>0, <1>7 DEF Overwrite, Shape, TypeOK, Outside
  <2> QED BY <1>7, <2>1 DEF Overwrite, HookInv, NoDanglingDetour, OriginalsOutlive, Owned, Owns
<1>8. CASE UNCHANGED hvars
  <2>1. slot' = slot /\ hook' = hook
    BY <1>8 DEF hvars
  <2>2. NoDanglingDetour'
    BY <2>1 DEF HookInv, NoDanglingDetour, Owned
  <2>3. OriginalsOutlive'
    BY <2>1 DEF HookInv, OriginalsOutlive, Owns
  <2> QED BY <1>0, <2>2, <2>3 DEF HookInv
<1> QED BY <1>0, <1>1, <1>2, <1>3, <1>4, <1>5, <1>6, <1>7, <1>8 DEF Next, HookInv

(* When hooks of one slot are released in nested order, no slot ever leads *)
(* to a detour without a live hook object.                                 *)
THEOREM NoDanglingAlways ==
  ASSUME "nested" \in ClientRules PROVE Spec => []NoDanglingDetour
<1>1. Init => HookInv
  BY HookInit
<1>2. HookInv /\ [Next]_hvars => HookInv'
  BY HookStep
<1>3. HookInv => NoDanglingDetour
  BY DEF HookInv
<1> QED BY <1>1, <1>2, <1>3, PTL DEF Spec

(* Then also what a hook will restore, or call as its original, is outside *)
(* code or the detour of another live hook of the slot.                    *)
THEOREM OriginalsOutliveAlways ==
  ASSUME "nested" \in ClientRules PROVE Spec => []OriginalsOutlive
<1>1. Init => HookInv
  BY HookInit
<1>2. HookInv /\ [Next]_hvars => HookInv'
  BY HookStep
<1>3. HookInv => OriginalsOutlive
  BY DEF HookInv
<1> QED BY <1>1, <1>2, <1>3, PTL DEF Spec

-----------------------------------------------------------------------------
(* Action properties.                                                      *)

(* Destroying or assigning over a moved-from hook writes no slot, for both *)
(* kinds of hook and whatever the client does.                             *)
THEOREM MovedFromAlwaysInert == Spec => MovedFromInert
<1>1. ASSUME Shape, Next
      PROVE  \A h \in moved : Destroy(h) \/ (\E g \in Objects : MoveAssign(h, g))
                                => UNCHANGED slot
  <2>1. TAKE h \in moved
  <2>2. h \in Objects /\ ~Owns(h) /\ ~IsValid(h)
    BY <1>1 DEF Shape, TypeOK, MovedOwnNothing, IsValid
  <2>3. DisableCall(h, TRUE) => UNCHANGED slot
    BY <1>1, <2>2 DEF DisableCall, Trap, Next
  <2> QED BY <2>2, <2>3 DEF Destroy, MoveAssign, ReleaseHook, DisablesOnDestroy
<1>2. Init => Shape
  BY ShapeInit
<1>3. Shape /\ [Next]_hvars => Shape'
  BY ShapeStep
<1>4. Shape /\ [Next]_hvars
        => [\A h \in moved : Destroy(h) \/ (\E g \in Objects : MoveAssign(h, g))
                               => UNCHANGED slot]_hvars
  BY <1>1
<1> QED BY <1>2, <1>3, <1>4, PTL DEF Spec, MovedFromInert

(* No release runs into an assertion or a null pointer: always for IatHook *)
(* and for VftHook when only hooks that own a slot are assigned to.        *)
THEOREM ReleaseNeverTrapsHolds ==
  ASSUME VftObjects = {} \/ "assign_owning" \in ClientRules
  PROVE  Spec => ReleaseNeverTraps
<1>1. ASSUME Next, NEW h \in Objects,
             Destroy(h) \/ (\E g \in Objects : MoveAssign(h, g))
      PROVE  status' \notin {"asserted", "faulted"}
  <2>1. IsValid(h) \/ (h \in VftObjects /\ Owns(h)) => Trap(h) = "running"
    BY DEF Trap, IsValid, Owns
  <2>2. Trap(h) = "running" /\ DisableCall(h, TRUE) => status' \notin {"asserted", "faulted"}
    BY <1>1 DEF DisableCall, WriteSlot, Next
  <2>3. CASE Destroy(h)
    BY <1>1, <2>1, <2>2, <2>3 DEF Destroy, ReleaseHook, DisablesOnDestroy, Next
  <2>4. CASE \E g \in Objects : MoveAssign(h, g)
    BY <1>1, <2>1, <2>2, <2>4, HookAssumption DEF MoveAssign, ReleaseHook, DisablesOnAssign, Next
  <2> QED BY <1>1, <2>3, <2>4
<1>2. [Next]_hvars
        => [(\E h \in Objects : Destroy(h) \/ (\E g \in Objects : MoveAssign(h, g)))
              => status' \notin {"asserted", "faulted"}]_hvars
  BY <1>1
<1> QED BY <1>2, PTL DEF Spec, ReleaseNeverTraps

-----------------------------------------------------------------------------
(* Under "nested" the hooks of a slot implement InterceptPoint.            *)

(* Three kinds of step seen by InterceptPoint: nothing happens to a slot   *)
(* or its owners, a slot is switched, an owner is lost.                    *)
LEMMA StutterMaps ==
  ASSUME slot' = slot, \A q \in Slots : Owned(q)' = Owned(q)
  PROVE  UNCHANGED Point!ivars
  BY DEF Point!ivars

LEMMA SwitchMaps ==
  ASSUME NEW p \in Slots, NEW f \in Owned(p) \cup Outside,
         \A q \in Slots : Owned(q)' = Owned(q),
         slot' = [slot EXCEPT ![p] = f]
  PROVE  Point!Next
<1>1. [q \in Slots |-> Owned(q)'] = [q \in Slots |-> Owned(q)]
  OBVIOUS
<1>2. Point!Switch(p)
  BY <1>1 DEF Point!Switch
<1> QED BY <1>2 DEF Point!Next

LEMMA DetachMaps ==
  ASSUME NEW p \in Slots, NEW h \in Detours,
         \A q \in Slots : Owned(q)' = IF q = p THEN Owned(q) \ {h} ELSE Owned(q),
         \/ slot' = slot /\ slot[p] # h
         \/ /\ slot[p] = h
            /\ \E f \in (Owned(p) \ {h}) \cup Outside : slot' = [slot EXCEPT ![p] = f]
  PROVE  Point!Next
<1>1. [q \in Slots |-> Owned(q)'] = [[q \in Slots |-> Owned(q)] EXCEPT ![p] = @ \ {h}]
  OBVIOUS
<1>2. Point!Detach(p, h)
  BY <1>1 DEF Point!Detach
<1> QED BY <1>2 DEF Point!Next

(* The detours of slot q that an object other than d answers for.          *)
OwnedBesides(d, q) == {hook[g].detour : g \in {k \in Objects \ {d} : hook[k].entry = q}}

(* Without hook d a slot keeps its owners, or loses the detour of d when   *)
(* no other hook of the slot has the same one.                             *)
LEMMA OwnedWithout ==
  ASSUME HookInv, NEW d \in Objects, NEW q \in Slots
  PROVE  OwnedBesides(d, q)
           = IF /\ hook[d].entry = q
                /\ \A g \in Objects \ {d} : hook[g].entry = q => hook[g].detour # hook[d].detour
             THEN Owned(q) \ {hook[d].detour} ELSE Owned(q)
  BY DEF Owned, OwnedBesides

(* Releasing hook d is one step of the slot: it loses an owner, it is      *)
(* switched to what d saved, or nothing is seen of it.                     *)
LEMMA ReleaseMaps ==
  ASSUME HookInv, NEW d \in Objects, NEW asks \in BOOLEAN,
         IsValid(d) => asks, ReleaseHook(d, asks), status = "running", status' = "running",
         \A q \in Slots : Owned(q)' = OwnedBesides(d, q)
  PROVE  [Point!Next]_(Point!ivars)
<1>1. \/ /\ slot' = slot
         /\ Owns(d) => slot[hook[d].entry] # hook[d].detour
      \/ /\ Owns(d)
         /\ slot[hook[d].entry] = hook[d].detour
         /\ slot' = [slot EXCEPT ![hook[d].entry] = hook[d].original]
  BY ReleaseEffect
<1>2. CASE ~Owns(d)
  <2>1. \A q \in Slots : Owned(q)' = Owned(q)
    BY <1>2, OwnedWithout, HookAssumption DEF Owns
  <2> QED BY <1>1, <1>2, <2>1, StutterMaps
<1>3. CASE Owns(d)
  <2>1. hook[d].entry \in Slots /\ hook[d].detour \in Detours
    BY <1>3 DEF HookInv, Shape, TypeOK, OwnersFilled, Owns
  <2>2. CASE \E g \in Objects \ {d} : /\ hook[g].entry = hook[d].entry
                                      /\ hook[g].detour = hook[d].detour
    <3>1. \A q \in Slots : Owned(q)' = Owned(q)
      BY <2>2, OwnedWithout
    <3>2. hook[d].original \in Owned(hook[d].entry) \cup Outside
      BY <1>3 DEF HookInv, OriginalsOutlive, Owned
    <3> QED BY <1>1, <2>1, <3>1, <3>2, StutterMaps, SwitchMaps
  <2>3. CASE \A g \in Objects \ {d} : hook[g].entry = hook[d].entry
                                        => hook[g].detour # hook[d].detour
    <3>1. \A q \in Slots : Owned(q)' = IF q = hook[d].entry THEN Owned(q) \ {hook[d].detour}
                                       ELSE Owned(q)
      BY <2>3, OwnedWithout
    <3>2. hook[d].original \in (Owned(hook[d].entry) \ {hook[d].detour}) \cup Outside
      BY <1>3, <2>3 DEF HookInv, OriginalsOutlive, Owned
    <3> QED BY <1>1, <1>3, <2>1, <3>1, <3>2, DetachMaps
  <2> QED BY <2>2, <2>3
<1> QED BY <1>2, <1>3

(* A call that keeps every object and restores or installs nothing but     *)
(* what hook h may is a switch of its slot, or is not seen.                *)
LEMMA CallMaps ==
  ASSUME HookInv, NEW h \in Objects, hook' = hook,
         \/ slot' = slot
         \/ /\ Owns(h)
            /\ \E f \in {hook[h].original, hook[h].detour} :
                 slot' = [slot EXCEPT ![hook[h].entry] = f]
  PROVE  [Point!Next]_(Point!ivars)
<1>1. \A q \in Slots : Owned(q)' = Owned(q)
  BY DEF Owned
<1>2. Owns(h) => /\ hook[h].entry \in Slots
                 /\ {hook[h].original, hook[h].detour} \subseteq Owned(hook[h].entry) \cup Outside
  BY DEF HookInv, Shape, TypeOK, OriginalsOutlive, Owned, Owns
<1> QED BY <1>1, <1>2, StutterMaps, SwitchMaps

LEMMA PointInit == Init => Point!Init
<1> SUFFICES ASSUME Init PROVE Point!Init
  OBVIOUS
<1>1. \A q \in Slots : Owned(q) = {}
  BY HookAssumption DEF Init, Owned, Blank
<1> QED BY <1>1 DEF Init, Point!Init

LEMMA PointStep ==
  ASSUME HookInv, [Next]_hvars
  PROVE  [Point!Next]_(Point!ivars)
<1>0. Shape
  BY DEF HookInv
<1>1. ASSUME NEW h \in Objects, NEW s \in Slots, NEW d \in Detours, Construct(h, s, d)
      PROVE  Point!Next
  <2>1. /\ hook'[h] = [entry |-> s, original |-> slot[s], detour |-> d]
        /\ \A g \in Objects \ {h} : hook'[g] = hook[g]
        /\ ~Owns(h)
        /\ slot' = slot
    BY <1>0, <1>1 DEF Construct, Constructed, Shape, TypeOK, MovedOwnNothing
  <2>2. \A q \in Slots : Owned(q)' = IF q = s THEN Owned(q) \cup {d} ELSE Owned(q)
    BY <2>1, HookAssumption DEF Owned, Owns
  <2>3. [q \in Slots |-> Owned(q)'] = [[q \in Slots |-> Owned(q)] EXCEPT ![s] = @ \cup {d}]
    BY <2>2
  <2>4. Point!Attach(s, d)
    BY <2>1, <2>3 DEF Point!Attach
  <2> QED BY <2>4 DEF Point!Next
<1>2. ASSUME status = "running", NEW h \in Objects, Enable(h) \/ Disable(h)
      PROVE  [Point!Next]_(Point!ivars)
  <2>1. /\ hook' = hook
        /\ \/ slot' = slot
           \/ /\ Owns(h)
              /\ \E f \in {hook[h].original, hook[h].detour} :
                   slot' = [slot EXCEPT ![hook[h].entry] = f]
    BY <1>2, EnableEffect, DisableEffect DEF Enable, Disable
  <2> QED BY <2>1, CallMaps
<1>3. ASSUME status = "running", NEW h \in Objects, Destroy(h)
      PROVE  [Point!Next]_(Point!ivars)
  <2>1. /\ DisablesOnDestroy(h) \in BOOLEAN
        /\ IsValid(h) => DisablesOnDestroy(h)
        /\ ReleaseHook(h, DisablesOnDestroy(h))
    BY <1>3 DEF Destroy, DisablesOnDestroy, IsValid
  <2>2. CASE status' = "running"
    <3>1. /\ hook'[h].entry = Null
          /\ \A g \in Objects \ {h} : hook'[g] = hook[g]
      BY <1>0, <1>3, <2>2 DEF Destroy, Shape, TypeOK, Blank
    <3>2. \A q \in Slots : Owned(q)' = OwnedBesides(h, q)
      BY <3>1, HookAssumption DEF Owned, OwnedBesides
    <3> QED BY <1>3, <2>1, <2>2, <3>2, ReleaseMaps
  <2>3. CASE status' # "running"
    <3>1. /\ hook' = hook
          /\ \/ slot' = slot
             \/ Owns(h) /\ slot' = [slot EXCEPT ![hook[h].entry] = hook[h].original]
      BY <1>3, <2>1, <2>3, ReleaseEffect DEF Destroy
    <3> QED BY <3>1, CallMaps
  <2> QED BY <2>2, <2>3
<1>4. ASSUME NEW d \in Objects, NEW s \in Objects, MoveConstruct(d, s)
      PROVE  UNCHANGED Point!ivars
  <2>1. /\ d # s /\ ~Owns(d)
        /\ hook'[s].entry = Null
        /\ hook'[d] = hook[s]
        /\ \A g \in Objects \ {s, d} : hook'[g] = hook[g]
        /\ slot' = slot
    BY <1>0, <1>4, TransferEffect DEF MoveConstruct, Shape, MovedOwnNothing, TypeOK
  <2>2. \A q \in Slots : Owned(q)' = Owned(q)
    BY <2>1, HookAssumption DEF Owned, Owns
  <2> QED BY <2>1, <2>2, StutterMaps
<1>5. ASSUME status = "running", NEW d \in Objects, NEW s \in Objects, MoveAssign(d, s)
      PROVE  [Point!Next]_(Point!ivars)
  <2>1. /\ DisablesOnAssign(d) \in BOOLEAN
        /\ IsValid(d) => DisablesOnAssign(d)
        /\ ReleaseHook(d, DisablesOnAssign(d))
    BY <1>5 DEF MoveAssign, DisablesOnAssign, IsValid
  <2>2. CASE status' = "running"
    <3>1. /\ hook'[s].entry = Null
          /\ s # d => hook'[d] = hook[s]
          /\ \A g \in Objects \ {s, d} : hook'[g] = hook[g]
      BY <1>0, <1>5, <2>2, TransferEffect DEF MoveAssign, Shape, TypeOK
    <3>2. \A q \in Slots : Owned(q)' = OwnedBesides(d, q)
      BY <3>1, HookAssumption DEF Owned, OwnedBesides
    <3> QED BY <1>5, <2>1, <2>2, <3>2, ReleaseMaps
  <2>3. CASE status' # "running"
    <3>1. /\ hook' = hook
          /\ \/ slot' = slot
             \/ Owns(d) /\ slot' = [slot EXCEPT ![hook[d].entry] = hook[d].original]
      BY <1>5, <2>1, <2>3, ReleaseEffect DEF MoveAssign
    <3> QED BY <3>1, CallMaps
  <2> QED BY <2>2, <2>3
<1>6. ASSUME NEW s \in Slots, NEW f \in Foreign, Overwrite(s, f)
      PROVE  Point!Next
  <2>1. \A q \in Slots : Owned(q)' = Owned(q)
    BY <1>6 DEF Overwrite, Owned
  <2> QED BY <1>6, <2>1, SwitchMaps DEF Overwrite, Outside
<1>7. CASE UNCHANGED hvars
  <2>1. slot' = slot /\ \A q \in Slots : Owned(q)' = Owned(q)
    BY <1>7 DEF hvars, Owned
  <2> QED BY <2>1, StutterMaps
<1> QED BY <1>1, <1>2, <1>3, <1>4, <1>5, <1>6, <1>7 DEF Next

(* The hooks of a slot keep what InterceptPoint promises: each call is one *)
(* step of the point or is not seen by it, for any number of hooks, shared *)
(* detours, moves and foreign writes, when releases are nested.            *)
THEOREM ImplementsInterceptPoint ==
  ASSUME "nested" \in ClientRules PROVE Spec => IsInterceptPoint
<1>1. Init => HookInv /\ Point!Init
  BY HookInit, PointInit
<1>2. HookInv /\ [Next]_hvars => HookInv'
  BY HookStep
<1>3. HookInv /\ [Next]_hvars => [Point!Next]_(Point!ivars)
  BY PointStep
<1> QED BY <1>1, <1>2, <1>3, PTL DEF Spec, IsInterceptPoint, Point!Spec
=============================================================================
