------------------------- MODULE InlineDetourProofs -------------------------
(***************************************************************************)
(* Proofs about InlineDetour for any number of objects, functions and      *)
(* trampolines, whichever steps of construct and release fail: its types,  *)
(* what functions and saved instructions lead to, which releases divert a  *)
(* function, and that the detours implement InterceptPoint.                *)
(***************************************************************************)
EXTENDS InlineDetour, TLAPS

Records == [entry : Entrypoints \cup {Null},
            saved : Trampolines \cup Outside \cup {Null},
            tramp : Trampolines \cup {Null}]

(* Storage without an object, and an object that was moved from, holds     *)
(* neither instructions nor a trampoline; an owner of one has both.        *)
HoldersAlive ==
  \A o \in Objects :
    /\ detour[o].tramp # Null <=> detour[o].saved # Null
    /\ detour[o].tramp # Null => o \in alive

Shape == TypeOK /\ HoldersAlive /\ OneOwnerPerTrampoline

(* What a release will write back is outside code or the jmp to another    *)
(* live trampoline of the function.                                        *)
SavedOutlive ==
  \A o \in Objects : detour[o].saved # Null /\ detour[o].entry \notin spoiled =>
    \/ detour[o].saved \in Outside
    \/ \E p \in Objects \ {o} : /\ detour[p].entry = detour[o].entry
                                /\ detour[p].tramp = detour[o].saved

(* Every live trampoline of a function is reached: the function starts     *)
(* with the jmp to it, or another live detour saved that jmp.              *)
EveryJumpKept ==
  \A o \in Objects : detour[o].tramp # Null /\ detour[o].entry \notin spoiled \cup shared =>
    \/ head[detour[o].entry] = detour[o].tramp
    \/ \E p \in Objects \ {o} : /\ detour[p].entry = detour[o].entry
                                /\ detour[p].saved = detour[o].tramp

(* The inductive invariants: Shape needs no promise of the client, JumpInv *)
(* needs "nested", and StackInv "no_self_move" too.  A process that ended  *)
(* inside a release has restored the function and kept the object.         *)
JumpInv  == Shape /\ NoDanglingJump /\ SavedOutlive
StackInv == Shape /\ (status = "running" => EveryJumpKept)

-----------------------------------------------------------------------------
(* What the calls do to a function and to the objects.                     *)

(* A release writes the saved instructions or leaves the function alone;   *)
(* one that goes through has written them when there are any.              *)
LEMMA RestoreEffect ==
  ASSUME NEW o \in Objects, RestoreEntrypoint(o), status = "running"
  PROVE  /\ status' \in {"running", "terminated"}
         /\ \/ head' = head
            \/ /\ detour[o].saved # Null
               /\ head' = [head EXCEPT ![detour[o].entry] = detour[o].saved]
         /\ status' = "running" => head' = Restored(o)
  BY DEF RestoreEntrypoint, Restored

(* A restored function starts with what the released object saved, every   *)
(* other function with what it started with.                               *)
LEMMA RestoredHead ==
  ASSUME TypeOK, NEW o \in Objects, NEW f \in Entrypoints,
         \/ head' = head
         \/ /\ detour[o].saved # Null
            /\ head' = [head EXCEPT ![detour[o].entry] = detour[o].saved]
  PROVE  \/ head'[f] = head[f]
         \/ /\ detour[o].saved # Null
            /\ f = detour[o].entry
            /\ head'[f] = detour[o].saved
  BY DEF TypeOK

(* A move to another object hands over everything but the entrypoint.      *)
LEMMA MoveEffect ==
  ASSUME TypeOK, NEW d \in Objects, NEW s \in Objects, d # s,
         detour' = [detour EXCEPT ![d] = detour[s], ![s] = MovedFrom(s)]
  PROVE  /\ detour'[d] = detour[s]
         /\ detour'[s].entry = detour[s].entry
         /\ detour'[s].saved = Null
         /\ detour'[s].tramp = Null
         /\ \A p \in Objects \ {d, s} : detour'[p] = detour[p]
         /\ detour' \in [Objects -> Records]
<1>1. detour[s] \in Records
  BY DEF TypeOK, Records
<1>2. /\ MovedFrom(s).entry = detour[s].entry
      /\ MovedFrom(s).saved = Null
      /\ MovedFrom(s).tramp = Null
      /\ MovedFrom(s) \in Records
  BY <1>1 DEF MovedFrom, Records
<1> QED BY <1>1, <1>2 DEF TypeOK, Records

-----------------------------------------------------------------------------
(* The shape of the state needs no promise of the client.                  *)

LEMMA ShapeInit == Init => Shape
  BY DetourAssumption DEF Init, Shape, TypeOK, HoldersAlive, OneOwnerPerTrampoline,
         Holds, Blank, Outside

LEMMA ShapeStep ==
  ASSUME Shape, [Next]_dvars
  PROVE  Shape'
<1> USE DEF Shape, Records
<1>1. ASSUME NEW o \in Objects, DefaultConstruct(o), status = "running"
      PROVE  Shape'
  BY <1>1 DEF DefaultConstruct, TypeOK, HoldersAlive, OneOwnerPerTrampoline, Holds
<1>2. ASSUME NEW o \in Objects, NEW f \in Entrypoints, NEW t \in Trampolines,
             Construct(o, f, t), status = "running"
      PROVE  Shape'
  <2>1. /\ detour'[o] = [entry |-> f, saved |-> head[f], tramp |-> t]
        /\ \A p \in Objects \ {o} : detour'[p] = detour[p]
        /\ detour' \in [Objects -> Records]
    BY <1>2 DEF Construct, TypeOK
  <2>2. TypeOK'
    BY <1>2, <2>1, DetourAssumption DEF Construct, TypeOK
  <2>3. head[f] # Null /\ t # Null
    BY DetourAssumption DEF TypeOK, Outside
  <2>4. HoldersAlive'
    BY <1>2, <2>1, <2>3 DEF Construct, HoldersAlive
  <2>5. detour[o].tramp = Null
    BY <1>2 DEF Construct, HoldersAlive
  <2>6. OneOwnerPerTrampoline'
    BY <1>2, <2>1, <2>3, <2>5 DEF Construct, OneOwnerPerTrampoline, Holds
  <2> QED BY <2>2, <2>4, <2>6
<1>3. ASSUME NEW f \in Entrypoints, NEW t \in Trampolines,
             ConstructThrows(f, t), status = "running"
      PROVE  Shape'
  BY <1>3 DEF ConstructThrows, PagesAfterThrow, TypeOK, HoldersAlive,
              OneOwnerPerTrampoline, Holds
<1>4. ASSUME NEW o \in Objects, Destroy(o), status = "running"
      PROVE  Shape'
  <2>1. /\ status' \in {"running", "terminated"}
        /\ head' \in [Entrypoints -> Trampolines \cup Outside]
    BY <1>4, RestoreEffect DEF Destroy, TypeOK
  <2>2. CASE status' = "running"
    <3>1. /\ detour'[o] = Blank
          /\ \A p \in Objects \ {o} : detour'[p] = detour[p]
          /\ detour' \in [Objects -> Records]
      BY <1>4, <2>2 DEF Destroy, TypeOK, Blank
    <3>2. /\ alive' = alive \ {o}
          /\ mapped' = mapped \ Holds(o)
          /\ UNCHANGED <<spoiled, shared>>
      BY <1>4, <2>2 DEF Destroy, Unmapped
    <3>3. TypeOK'
      BY <2>1, <3>1, <3>2 DEF TypeOK, Blank
    <3>4. HoldersAlive'
      BY <3>1, <3>2 DEF HoldersAlive, Blank
    <3>5. OneOwnerPerTrampoline'
      BY <3>1, <3>2 DEF OneOwnerPerTrampoline, Holds, Blank
    <3> QED BY <3>3, <3>4, <3>5
  <2>3. CASE status' # "running"
    BY <1>4, <2>1, <2>3 DEF Destroy, TypeOK, HoldersAlive, OneOwnerPerTrampoline, Holds
  <2> QED BY <2>2, <2>3
<1>5. ASSUME NEW d \in Objects, NEW s \in Objects, MoveConstruct(d, s), status = "running"
      PROVE  Shape'
  <2>1. d # s /\ detour[d].tramp = Null /\ detour[d].saved = Null
    BY <1>5 DEF MoveConstruct, HoldersAlive
  <2>2. /\ detour'[d] = detour[s]
        /\ detour'[s].entry = detour[s].entry
        /\ detour'[s].saved = Null
        /\ detour'[s].tramp = Null
        /\ \A p \in Objects \ {d, s} : detour'[p] = detour[p]
        /\ detour' \in [Objects -> Records]
    BY <1>5, <2>1, MoveEffect DEF MoveConstruct
  <2>3. TypeOK'
    BY <1>5, <2>2 DEF MoveConstruct, TypeOK
  <2>4. HoldersAlive'
    BY <1>5, <2>2 DEF MoveConstruct, HoldersAlive
  <2>5. OneOwnerPerTrampoline'
    BY <1>5, <2>1, <2>2 DEF MoveConstruct, OneOwnerPerTrampoline, Holds
  <2> QED BY <2>3, <2>4, <2>5
<1>6. ASSUME NEW d \in Objects, NEW s \in Objects, MoveAssign(d, s), status = "running"
      PROVE  Shape'
  <2>1. /\ status' \in {"running", "terminated"}
        /\ head' \in [Entrypoints -> Trampolines \cup Outside]
    BY <1>6, RestoreEffect DEF MoveAssign, TypeOK
  <2>2. CASE status' = "running" /\ d # s
    <3>1. /\ detour'[d] = detour[s]
          /\ detour'[s].entry = detour[s].entry
          /\ detour'[s].saved = Null
          /\ detour'[s].tramp = Null
          /\ \A p \in Objects \ {d, s} : detour'[p] = detour[p]
          /\ detour' \in [Objects -> Records]
      BY <1>6, <2>2, MoveEffect DEF MoveAssign
    <3>2. mapped' = mapped \ Holds(d) /\ {d, s} \subseteq alive /\ UNCHANGED <<alive, spoiled, shared>>
      BY <1>6, <2>2 DEF MoveAssign, Unmapped
    <3>3. TypeOK'
      BY <2>1, <3>1, <3>2 DEF TypeOK
    <3>4. HoldersAlive'
      BY <3>1, <3>2 DEF HoldersAlive
    <3>5. OneOwnerPerTrampoline'
      BY <2>2, <3>1, <3>2 DEF OneOwnerPerTrampoline, Holds
    <3> QED BY <3>3, <3>4, <3>5
  <2>3. CASE status' # "running" \/ d = s
    <3>1. UNCHANGED <<mapped, alive, detour, spoiled, shared>>
      BY <1>6, <2>1, <2>3 DEF MoveAssign
    <3> QED BY <2>1, <3>1 DEF TypeOK, HoldersAlive, OneOwnerPerTrampoline, Holds
  <2> QED BY <2>2, <2>3
<1>7. ASSUME NEW f \in Entrypoints, NEW x \in Foreign, Overwrite(f, x)
      PROVE  Shape'
  BY <1>7 DEF Overwrite, TypeOK, HoldersAlive, OneOwnerPerTrampoline, Holds, Outside
<1>8. CASE UNCHANGED dvars
  BY <1>8 DEF dvars, TypeOK, HoldersAlive, OneOwnerPerTrampoline, Holds
<1> QED BY <1>1, <1>2, <1>3, <1>4, <1>5, <1>6, <1>7, <1>8 DEF Next

(* TypeOK holds whatever the client does and whatever fails.               *)
THEOREM DetourTypeCorrect == Spec => []TypeOK
<1>1. Init => Shape
  BY ShapeInit
<1>2. Shape /\ [Next]_dvars => Shape'
  BY ShapeStep
<1>3. Shape => TypeOK
  BY DEF Shape
<1> QED BY <1>1, <1>2, <1>3, PTL DEF Spec

(* No trampoline is leaked, none has two owners that would both free it:   *)
(* through moves, self-assignment, constructors that throw and releases    *)
(* that end the process, whatever the client promises.                     *)
THEOREM OneOwnerAlways == Spec => []OneOwnerPerTrampoline
<1>1. Init => Shape
  BY ShapeInit
<1>2. Shape /\ [Next]_dvars => Shape'
  BY ShapeStep
<1>3. Shape => OneOwnerPerTrampoline
  BY DEF Shape
<1> QED BY <1>1, <1>2, <1>3, PTL DEF Spec

-----------------------------------------------------------------------------
(* Under "nested" every function leads to live memory.                     *)

LEMMA JumpInit == Init => JumpInv
  BY ShapeInit DEF Init, JumpInv, NoDanglingJump, SavedOutlive, Outside, Blank

(* Giving up the trampoline of d leaves nothing that leads to it: d writes *)
(* back what outlives it, and no other object saved the jmp of d.          *)
LEMMA ReleaseKeeps ==
  ASSUME JumpInv, NEW d \in Objects, "nested" \in ClientRules, Releasable(d),
         RestoreEntrypoint(d), status = "running", status' = "running"
  PROVE  /\ \A f \in Entrypoints \ spoiled :
              \/ head'[f] \in Outside
              \/ \E p \in Objects \ {d} : detour[p].entry = f /\ head'[f] \in Holds(p)
         /\ \A o \in Objects \ {d} : detour[o].saved # Null /\ detour[o].entry \notin spoiled =>
              \/ detour[o].saved \in Outside
              \/ \E p \in Objects \ {o, d} : /\ detour[p].entry = detour[o].entry
                                             /\ detour[p].tramp = detour[o].saved
<1>1. ASSUME NEW f \in Entrypoints \ spoiled
      PROVE  \/ head'[f] \in Outside
             \/ \E p \in Objects \ {d} : detour[p].entry = f /\ head'[f] \in Holds(p)
  <2>1. head' = Restored(d)
    BY RestoreEffect
  <2>2. CASE detour[d].saved # Null /\ detour[d].entry = f
    <3>1. head'[f] = detour[d].saved
      BY <2>1, <2>2 DEF Restored, JumpInv, Shape, TypeOK
    <3> QED BY <2>2, <3>1 DEF JumpInv, SavedOutlive, Holds
  <2>3. CASE detour[d].saved = Null \/ detour[d].entry # f
    <3>1. head'[f] = head[f]
      BY <2>1, <2>3 DEF Restored, JumpInv, Shape, TypeOK
    <3>2. \/ head[f] \in Outside
          \/ \E p \in Objects : detour[p].entry = f /\ head[f] \in Holds(p)
      BY DEF JumpInv, NoDanglingJump, Owned
    <3>3. ~(detour[d].entry = f /\ head[f] \in Holds(d))
      BY <2>3 DEF JumpInv, Shape, HoldersAlive, Holds
    <3> QED BY <3>1, <3>2, <3>3
  <2> QED BY <2>2, <2>3
<1>2. ASSUME NEW o \in Objects \ {d}, detour[o].saved # Null, detour[o].entry \notin spoiled
      PROVE  \/ detour[o].saved \in Outside
             \/ \E p \in Objects \ {o, d} : /\ detour[p].entry = detour[o].entry
                                            /\ detour[p].tramp = detour[o].saved
  <2>1. \/ detour[o].saved \in Outside
        \/ \E p \in Objects \ {o} : /\ detour[p].entry = detour[o].entry
                                    /\ detour[p].tramp = detour[o].saved
    BY <1>2 DEF JumpInv, SavedOutlive
  <2>2. ~(detour[d].entry = detour[o].entry /\ detour[d].tramp = detour[o].saved)
    BY <1>2 DEF Releasable, Holds
  <2> QED BY <2>1, <2>2
<1> QED BY <1>1, <1>2

(* A release that ends the process, or an assignment of an object to       *)
(* itself, keeps the objects: the function leads to what outlives d.       *)
LEMMA InterruptedReleaseKeeps ==
  ASSUME JumpInv, NEW d \in Objects, RestoreEntrypoint(d), status = "running",
         UNCHANGED <<detour, spoiled>>
  PROVE  (NoDanglingJump /\ SavedOutlive)'
<1>1. ASSUME NEW f \in Entrypoints \ spoiled
      PROVE  head'[f] \in Owned(f) \cup Outside
  <2>1. \/ head'[f] = head[f]
        \/ detour[d].saved # Null /\ f = detour[d].entry /\ head'[f] = detour[d].saved
    BY RestoreEffect, RestoredHead DEF JumpInv, Shape
  <2>2. CASE head'[f] = head[f]
    BY <2>2 DEF JumpInv, NoDanglingJump
  <2>3. CASE detour[d].saved # Null /\ f = detour[d].entry /\ head'[f] = detour[d].saved
    BY <2>3 DEF JumpInv, SavedOutlive, Owned, Holds
  <2> QED BY <2>1, <2>2, <2>3
<1> QED BY <1>1 DEF JumpInv, NoDanglingJump, SavedOutlive, Owned, Holds

LEMMA JumpStep ==
  ASSUME "nested" \in ClientRules, JumpInv, [Next]_dvars
  PROVE  JumpInv'
<1>0. Shape /\ Shape'
  BY ShapeStep DEF JumpInv
<1>1. ASSUME NEW o \in Objects, DefaultConstruct(o)
      PROVE  (NoDanglingJump /\ SavedOutlive)'
  BY <1>1 DEF DefaultConstruct, JumpInv, NoDanglingJump, SavedOutlive, Owned, Holds
<1>2. ASSUME NEW o \in Objects, NEW f \in Entrypoints, NEW t \in Trampolines,
             Construct(o, f, t)
      PROVE  (NoDanglingJump /\ SavedOutlive)'
  <2>1. /\ detour'[o] = [entry |-> f, saved |-> head[f], tramp |-> t]
        /\ \A p \in Objects \ {o} : detour'[p] = detour[p]
        /\ \A g \in Entrypoints : head'[g] = IF g = f THEN t ELSE head[g]
        /\ UNCHANGED spoiled
    BY <1>0, <1>2 DEF Construct, Shape, TypeOK
  <2>2. detour[o].tramp = Null /\ detour[o].saved = Null /\ t # Null
    BY <1>0, <1>2, DetourAssumption DEF Construct, Shape, HoldersAlive
  <2>3. NoDanglingJump'
    BY <2>1, <2>2 DEF JumpInv, NoDanglingJump, Owned, Holds
  <2>4. ASSUME f \notin spoiled
        PROVE  \/ head[f] \in Outside
               \/ \E p \in Objects \ {o} : detour[p].entry = f /\ detour[p].tramp = head[f]
    BY <2>2, <2>4 DEF JumpInv, NoDanglingJump, Owned, Holds
  <2>5. SavedOutlive'
    BY <2>1, <2>2, <2>4 DEF JumpInv, SavedOutlive
  <2> QED BY <2>3, <2>5
<1>3. ASSUME NEW f \in Entrypoints, NEW t \in Trampolines, ConstructThrows(f, t)
      PROVE  (NoDanglingJump /\ SavedOutlive)'
  <2>1. /\ UNCHANGED detour
        /\ spoiled \subseteq spoiled'
        /\ \A g \in Entrypoints \ spoiled' : head'[g] = head[g]
    BY <1>0, <1>3 DEF ConstructThrows, Shape, TypeOK
  <2> QED BY <2>1 DEF JumpInv, NoDanglingJump, SavedOutlive, Owned, Holds
<1>4. ASSUME NEW o \in Objects, Destroy(o), status = "running"
      PROVE  (NoDanglingJump /\ SavedOutlive)'
  <2>1. Releasable(o) /\ RestoreEntrypoint(o) /\ UNCHANGED spoiled
    BY <1>4 DEF Destroy
  <2>2. CASE status' = "running"
    <3>1. /\ detour'[o] = Blank
          /\ \A p \in Objects \ {o} : detour'[p] = detour[p]
      BY <1>0, <1>4, <2>2 DEF Destroy, Shape, TypeOK
    <3>2. /\ \A f \in Entrypoints \ spoiled :
               \/ head'[f] \in Outside
               \/ \E p \in Objects \ {o} : detour[p].entry = f /\ head'[f] \in Holds(p)
          /\ \A q \in Objects \ {o} : detour[q].saved # Null /\ detour[q].entry \notin spoiled =>
               \/ detour[q].saved \in Outside
               \/ \E p \in Objects \ {q, o} : /\ detour[p].entry = detour[q].entry
                                              /\ detour[p].tramp = detour[q].saved
      BY <1>4, <2>1, <2>2, ReleaseKeeps
    <3>3. NoDanglingJump'
      BY <2>1, <3>1, <3>2 DEF NoDanglingJump, Owned, Holds
    <3>4. SavedOutlive'
      BY <2>1, <3>1, <3>2 DEF SavedOutlive, Blank
    <3> QED BY <3>3, <3>4
  <2>3. CASE status' # "running"
    BY <1>4, <2>1, <2>3, InterruptedReleaseKeeps DEF Destroy
  <2> QED BY <2>2, <2>3
<1>5. ASSUME NEW d \in Objects, NEW s \in Objects, MoveConstruct(d, s)
      PROVE  (NoDanglingJump /\ SavedOutlive)'
  <2>1. d # s /\ detour[d].tramp = Null /\ detour[d].saved = Null
    BY <1>0, <1>5 DEF MoveConstruct, Shape, HoldersAlive
  <2>2. /\ detour'[d] = detour[s]
        /\ detour'[s].entry = detour[s].entry
        /\ detour'[s].saved = Null
        /\ detour'[s].tramp = Null
        /\ \A p \in Objects \ {d, s} : detour'[p] = detour[p]
        /\ UNCHANGED <<head, spoiled>>
    BY <1>0, <1>5, <2>1, MoveEffect DEF MoveConstruct, Shape
  <2>3. NoDanglingJump'
    BY <2>1, <2>2 DEF JumpInv, NoDanglingJump, Owned, Holds
  <2>4. SavedOutlive'
    BY <2>1, <2>2 DEF JumpInv, SavedOutlive
  <2> QED BY <2>3, <2>4
<1>6. ASSUME NEW d \in Objects, NEW s \in Objects, MoveAssign(d, s), status = "running"
      PROVE  (NoDanglingJump /\ SavedOutlive)'
  <2>1. Releasable(d) /\ RestoreEntrypoint(d) /\ UNCHANGED spoiled
    BY <1>6 DEF MoveAssign
  <2>2. CASE status' = "running" /\ d # s
    <3>1. /\ detour'[d] = detour[s]
          /\ detour'[s].entry = detour[s].entry
          /\ detour'[s].saved = Null
          /\ detour'[s].tramp = Null
          /\ \A p \in Objects \ {d, s} : detour'[p] = detour[p]
      BY <1>0, <1>6, <2>2, MoveEffect DEF MoveAssign, Shape
    <3>2. /\ \A f \in Entrypoints \ spoiled :
               \/ head'[f] \in Outside
               \/ \E p \in Objects \ {d} : detour[p].entry = f /\ head'[f] \in Holds(p)
          /\ \A q \in Objects \ {d} : detour[q].saved # Null /\ detour[q].entry \notin spoiled =>
               \/ detour[q].saved \in Outside
               \/ \E p \in Objects \ {q, d} : /\ detour[p].entry = detour[q].entry
                                              /\ detour[p].tramp = detour[q].saved
      BY <1>6, <2>1, <2>2, ReleaseKeeps
    <3>3. NoDanglingJump'
      BY <2>1, <2>2, <3>1, <3>2 DEF NoDanglingJump, Owned, Holds
    <3>4. SavedOutlive'
      BY <2>1, <2>2, <3>1, <3>2 DEF SavedOutlive
    <3> QED BY <3>3, <3>4
  <2>3. CASE status' # "running" \/ d = s
    <3>1. UNCHANGED detour
      BY <1>6, <2>1, <2>3, RestoreEffect DEF MoveAssign
    <3> QED BY <1>6, <2>1, <3>1, InterruptedReleaseKeeps
  <2> QED BY <2>2, <2>3
<1>7. ASSUME NEW f \in Entrypoints, NEW x \in Foreign, Overwrite(f, x)
      PROVE  (NoDanglingJump /\ SavedOutlive)'
  <2>1. \A g \in Entrypoints : head'[g] = head[g] \/ head'[g] \in Outside
    BY <1>0, <1>7 DEF Overwrite, Shape, TypeOK, Outside
  <2> QED BY <1>7, <2>1 DEF Overwrite, JumpInv, NoDanglingJump, SavedOutlive, Owned, Holds
<1>8. CASE UNCHANGED dvars
  <2>1. UNCHANGED <<head, detour, spoiled>>
    BY <1>8 DEF dvars
  <2>2. NoDanglingJump'
    <3>1. ASSUME NEW f \in Entrypoints \ spoiled
          PROVE  head[f] \in Outside \/ \E p \in Objects : detour[p].entry = f /\ head[f] \in Holds(p)
      BY DEF JumpInv, NoDanglingJump, Owned
    <3> QED BY <2>1, <3>1 DEF NoDanglingJump, Owned, Holds
  <2>3. SavedOutlive'
    BY <2>1 DEF JumpInv, SavedOutlive
  <2> QED BY <1>0, <2>2, <2>3 DEF JumpInv
<1> QED BY <1>0, <1>1, <1>2, <1>3, <1>4, <1>5, <1>6, <1>7, <1>8 DEF Next, JumpInv

(* When detours of one function are released in nested order, no function  *)
(* ever starts with a jmp to memory without an owner, except where a       *)
(* constructor failed after it had written the jmp.                        *)
THEOREM NoDanglingJumpAlways ==
  ASSUME "nested" \in ClientRules PROVE Spec => []NoDanglingJump
<1>1. Init => JumpInv
  BY JumpInit
<1>2. JumpInv /\ [Next]_dvars => JumpInv'
  BY JumpStep
<1>3. JumpInv => NoDanglingJump
  BY DEF JumpInv
<1> QED BY <1>1, <1>2, <1>3, PTL DEF Spec

-----------------------------------------------------------------------------
(* Under "nested" and "no_self_move" a release takes out its own jmp.      *)

(* While a release can happen, what diverts the function of d is that the  *)
(* function starts with the jmp of d: no other object saved that jmp.      *)
LEMMA ReleasedIsOnTop ==
  ASSUME StackInv, NEW d \in Objects, "nested" \in ClientRules, Releasable(d),
         status = "running", detour[d].saved # Null,
         detour[d].entry \notin spoiled \cup shared
  PROVE  head[detour[d].entry] = detour[d].tramp
<1>1. detour[d].tramp # Null
  BY DEF StackInv, Shape, HoldersAlive
<1>2. \/ head[detour[d].entry] = detour[d].tramp
      \/ \E p \in Objects \ {d} : /\ detour[p].entry = detour[d].entry
                                  /\ detour[p].saved = detour[d].tramp
  BY <1>1 DEF StackInv, EveryJumpKept
<1> QED BY <1>1, <1>2 DEF Releasable, Holds

(* Without d every other live trampoline is still reached: the one below d *)
(* is what d writes back.                                                  *)
LEMMA ReleaseUncovers ==
  ASSUME StackInv, NEW d \in Objects, "nested" \in ClientRules, Releasable(d),
         RestoreEntrypoint(d), status = "running", status' = "running"
  PROVE  \A o \in Objects \ {d} :
           detour[o].tramp # Null /\ detour[o].entry \notin spoiled \cup shared =>
             \/ head'[detour[o].entry] = detour[o].tramp
             \/ \E p \in Objects \ {o, d} : /\ detour[p].entry = detour[o].entry
                                            /\ detour[p].saved = detour[o].tramp
<1> SUFFICES ASSUME NEW o \in Objects \ {d}, detour[o].tramp # Null,
                    detour[o].entry \notin spoiled \cup shared
             PROVE  \/ head'[detour[o].entry] = detour[o].tramp
                    \/ \E p \in Objects \ {o, d} : /\ detour[p].entry = detour[o].entry
                                                   /\ detour[p].saved = detour[o].tramp
  OBVIOUS
<1>1. \/ head[detour[o].entry] = detour[o].tramp
      \/ \E p \in Objects \ {o} : /\ detour[p].entry = detour[o].entry
                                  /\ detour[p].saved = detour[o].tramp
  BY DEF StackInv, EveryJumpKept
<1>2. /\ head' = Restored(d)
      /\ detour[o].entry \in Entrypoints
      /\ detour[d].tramp # detour[o].tramp
      /\ detour[d].saved = Null => detour[d].tramp = Null
  BY RestoreEffect DEF StackInv, Shape, TypeOK, HoldersAlive, OneOwnerPerTrampoline, Holds
<1>3. CASE detour[d].saved # Null /\ detour[d].entry = detour[o].entry
  <2>1. /\ head[detour[o].entry] = detour[d].tramp
        /\ head'[detour[o].entry] = detour[d].saved
    BY <1>2, <1>3, ReleasedIsOnTop DEF Restored, StackInv, Shape, TypeOK
  <2> QED BY <1>1, <1>2, <2>1
<1>4. CASE detour[d].saved = Null \/ detour[d].entry # detour[o].entry
  <2>1. head'[detour[o].entry] = head[detour[o].entry]
    BY <1>2, <1>4 DEF Restored, StackInv, Shape, TypeOK
  <2> QED BY <1>1, <1>4, <2>1
<1> QED BY <1>3, <1>4

LEMMA StackInit == Init => StackInv
  BY ShapeInit DEF Init, StackInv, EveryJumpKept, Blank

LEMMA StackStep ==
  ASSUME {"nested", "no_self_move"} \subseteq ClientRules, StackInv, [Next]_dvars
  PROVE  StackInv'
<1>0. Shape /\ Shape'
  BY ShapeStep DEF StackInv
<1>1. ASSUME NEW o \in Objects, DefaultConstruct(o), status = "running"
      PROVE  EveryJumpKept'
  BY <1>1 DEF DefaultConstruct, StackInv, EveryJumpKept
<1>2. ASSUME NEW o \in Objects, NEW f \in Entrypoints, NEW t \in Trampolines,
             Construct(o, f, t), status = "running"
      PROVE  EveryJumpKept'
  <2>1. /\ detour'[o] = [entry |-> f, saved |-> head[f], tramp |-> t]
        /\ \A p \in Objects \ {o} : detour'[p] = detour[p]
        /\ head'[f] = t
        /\ \A g \in Entrypoints \ {f} : head'[g] = head[g]
        /\ UNCHANGED <<spoiled, shared>>
    BY <1>0, <1>2 DEF Construct, Shape, TypeOK
  <2>2. /\ detour[o].saved = Null
        /\ \A p \in Objects : detour[p].tramp # Null => detour[p].entry \in Entrypoints
    BY <1>0, <1>2 DEF Construct, Shape, HoldersAlive, TypeOK
  <2>3. EveryJumpKept
    BY <1>2 DEF StackInv
  <2> QED BY <2>1, <2>2, <2>3 DEF EveryJumpKept
<1>3. ASSUME NEW f \in Entrypoints, NEW t \in Trampolines,
             ConstructThrows(f, t), status = "running"
      PROVE  EveryJumpKept'
  <2>1. /\ UNCHANGED <<detour, shared>>
        /\ spoiled \subseteq spoiled'
        /\ \A g \in Entrypoints \ spoiled' : head'[g] = head[g]
        /\ \A p \in Objects : detour[p].tramp # Null => detour[p].entry \in Entrypoints
    BY <1>0, <1>3 DEF ConstructThrows, Shape, TypeOK, HoldersAlive
  <2> QED BY <1>3, <2>1 DEF StackInv, EveryJumpKept
<1>4. ASSUME NEW o \in Objects, Destroy(o), status = "running", status' = "running"
      PROVE  EveryJumpKept'
  <2>1. /\ detour'[o] = Blank
        /\ \A p \in Objects \ {o} : detour'[p] = detour[p]
        /\ UNCHANGED <<spoiled, shared>>
    BY <1>0, <1>4 DEF Destroy, Shape, TypeOK
  <2>2. \A q \in Objects \ {o} :
          detour[q].tramp # Null /\ detour[q].entry \notin spoiled \cup shared =>
            \/ head'[detour[q].entry] = detour[q].tramp
            \/ \E p \in Objects \ {q, o} : /\ detour[p].entry = detour[q].entry
                                           /\ detour[p].saved = detour[q].tramp
    BY <1>4, ReleaseUncovers DEF Destroy
  <2> QED BY <2>1, <2>2 DEF EveryJumpKept, Blank
<1>5. ASSUME NEW d \in Objects, NEW s \in Objects, MoveConstruct(d, s), status = "running"
      PROVE  EveryJumpKept'
  <2>1. d # s /\ detour[d].tramp = Null /\ detour[d].saved = Null
    BY <1>0, <1>5 DEF MoveConstruct, Shape, HoldersAlive
  <2>2. /\ detour'[d] = detour[s]
        /\ detour'[s].entry = detour[s].entry
        /\ detour'[s].saved = Null
        /\ detour'[s].tramp = Null
        /\ \A p \in Objects \ {d, s} : detour'[p] = detour[p]
        /\ UNCHANGED <<head, spoiled, shared>>
    BY <1>0, <1>5, <2>1, MoveEffect DEF MoveConstruct, Shape
  <2>3. EveryJumpKept
    BY <1>5 DEF StackInv
  <2> QED BY <2>1, <2>2, <2>3 DEF EveryJumpKept
<1>6. ASSUME NEW d \in Objects, NEW s \in Objects, MoveAssign(d, s),
             status = "running", status' = "running"
      PROVE  EveryJumpKept'
  <2>1. /\ d # s
        /\ detour'[d] = detour[s]
        /\ detour'[s].saved = Null
        /\ detour'[s].tramp = Null
        /\ \A p \in Objects \ {d, s} : detour'[p] = detour[p]
        /\ UNCHANGED <<spoiled, shared>>
    BY <1>0, <1>6, MoveEffect DEF MoveAssign, Shape
  <2>2. \A q \in Objects \ {d} :
          detour[q].tramp # Null /\ detour[q].entry \notin spoiled \cup shared =>
            \/ head'[detour[q].entry] = detour[q].tramp
            \/ \E p \in Objects \ {q, d} : /\ detour[p].entry = detour[q].entry
                                           /\ detour[p].saved = detour[q].tramp
    BY <1>6, ReleaseUncovers DEF MoveAssign
  <2>3. detour[s].saved # Null \/ detour[s].tramp = Null
    BY <1>0 DEF Shape, HoldersAlive
  <2> QED BY <2>1, <2>2, <2>3 DEF EveryJumpKept
<1>7. ASSUME NEW f \in Entrypoints, NEW x \in Foreign, Overwrite(f, x), status = "running"
      PROVE  EveryJumpKept'
  <2>1. /\ UNCHANGED <<detour, spoiled>>
        /\ shared' = shared \cup {f}
        /\ \A g \in Entrypoints \ {f} : head'[g] = head[g]
        /\ \A p \in Objects : detour[p].tramp # Null => detour[p].entry \in Entrypoints
    BY <1>0, <1>7 DEF Overwrite, Shape, TypeOK, HoldersAlive
  <2> QED BY <1>7, <2>1 DEF StackInv, EveryJumpKept
<1>8. CASE UNCHANGED dvars
  <2>1. UNCHANGED <<head, detour, spoiled, shared, status>>
    BY <1>8 DEF dvars
  <2> QED BY <1>0, <2>1 DEF StackInv, EveryJumpKept
<1> QED BY <1>0, <1>1, <1>2, <1>3, <1>4, <1>5, <1>6, <1>7, <1>8 DEF Next, StackInv

(* Destroying or assigning over a detour changes the start of a function   *)
(* only where that start is its own jmp, although restoreEntrypoint() does *)
(* not look: by the nested order, where no other library writes.           *)
THEOREM ReleaseDivertsOnlyOwnHolds ==
  ASSUME {"nested", "no_self_move"} \subseteq ClientRules
  PROVE  Spec => ReleaseDivertsOnlyOwn
<1>1. ASSUME StackInv, Next, NEW o \in Objects, NEW f \in Entrypoints \ (spoiled \cup shared),
             Destroy(o) \/ (\E s \in Objects : MoveAssign(o, s)), head'[f] # head[f]
      PROVE  head[f] \in Holds(o)
  <2>1. status = "running" /\ Releasable(o) /\ RestoreEntrypoint(o)
    BY <1>1 DEF Next, Destroy, MoveAssign
  <2>2. detour[o].saved # Null /\ f = detour[o].entry
    BY <1>1, <2>1, RestoreEffect, RestoredHead DEF StackInv, Shape
  <2>3. head[f] = detour[o].tramp
    BY <1>1, <2>1, <2>2, ReleasedIsOnTop
  <2> QED BY <1>1, <2>2, <2>3 DEF StackInv, Shape, HoldersAlive, Holds
<1>2. Init => StackInv
  BY StackInit
<1>3. StackInv /\ [Next]_dvars => StackInv'
  BY StackStep
<1>4. StackInv /\ [Next]_dvars
        => [\A o \in Objects, f \in Entrypoints \ (spoiled \cup shared) :
              /\ Destroy(o) \/ (\E s \in Objects : MoveAssign(o, s))
              /\ head'[f] # head[f]
              => head[f] \in Holds(o)]_dvars
  BY <1>1
<1> QED BY <1>2, <1>3, <1>4, PTL DEF Spec, ReleaseDivertsOnlyOwn

-----------------------------------------------------------------------------
(* Under "nested" and "no_self_move" the detours of a function implement   *)
(* InterceptPoint.                                                         *)

(* Three kinds of step seen by InterceptPoint: nothing happens to where    *)
(* functions lead and to their trampolines, one function is led elsewhere, *)
(* a trampoline loses its owner.                                           *)
LEMMA StutterMaps ==
  ASSUME \A q \in Entrypoints : Seen(q)' = Seen(q) /\ Owned(q)' = Owned(q)
  PROVE  UNCHANGED Point!ivars
  BY DEF Point!ivars

LEMMA SwitchMaps ==
  ASSUME NEW f \in Entrypoints, NEW x \in Owned(f) \cup Outside,
         \A q \in Entrypoints : /\ Owned(q)' = Owned(q)
                                /\ Seen(q)' = IF q = f THEN x ELSE Seen(q)
  PROVE  Point!Next
<1>1. /\ [q \in Entrypoints |-> Owned(q)'] = [q \in Entrypoints |-> Owned(q)]
      /\ [q \in Entrypoints |-> Seen(q)'] = [[q \in Entrypoints |-> Seen(q)] EXCEPT ![f] = x]
  OBVIOUS
<1>2. Point!Switch(f)
  BY <1>1 DEF Point!Switch
<1> QED BY <1>2 DEF Point!Next

LEMMA DetachMaps ==
  ASSUME NEW f \in Entrypoints, NEW t \in Trampolines, NEW x,
         \A q \in Entrypoints : Owned(q)' = IF q = f THEN Owned(q) \ {t} ELSE Owned(q),
         \A q \in Entrypoints : Seen(q)' = IF q = f THEN x ELSE Seen(q),
         IF Seen(f) = t THEN x \in (Owned(f) \ {t}) \cup Outside ELSE x = Seen(f)
  PROVE  Point!Next
<1>1. /\ [q \in Entrypoints |-> Owned(q)'] = [[q \in Entrypoints |-> Owned(q)] EXCEPT ![f] = @ \ {t}]
      /\ [q \in Entrypoints |-> Seen(q)'] = [[q \in Entrypoints |-> Seen(q)] EXCEPT ![f] = x]
  OBVIOUS
<1>2. Seen(f) # t => [q \in Entrypoints |-> Seen(q)'] = [q \in Entrypoints |-> Seen(q)]
  OBVIOUS
<1>3. Point!Detach(f, t)
  BY <1>1, <1>2 DEF Point!Detach
<1> QED BY <1>3 DEF Point!Next

(* The trampolines of f that an object other than d owns: all but that of  *)
(* d, which nobody else has.                                               *)
OwnedBesides(d, f) == UNION {Holds(o) : o \in {p \in Objects \ {d} : detour[p].entry = f}}

LEMMA OwnedWithout ==
  ASSUME Shape, NEW d \in Objects, NEW f \in Entrypoints
  PROVE  OwnedBesides(d, f) = IF detour[d].entry = f THEN Owned(f) \ {detour[d].tramp} ELSE Owned(f)
<1>1. \A p \in Objects : Holds(p) = IF detour[p].tramp = Null THEN {} ELSE {detour[p].tramp}
  BY DEF Holds
<1>2. \A p \in Objects \ {d} : detour[d].tramp \notin Holds(p)
  BY <1>1 DEF Shape, OneOwnerPerTrampoline
<1> QED BY <1>1, <1>2 DEF Owned, OwnedBesides

(* A release that goes through is one step of its function: the trampoline *)
(* loses its owner, and the function is led elsewhere only if it led there. *)
LEMMA ReleaseMaps ==
  ASSUME {"nested", "no_self_move"} \subseteq ClientRules, JumpInv, StackInv,
         NEW d \in Objects, Releasable(d), RestoreEntrypoint(d),
         status = "running", status' = "running", UNCHANGED <<spoiled, shared>>,
         \A q \in Entrypoints : Owned(q)' = OwnedBesides(d, q)
  PROVE  [Point!Next]_(Point!ivars)
<1>0. Shape
  BY DEF JumpInv
<1>1. head' = Restored(d)
  BY RestoreEffect
<1>2. CASE detour[d].saved = Null
  <2>1. detour[d].tramp = Null /\ head' = head
    BY <1>0, <1>1, <1>2 DEF Shape, HoldersAlive, Restored
  <2>2. \A q \in Entrypoints : Null \notin Owned(q)
    BY DEF Owned, Holds
  <2>3. \A q \in Entrypoints : Owned(q)' = Owned(q)
    BY <1>0, <2>1, <2>2, OwnedWithout
  <2> QED BY <2>1, <2>3, StutterMaps DEF Seen
<1>3. CASE detour[d].saved # Null
  <2>1. PICK f \in Entrypoints, t \in Trampolines : f = detour[d].entry /\ t = detour[d].tramp
    BY <1>0, <1>3 DEF Shape, TypeOK, HoldersAlive
  <2>2. \A q \in Entrypoints : Owned(q)' = IF q = f THEN Owned(q) \ {t} ELSE Owned(q)
    BY <1>0, <2>1, OwnedWithout
  <2>3. \A q \in Entrypoints : head'[q] = IF q = f THEN detour[d].saved ELSE head[q]
    BY <1>0, <1>1, <1>3, <2>1 DEF Restored, Shape, TypeOK
  <2>4. CASE f \in spoiled \cup shared
    <3>1. \A q \in Entrypoints : Seen(q)' = Seen(q)
      BY <2>3, <2>4 DEF Seen
    <3>2. Seen(f) # t
      BY <2>4, DetourAssumption DEF Seen
    <3>3. PICK x : x = Seen(f)
      OBVIOUS
    <3> QED BY <2>2, <3>1, <3>2, <3>3, DetachMaps
  <2>5. CASE f \notin spoiled \cup shared
    <3>1. PICK x : x = detour[d].saved
      OBVIOUS
    <3>2. \A q \in Entrypoints : Seen(q)' = IF q = f THEN x ELSE Seen(q)
      BY <2>3, <2>5, <3>1 DEF Seen
    <3>3. Seen(f) = t
      BY <1>3, <2>1, <2>5, ReleasedIsOnTop DEF Seen
    <3>4. x \in OwnedBesides(d, f) \cup Outside
      BY <1>3, <2>1, <2>5, <3>1, DetourAssumption DEF JumpInv, SavedOutlive, OwnedBesides, Holds
    <3>5. x \in (Owned(f) \ {t}) \cup Outside
      BY <1>0, <2>1, <3>4, OwnedWithout
    <3> QED BY <2>2, <3>2, <3>3, <3>5, DetachMaps
  <2> QED BY <2>4, <2>5
<1> QED BY <1>2, <1>3

(* One that ends the process leaves the function alone or leads it to what *)
(* outlives the object.                                                    *)
LEMMA InterruptedMaps ==
  ASSUME JumpInv, NEW d \in Objects, RestoreEntrypoint(d), status = "running",
         UNCHANGED <<detour, spoiled, shared>>
  PROVE  [Point!Next]_(Point!ivars)
<1>0. Shape
  BY DEF JumpInv
<1>1. \A q \in Entrypoints : Owned(q)' = Owned(q)
  BY DEF Owned, Holds
<1>2. CASE head' = head
  BY <1>1, <1>2, StutterMaps DEF Seen
<1>3. CASE detour[d].saved # Null /\ head' = [head EXCEPT ![detour[d].entry] = detour[d].saved]
  <2>0. PICK f \in Entrypoints : f = detour[d].entry
    BY <1>0, <1>3 DEF Shape, TypeOK, HoldersAlive
  <2>1. PICK x : x = detour[d].saved
    OBVIOUS
  <2>2. \A q \in Entrypoints : head'[q] = IF q = f THEN x ELSE head[q]
    BY <1>0, <1>3, <2>0, <2>1 DEF Shape, TypeOK
  <2>3. CASE f \in spoiled \cup shared
    <3>1. \A q \in Entrypoints : Seen(q)' = Seen(q)
      BY <2>2, <2>3 DEF Seen
    <3> QED BY <1>1, <3>1, StutterMaps
  <2>4. CASE f \notin spoiled \cup shared
    <3>1. \A q \in Entrypoints : Seen(q)' = IF q = f THEN x ELSE Seen(q)
      BY <2>2, <2>4 DEF Seen
    <3>2. x \in Owned(f) \cup Outside
      BY <1>3, <2>0, <2>1, <2>4, DetourAssumption DEF JumpInv, SavedOutlive, Owned, Holds
    <3> QED BY <1>1, <3>1, <3>2, SwitchMaps
  <2> QED BY <2>3, <2>4
<1> QED BY <1>2, <1>3, RestoreEffect

LEMMA PointInit == Init => Point!Init
<1> SUFFICES ASSUME Init PROVE Point!Init
  OBVIOUS
<1>1. \A q \in Entrypoints : Owned(q) = {} /\ Seen(q) = Pristine
  BY DEF Init, Owned, Holds, Blank, Seen
<1> QED BY <1>1 DEF Point!Init

LEMMA PointStep ==
  ASSUME {"nested", "no_self_move"} \subseteq ClientRules, JumpInv, StackInv, [Next]_dvars
  PROVE  [Point!Next]_(Point!ivars)
<1>0. Shape
  BY DEF JumpInv
<1>1. ASSUME NEW o \in Objects, DefaultConstruct(o)
      PROVE  UNCHANGED Point!ivars
  BY <1>1, StutterMaps DEF DefaultConstruct, Seen, Owned, Holds
<1>2. ASSUME NEW o \in Objects, NEW f \in Entrypoints, NEW t \in Trampolines, Construct(o, f, t)
      PROVE  Point!Next
  <2>1. /\ detour'[o] = [entry |-> f, saved |-> head[f], tramp |-> t]
        /\ \A p \in Objects \ {o} : detour'[p] = detour[p]
        /\ \A q \in Entrypoints : head'[q] = IF q = f THEN t ELSE head[q]
        /\ UNCHANGED <<spoiled, shared>>
    BY <1>0, <1>2 DEF Construct, Shape, TypeOK
  <2>2. detour[o].tramp = Null /\ t # Null
    BY <1>0, <1>2, DetourAssumption DEF Construct, Shape, HoldersAlive
  <2>3. \A q \in Entrypoints : Owned(q)' = IF q = f THEN Owned(q) \cup {t} ELSE Owned(q)
    BY <2>1, <2>2 DEF Owned, Holds
  <2>4. [q \in Entrypoints |-> Owned(q)'] = [[q \in Entrypoints |-> Owned(q)] EXCEPT ![f] = @ \cup {t}]
    BY <2>3
  <2>5. \/ [q \in Entrypoints |-> Seen(q)'] = [q \in Entrypoints |-> Seen(q)]
        \/ [q \in Entrypoints |-> Seen(q)'] = [[q \in Entrypoints |-> Seen(q)] EXCEPT ![f] = t]
    BY <2>1 DEF Seen
  <2>6. Point!Attach(f, t)
    BY <2>4, <2>5 DEF Point!Attach
  <2> QED BY <2>6 DEF Point!Next
<1>3. ASSUME NEW f \in Entrypoints, NEW t \in Trampolines, ConstructThrows(f, t)
      PROVE  [Point!Next]_(Point!ivars)
  <2>1. \A q \in Entrypoints : Owned(q)' = Owned(q)
    BY <1>3 DEF ConstructThrows, Owned, Holds
  <2>2. CASE UNCHANGED <<head, spoiled>>
    BY <1>3, <2>1, <2>2, StutterMaps DEF ConstructThrows, Seen
  <2>3. CASE head' = [head EXCEPT ![f] = t] /\ spoiled' = spoiled \cup {f}
    <3>1. \A q \in Entrypoints : Seen(q)' = IF q = f THEN Pristine ELSE Seen(q)
      BY <1>0, <1>3, <2>3 DEF ConstructThrows, Seen, Shape, TypeOK
    <3> QED BY <2>1, <3>1, SwitchMaps DEF Outside
  <2> QED BY <1>3, <2>2, <2>3 DEF ConstructThrows
<1>4. ASSUME NEW o \in Objects, Destroy(o), status = "running"
      PROVE  [Point!Next]_(Point!ivars)
  <2>1. Releasable(o) /\ RestoreEntrypoint(o) /\ UNCHANGED <<spoiled, shared>>
    BY <1>4 DEF Destroy
  <2>2. CASE status' = "running"
    <3>1. detour'[o] = Blank /\ \A p \in Objects \ {o} : detour'[p] = detour[p]
      BY <1>0, <1>4, <2>2 DEF Destroy, Shape, TypeOK
    <3>2. \A q \in Entrypoints : Owned(q)' = OwnedBesides(o, q)
      BY <3>1 DEF Owned, OwnedBesides, Holds, Blank
    <3> QED BY <1>4, <2>1, <2>2, <3>2, ReleaseMaps
  <2>3. CASE status' # "running"
    BY <1>4, <2>1, <2>3, InterruptedMaps DEF Destroy
  <2> QED BY <2>2, <2>3
<1>5. ASSUME NEW d \in Objects, NEW s \in Objects, MoveConstruct(d, s)
      PROVE  UNCHANGED Point!ivars
  <2>1. d # s /\ detour[d].tramp = Null
    BY <1>0, <1>5 DEF MoveConstruct, Shape, HoldersAlive
  <2>2. /\ detour'[d] = detour[s]
        /\ detour'[s].tramp = Null
        /\ \A p \in Objects \ {d, s} : detour'[p] = detour[p]
        /\ UNCHANGED <<head, spoiled, shared>>
    BY <1>0, <1>5, <2>1, MoveEffect DEF MoveConstruct, Shape
  <2>3. \A q \in Entrypoints : Owned(q)' = Owned(q)
    BY <2>1, <2>2 DEF Owned, Holds
  <2> QED BY <2>2, <2>3, StutterMaps DEF Seen
<1>6. ASSUME NEW d \in Objects, NEW s \in Objects, MoveAssign(d, s), status = "running"
      PROVE  [Point!Next]_(Point!ivars)
  <2>1. d # s /\ Releasable(d) /\ RestoreEntrypoint(d) /\ UNCHANGED <<spoiled, shared>>
    BY <1>6 DEF MoveAssign
  <2>2. CASE status' = "running"
    <3>1. /\ detour'[d] = detour[s]
          /\ detour'[s].tramp = Null
          /\ \A p \in Objects \ {d, s} : detour'[p] = detour[p]
      BY <1>0, <1>6, <2>1, <2>2, MoveEffect DEF MoveAssign, Shape
    <3>2. \A q \in Entrypoints : Owned(q)' = OwnedBesides(d, q)
      BY <2>1, <3>1 DEF Owned, OwnedBesides, Holds
    <3> QED BY <1>6, <2>1, <2>2, <3>2, ReleaseMaps
  <2>3. CASE status' # "running"
    <3>1. UNCHANGED detour
      BY <1>6, <2>1, <2>3, RestoreEffect DEF MoveAssign
    <3> QED BY <1>6, <2>1, <3>1, InterruptedMaps
  <2> QED BY <2>2, <2>3
<1>7. ASSUME NEW f \in Entrypoints, NEW x \in Foreign, Overwrite(f, x)
      PROVE  Point!Next
  <2>1. \A q \in Entrypoints : Owned(q)' = Owned(q)
    BY <1>7 DEF Overwrite, Owned, Holds
  <2>2. \A q \in Entrypoints : Seen(q)' = IF q = f THEN Pristine ELSE Seen(q)
    BY <1>0, <1>7 DEF Overwrite, Seen, Shape, TypeOK
  <2> QED BY <2>1, <2>2, SwitchMaps DEF Outside
<1>8. CASE UNCHANGED dvars
  BY <1>8, StutterMaps DEF dvars, Seen, Owned, Holds
<1> QED BY <1>1, <1>2, <1>3, <1>4, <1>5, <1>6, <1>7, <1>8 DEF Next

(* The detours of a function keep what InterceptPoint promises, as the     *)
(* hooks of a slot do: each call is one step of the point or is not seen   *)
(* by it, whatever fails and for any number of objects, moves and writes   *)
(* of other libraries, when releases are nested and no detour is assigned  *)
(* to itself.                                                              *)
THEOREM DetoursImplementInterceptPoint ==
  ASSUME {"nested", "no_self_move"} \subseteq ClientRules
  PROVE  Spec => IsInterceptPoint
<1>1. Init => JumpInv /\ StackInv /\ Point!Init
  BY JumpInit, StackInit, PointInit
<1>2. JumpInv /\ StackInv /\ [Next]_dvars => (JumpInv /\ StackInv)'
  BY JumpStep, StackStep
<1>3. JumpInv /\ StackInv /\ [Next]_dvars => [Point!Next]_(Point!ivars)
  BY PointStep
<1> QED BY <1>1, <1>2, <1>3, PTL DEF Spec, IsInterceptPoint, Point!Spec
=============================================================================
