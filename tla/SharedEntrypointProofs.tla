----------------------- MODULE SharedEntrypointProofs -----------------------
(***************************************************************************)
(* Proofs about PrologHook and BinaryPatch objects on one function, for    *)
(* any number of hooks, patches and callers.  Each theorem asks for the    *)
(* promises of the client it needs, and for no other.                      *)
(***************************************************************************)
EXTENDS SharedEntrypoint, TLAPS

Stages == {"none", "jumping", "live", "dying"}
Places == {"out", "head", "hook", "rest", "wild"}
Saves  == [entrypoint : BOOLEAN, original : Code \cup Hooks \cup {NoBytes}]

EntrypointTypeOK ==
  /\ head \in Code \cup Hooks
  /\ shape \in Shapes
  /\ stage \in [Hooks -> Stages]
  /\ saved \in [Hooks -> Code \cup Hooks \cup {Null}]
  /\ at \in [Callers -> Places]
  /\ via \in [Callers -> Hooks \cup {Null}]
  /\ ran \in [Callers -> 0..2]
  /\ alive \subseteq PatchObjects
  /\ patch \in [PatchObjects -> Saves]
  /\ status \in {"running", "terminated", "misused", "faulted"}

(* A hook has displaced instructions exactly while it exists, a caller in  *)
(* a hook procedure came through a hook, and a patch that has an           *)
(* entrypoint saved bytes of it.                                           *)
Shape ==
  /\ EntrypointTypeOK
  /\ \A h \in Hooks : stage[h] = "none" <=> saved[h] = Null
  /\ \A c \in Callers : at[c] = "hook" => via[c] \in Hooks
  /\ \A o \in PatchObjects : patch[o].entrypoint => patch[o].original # NoBytes

(* Needs "nested": no other hook displaced the jmp of one that is being    *)
(* made or destroyed.                                                      *)
BusyUncovered ==
  \A h \in Hooks : stage[h] \in {"jumping", "dying"} => \A g \in Hooks : saved[g] # h

(* Needs "suspended": hooks come and go only while no call is on its way.  *)
CallsMeetNoChange ==
  (\E c \in Callers : at[c] # "out") => \A h \in Hooks : stage[h] \in {"none", "live"}

(* Needs "jump_entries": what was displaced is a jmp the thunk can follow. *)
DisplacedFollowed == \A h \in Hooks : stage[h] # "none" => FollowsJmp(saved[h])

(* A call that has not reached the bottom of the stack has run nothing.    *)
NothingRunYet ==
  \A c \in Callers : /\ at[c] \in {"head", "hook"} => ran[c] = 0
                     /\ at[c] = "rest" => ran[c] = 1

(* The inductive invariants.                                               *)
LiveInv == Shape /\ BusyUncovered /\ JumpsLeadToLive
CallInv == /\ LiveInv
           /\ CallsMeetNoChange
           /\ DisplacedFollowed
           /\ \A c \in Callers : at[c] = "hook" => stage[via[c]] = "live"
           /\ NoWildCall
RunInv  == Shape /\ DisplacedFollowed /\ NothingRunYet

-----------------------------------------------------------------------------
(* What the patches do to the function.                                    *)

(* disable() of a patch that isEnabled() holds for writes the bytes that   *)
(* are there, or ends the process.                                         *)
LEMMA DisableWritesSame ==
  ASSUME NEW o \in PatchObjects, Patches!IsEnabled(o), Patches!Disable(o),
         status = "running"
  PROVE  /\ head' = head
         /\ status' \in {"running", "terminated", "misused"}
         /\ patch[o].original # NoBytes => status' # "misused"
  BY DEF Patches!IsEnabled, Patches!Disable

(* No operation on patches leads the function to a hook it did not lead to *)
(* already, and every patch with an entrypoint keeps saved bytes.          *)
LEMMA PatchesStep ==
  ASSUME Shape, Patches!Next
  PROVE  /\ head' \in {head} \cup Code
         /\ alive' \subseteq PatchObjects
         /\ patch' \in [PatchObjects -> Saves]
         /\ status' \in {"running", "terminated", "misused", "faulted"}
         /\ \A o \in PatchObjects : patch'[o].entrypoint => patch'[o].original # NoBytes
<1> USE DEF Shape, EntrypointTypeOK, Saves
<1>0. status = "running"
  BY DEF Patches!Next
<1>1. ASSUME NEW o \in PatchObjects, Patches!DefaultConstruct(o)
      PROVE  UNCHANGED <<head, patch, status>> /\ alive' \subseteq PatchObjects
  BY <1>1 DEF Patches!DefaultConstruct
<1>2. ASSUME NEW o \in PatchObjects, NEW c \in Code \ {Pristine}, Patches!Construct(o, c)
      PROVE  /\ head' \in Code
             /\ alive' \subseteq PatchObjects
             /\ UNCHANGED status
             /\ patch' \in [PatchObjects -> Saves]
             /\ \A q \in PatchObjects : patch'[q].entrypoint => patch'[q].original # NoBytes
  <2>1. /\ patch' \in [PatchObjects -> Saves]
        /\ patch'[o] = [entrypoint |-> TRUE, original |-> head]
        /\ \A q \in PatchObjects \ {o} : patch'[q] = patch[q]
    BY <1>2 DEF Patches!Construct
  <2>2. head # NoBytes
    BY BytesAssumption
  <2> QED BY <1>2, <2>1, <2>2 DEF Patches!Construct
<1>3. ASSUME NEW c \in Code \ {Pristine}, Patches!ConstructThrows(c)
      PROVE  head' \in {head} \cup Code /\ UNCHANGED <<alive, patch, status>>
  BY <1>3 DEF Patches!ConstructThrows
<1>4. ASSUME NEW o \in PatchObjects, Patches!Destroy(o)
      PROVE  /\ head' = head
             /\ alive' \subseteq PatchObjects
             /\ status' \in {"running", "terminated", "misused"}
             /\ patch' \in [PatchObjects -> Saves]
             /\ \A q \in PatchObjects : patch'[q].entrypoint => patch'[q].original # NoBytes
  <2>1. head' = head /\ status' \in {"running", "terminated", "misused"}
    BY <1>0, <1>4, DisableWritesSame DEF Patches!Destroy, Patches!DisablesOnDestroy
  <2>2. patch' = patch \/ patch' = [patch EXCEPT ![o] = Patches!Blank]
    BY <1>4 DEF Patches!Destroy
  <2>3. Patches!Blank \in Saves /\ ~Patches!Blank.entrypoint
    BY DEF Patches!Blank
  <2>4. alive' \subseteq PatchObjects
    BY <1>4 DEF Patches!Destroy
  <2> QED BY <2>1, <2>2, <2>3, <2>4
<1>5. ASSUME NEW d \in PatchObjects, NEW o \in PatchObjects, Patches!MoveConstruct(d, o)
      PROVE  /\ UNCHANGED <<head, status>>
             /\ alive' \subseteq PatchObjects
             /\ patch' \in [PatchObjects -> Saves]
             /\ \A q \in PatchObjects : patch'[q].entrypoint => patch'[q].original # NoBytes
  <2>1. Patches!Blank \in Saves /\ ~Patches!Blank.entrypoint
    BY DEF Patches!Blank
  <2>2. d # o
    BY <1>5 DEF Patches!MoveConstruct
  <2>3. patch' = [patch EXCEPT ![d] = patch[o], ![o] = Patches!Blank]
    BY <1>5 DEF Patches!MoveConstruct
  <2>4. UNCHANGED <<head, status>> /\ alive' \subseteq PatchObjects
    BY <1>5 DEF Patches!MoveConstruct
  <2> QED BY <2>1, <2>2, <2>3, <2>4
<1>6. ASSUME NEW d \in PatchObjects, NEW o \in PatchObjects, Patches!MoveAssign(d, o)
      PROVE  /\ head' = head
             /\ alive' \subseteq PatchObjects
             /\ status' \in {"running", "terminated", "misused", "faulted"}
             /\ patch' \in [PatchObjects -> Saves]
             /\ \A q \in PatchObjects : patch'[q].entrypoint => patch'[q].original # NoBytes
  <2>1. head' = head /\ status' \in {"running", "terminated", "misused", "faulted"}
    BY <1>0, <1>6, DisableWritesSame DEF Patches!MoveAssign
  <2>2. UNCHANGED alive
    BY <1>6 DEF Patches!MoveAssign
  <2>3. \/ patch' = patch
        \/ d = o /\ patch' = [patch EXCEPT ![d].entrypoint = FALSE]
        \/ d # o /\ patch' = [patch EXCEPT ![d] = patch[o], ![o] = Patches!Blank]
    BY <1>6 DEF Patches!MoveAssign, Patches!Assigned
  <2>4. Patches!Blank \in Saves /\ ~Patches!Blank.entrypoint
    BY DEF Patches!Blank
  <2>5. CASE patch' = patch
    BY <2>1, <2>2, <2>5
  <2>6. CASE d = o /\ patch' = [patch EXCEPT ![d].entrypoint = FALSE]
    BY <2>1, <2>2, <2>6
  <2>7. CASE d # o /\ patch' = [patch EXCEPT ![d] = patch[o], ![o] = Patches!Blank]
    BY <2>1, <2>2, <2>4, <2>7
  <2> QED BY <2>3, <2>5, <2>6, <2>7
<1> QED BY <1>0, <1>1, <1>2, <1>3, <1>4, <1>5, <1>6 DEF Patches!Next

-----------------------------------------------------------------------------
(* The shape of the state needs no promise of the client.                  *)

LEMMA ShapeInit == EntrypointInit => Shape
<1> SUFFICES ASSUME EntrypointInit PROVE Shape
  OBVIOUS
<1>1. Patches!Blank \in Saves /\ ~Patches!Blank.entrypoint
  BY DEF Patches!Blank, Saves
<1>2. EntrypointTypeOK
  BY <1>1, PrologAssumption DEF EntrypointInit, Init, Patches!Init, EntrypointTypeOK, Stages, Places
<1> QED BY <1>1, <1>2 DEF EntrypointInit, Init, Patches!Init, Shape

LEMMA ShapeStep ==
  ASSUME Shape, [EntrypointNext]_evars
  PROVE  Shape'
<1> USE DEF Shape, EntrypointTypeOK, Stages, Places, objects, calls
<1>1. ASSUME NEW h \in Hooks, Construct(h), UNCHANGED <<alive, patch, status>>
      PROVE  Shape'
  BY <1>1, PrologAssumption DEF Construct
<1>2. ASSUME NEW h \in Hooks, BuildOriginalEntryPointThunk(h), UNCHANGED <<alive, patch, status>>
      PROVE  Shape'
  BY <1>2 DEF BuildOriginalEntryPointThunk
<1>3. ASSUME NEW h \in Hooks, BuildFails(h), UNCHANGED <<alive, patch, status>>
      PROVE  Shape'
  BY <1>3 DEF BuildFails
<1>4. ASSUME NEW h \in Hooks, Destroy(h), UNCHANGED <<alive, patch, status>>
      PROVE  Shape'
  BY <1>4 DEF Destroy
<1>5. ASSUME NEW h \in Hooks, Restore(h), UNCHANGED <<alive, patch, status>>
      PROVE  Shape'
  BY <1>5 DEF Restore, Restored
<1>6. ASSUME NEW c \in Callers, Call(c) \/ CallStep(c),
             UNCHANGED <<head, shape, objects, alive, patch, status>>
      PROVE  Shape'
  <2>1. /\ at' \in [Callers -> Places]
        /\ via' \in [Callers -> Hooks \cup {Null}]
        /\ ran' \in [Callers -> 0..2]
        /\ \A d \in Callers : at'[d] = "hook" => via'[d] \in Hooks
    <3>1. CASE Call(c)
      BY <3>1 DEF Call, GoesTo
    <3>2. CASE ExecHead(c)
      BY <3>2 DEF ExecHead, GoesTo, Counts
    <3>3. CASE HookReturns(c)
      BY <3>3 DEF HookReturns, GoesTo, Counts
    <3>4. CASE InvokeOriginal(c)
      BY <3>4 DEF InvokeOriginal, GoesTo, Counts, Exit
    <3>5. CASE Return(c)
      BY <3>5 DEF Return, GoesTo, Counts
    <3> QED BY <1>6, <3>1, <3>2, <3>3, <3>4, <3>5 DEF CallStep
  <2> QED BY <1>6, <2>1
<1>7. ASSUME Patches!Next, UNCHANGED <<shape, objects, calls>>
      PROVE  Shape'
  BY <1>7, PatchesStep
<1>8. CASE UNCHANGED evars
  BY <1>8 DEF evars, kvars
<1> QED BY <1>1, <1>2, <1>3, <1>4, <1>5, <1>6, <1>7, <1>8 DEF EntrypointNext, Next

(* Every reachable state is well typed, whatever the client does.          *)
THEOREM EntrypointTypeCorrect == Spec => []EntrypointTypeOK
<1>1. EntrypointInit => Shape
  BY ShapeInit
<1>2. Shape /\ [EntrypointNext]_evars => Shape'
  BY ShapeStep
<1>3. Shape => EntrypointTypeOK
  BY DEF Shape
<1> QED BY <1>1, <1>2, <1>3, PTL DEF Spec

-----------------------------------------------------------------------------
(* Under "nested" nothing leads to a hook that is gone.                    *)

LEMMA LiveInit == EntrypointInit => LiveInv
  BY ShapeInit, PrologAssumption
     DEF EntrypointInit, Init, LiveInv, BusyUncovered, JumpsLeadToLive

LEMMA LiveStep ==
  ASSUME "nested" \in ClientRules, LiveInv, [EntrypointNext]_evars
  PROVE  LiveInv'
<1> USE DEF LiveInv, BusyUncovered, JumpsLeadToLive
<1>0. Shape /\ Shape'
  BY ShapeStep
<1>1. ASSUME NEW h \in Hooks, Construct(h)
      PROVE  (BusyUncovered /\ JumpsLeadToLive)'
  <2>1. /\ stage[h] = "none" /\ stage'[h] = "jumping"
        /\ \A g \in Hooks \ {h} : /\ stage'[g] = stage[g]
                                  /\ saved'[g] = saved[g]
                                  /\ stage[g] \notin {"jumping", "dying"}
        /\ head' = h /\ saved'[h] = head
    BY <1>0, <1>1 DEF Construct, Quiet, Shape, EntrypointTypeOK
  <2>2. head # h /\ \A g \in Hooks : saved[g] # h
    BY <2>1
  <2> QED BY <2>1, <2>2
<1>2. ASSUME NEW h \in Hooks, BuildOriginalEntryPointThunk(h) \/ BuildFails(h)
      PROVE  (BusyUncovered /\ JumpsLeadToLive)'
  BY <1>0, <1>2 DEF BuildOriginalEntryPointThunk, BuildFails, Shape, EntrypointTypeOK
<1>3. ASSUME NEW h \in Hooks, Destroy(h)
      PROVE  (BusyUncovered /\ JumpsLeadToLive)'
  BY <1>0, <1>3 DEF Destroy, Shape, EntrypointTypeOK
<1>4. ASSUME NEW h \in Hooks, Restore(h)
      PROVE  (BusyUncovered /\ JumpsLeadToLive)'
  <2>1. /\ stage[h] = "dying" /\ stage'[h] = "none"
        /\ \A g \in Hooks \ {h} : stage'[g] = stage[g] /\ saved'[g] = saved[g]
        /\ head' = saved[h] /\ saved'[h] = Null
    BY <1>0, <1>4 DEF Restore, Restored, Shape, EntrypointTypeOK
  <2>2. \A g \in Hooks : saved[g] # h
    BY <2>1
  <2> QED BY <2>1, <2>2, PrologAssumption
<1>5. ASSUME head' \in {head} \cup Code, UNCHANGED <<stage, saved>>
      PROVE  (BusyUncovered /\ JumpsLeadToLive)'
  BY <1>5, PrologAssumption
<1>6. ASSUME Patches!Next, UNCHANGED <<shape, objects, calls>>
      PROVE  (BusyUncovered /\ JumpsLeadToLive)'
  BY <1>0, <1>5, <1>6, PatchesStep DEF objects
<1>7. ASSUME UNCHANGED <<head, stage, saved>>
      PROVE  (BusyUncovered /\ JumpsLeadToLive)'
  BY <1>5, <1>7
<1> QED BY <1>0, <1>1, <1>2, <1>3, <1>4, <1>6, <1>7
        DEF EntrypointNext, Next, evars, kvars, objects

(* When hooks are destroyed in nested order, neither the function nor the  *)
(* thunk of a live hook leads to a hook that is gone, whatever patches     *)
(* were put between them and released, and although restoreEntrypoint()    *)
(* does not look at what it overwrites.                                    *)
THEOREM JumpsLeadToLiveAlways ==
  ASSUME "nested" \in ClientRules PROVE Spec => []JumpsLeadToLive
<1>1. EntrypointInit => LiveInv
  BY LiveInit
<1>2. LiveInv /\ [EntrypointNext]_evars => LiveInv'
  BY LiveStep
<1>3. LiveInv => JumpsLeadToLive
  BY DEF LiveInv
<1> QED BY <1>1, <1>2, <1>3, PTL DEF Spec

-----------------------------------------------------------------------------
(* Under "jump_entries" the original runs as a whole.                      *)

LEMMA RunInit == EntrypointInit => RunInv
  BY ShapeInit DEF EntrypointInit, Init, RunInv, DisplacedFollowed, NothingRunYet

(* What a hook displaces stays what its thunk can follow.                  *)
LEMMA DisplacedStep ==
  ASSUME "jump_entries" \in ClientRules, Shape, DisplacedFollowed, [EntrypointNext]_evars
  PROVE  DisplacedFollowed'
<1> USE DEF DisplacedFollowed, FollowsJmp, Shape, EntrypointTypeOK, objects
<1>1. ASSUME NEW h \in Hooks, Construct(h)
      PROVE  DisplacedFollowed'
  BY <1>1 DEF Construct
<1>2. ASSUME NEW h \in Hooks, BuildOriginalEntryPointThunk(h) \/ BuildFails(h) \/ Destroy(h)
      PROVE  DisplacedFollowed'
  BY <1>2 DEF BuildOriginalEntryPointThunk, BuildFails, Destroy
<1>3. ASSUME NEW h \in Hooks, Restore(h)
      PROVE  DisplacedFollowed'
  BY <1>3 DEF Restore
<1>4. ASSUME UNCHANGED <<shape, stage, saved>>
      PROVE  DisplacedFollowed'
  BY <1>4
<1> QED BY <1>1, <1>2, <1>3, <1>4 DEF EntrypointNext, Next, evars, kvars

LEMMA RunStep ==
  ASSUME "jump_entries" \in ClientRules, RunInv, [EntrypointNext]_evars
  PROVE  RunInv'
<1> USE DEF RunInv
<1>0. Shape /\ Shape' /\ DisplacedFollowed'
  BY ShapeStep, DisplacedStep
<1>1. ASSUME NEW c \in Callers, Call(c) \/ CallStep(c)
      PROVE  NothingRunYet'
  <2> USE DEF NothingRunYet, GoesTo, Counts
  <2>1. /\ at \in [Callers -> Places] /\ ran \in [Callers -> 0..2]
        /\ \A h \in Hooks : saved[h] \in Code \cup Hooks \cup {Null}
    BY <1>0 DEF Shape, EntrypointTypeOK
  <2>2. CASE Call(c)
    BY <2>1, <2>2 DEF Call
  <2>3. CASE ExecHead(c)
    BY <2>1, <2>3 DEF ExecHead
  <2>4. CASE HookReturns(c)
    BY <2>1, <2>4 DEF HookReturns
  <2>5. CASE InvokeOriginal(c)
    <3>1. at[c] = "hook" /\ via[c] \in Hooks /\ ran[c] = 0
      BY <1>0, <2>5 DEF InvokeOriginal, Shape
    <3>2. CASE stage[via[c]] # "live"
      BY <2>1, <2>5, <3>1, <3>2 DEF InvokeOriginal
    <3>3. CASE stage[via[c]] = "live" /\ saved[via[c]] \in Hooks
      <4>1. at'[c] = "hook" /\ ran'[c] = 0
        BY <2>1, <2>5, <3>1, <3>3, PrologAssumption DEF InvokeOriginal, Exit, Done
      <4> QED BY <2>1, <2>5, <4>1 DEF InvokeOriginal
    <3>4. CASE stage[via[c]] = "live" /\ saved[via[c]] = Pristine
      <4>1. FollowsJmp(Pristine)
        BY <3>1, <3>4 DEF DisplacedFollowed
      <4>2. at'[c] = "rest" /\ ran'[c] = 1
        BY <2>1, <2>5, <3>1, <3>4, <4>1, PrologAssumption
           DEF InvokeOriginal, Exit, Done, FollowsJmp
      <4> QED BY <2>1, <2>5, <4>2 DEF InvokeOriginal
    <3> QED BY <3>1, <3>2, <3>3, <3>4 DEF DisplacedFollowed, FollowsJmp
  <2>6. CASE Return(c)
    BY <2>1, <2>6 DEF Return
  <2> QED BY <1>1, <2>2, <2>3, <2>4, <2>5, <2>6 DEF CallStep
<1>2. ASSUME UNCHANGED calls
      PROVE  NothingRunYet'
  BY <1>2 DEF calls, NothingRunYet
<1>3. (\E c \in Callers : Call(c) \/ CallStep(c)) \/ UNCHANGED calls
  BY DEF EntrypointNext, Next, Construct, BuildOriginalEntryPointThunk, BuildFails, Destroy,
         Restore, evars, kvars
<1> QED BY <1>0, <1>1, <1>2, <1>3

(* When only functions that start with one jmp the thunk follows are       *)
(* hooked, a call that is past what was displaced has run it exactly once, *)
(* through any number of stacked hooks, and in whatever order those are    *)
(* destroyed, while calls run or not.                                      *)
THEOREM OriginalRunsWholeAlways ==
  ASSUME "jump_entries" \in ClientRules PROVE Spec => []OriginalRunsWhole
<1>1. EntrypointInit => RunInv
  BY RunInit
<1>2. RunInv /\ [EntrypointNext]_evars => RunInv'
  BY RunStep
<1>3. RunInv => OriginalRunsWhole
  BY DEF RunInv, NothingRunYet, OriginalRunsWhole
<1> QED BY <1>1, <1>2, <1>3, PTL DEF Spec

-----------------------------------------------------------------------------
(* With all three promises no call leaves living code.                     *)

LEMMA CallInit == EntrypointInit => CallInv
  BY LiveInit DEF EntrypointInit, Init, CallInv, CallsMeetNoChange, DisplacedFollowed, NoWildCall

LEMMA CallInvStep ==
  ASSUME {"suspended", "nested", "jump_entries"} \subseteq ClientRules,
         CallInv, [EntrypointNext]_evars
  PROVE  CallInv'
<1> USE DEF CallInv, NoWildCall
<1>0. Shape /\ LiveInv' /\ DisplacedFollowed'
  BY LiveStep, DisplacedStep DEF LiveInv
<1>1. ASSUME NEW h \in Hooks, Construct(h) \/ Destroy(h)
      PROVE  \A c \in Callers : at'[c] = "out"
  BY <1>1 DEF Construct, Destroy, Quiet, calls
<1>2. ASSUME NEW h \in Hooks, BuildOriginalEntryPointThunk(h) \/ BuildFails(h) \/ Restore(h)
      PROVE  \A c \in Callers : at'[c] = "out"
  <2>1. stage[h] \in {"jumping", "dying"} /\ UNCHANGED at
    BY <1>2 DEF BuildOriginalEntryPointThunk, BuildFails, Restore, calls
  <2> QED BY <2>1 DEF CallsMeetNoChange
<1>3. ASSUME NEW c \in Callers, Call(c) \/ CallStep(c), UNCHANGED stage
      PROVE  CallInv'
  <2>1. \A h \in Hooks : stage[h] \in {"none", "live"}
    BY <1>0, <1>3 DEF Call, Runs, CallStep, ExecHead, HookReturns, InvokeOriginal, Return,
                      CallsMeetNoChange
  <2>2. /\ at'[c] # "wild"
        /\ at'[c] = "hook" => stage[via'[c]] = "live"
        /\ \A d \in Callers \ {c} : at'[d] = at[d] /\ via'[d] = via[d]
    <3> USE DEF GoesTo
    <3>1. /\ at \in [Callers -> Places] /\ via \in [Callers -> Hooks \cup {Null}]
          /\ head \in Code \cup Hooks
      BY <1>0 DEF Shape, EntrypointTypeOK
    <3>2. CASE Call(c)
      BY <3>1, <3>2 DEF Call
    <3>3. CASE ExecHead(c)
      BY <2>1, <3>1, <3>3 DEF ExecHead, LiveInv, JumpsLeadToLive
    <3>4. CASE HookReturns(c)
      BY <3>1, <3>4 DEF HookReturns
    <3>5. CASE InvokeOriginal(c)
      <4>1. via[c] \in Hooks /\ stage[via[c]] = "live"
        BY <1>0, <3>5 DEF InvokeOriginal, Shape
      <4>2. FollowsJmp(saved[via[c]])
        BY <4>1 DEF DisplacedFollowed
      <4>3. saved[via[c]] \in Hooks => stage[saved[via[c]]] = "live"
        BY <2>1, <4>1 DEF LiveInv, JumpsLeadToLive
      <4>4. Exit(saved[via[c]]) \in {"hook", "rest"} /\ (Exit(saved[via[c]]) = "hook" => saved[via[c]] \in Hooks)
        BY <4>2, PrologAssumption DEF Exit, FollowsJmp
      <4> QED BY <3>1, <3>5, <4>1, <4>3, <4>4 DEF InvokeOriginal
    <3>6. CASE Return(c)
      BY <3>1, <3>6 DEF Return
    <3> QED BY <1>3, <3>2, <3>3, <3>4, <3>5, <3>6 DEF CallStep
  <2> QED BY <1>0, <1>3, <2>1, <2>2 DEF CallsMeetNoChange
<1>4. ASSUME UNCHANGED <<stage, at, via>>
      PROVE  CallInv'
  BY <1>0, <1>4 DEF CallsMeetNoChange
<1>5. ASSUME \A c \in Callers : at'[c] = "out"
      PROVE  CallInv'
  BY <1>0, <1>5 DEF CallsMeetNoChange
<1> QED BY <1>1, <1>2, <1>3, <1>4, <1>5
        DEF EntrypointNext, Next, evars, kvars, objects, calls

(* When hooks come and go only while no thread is in a call, in nested     *)
(* order, on functions that start with a jmp the thunk follows, no call    *)
(* gets into freed memory or a thunk that is not there.                    *)
THEOREM NoWildCallEver ==
  ASSUME {"suspended", "nested", "jump_entries"} \subseteq ClientRules
  PROVE  Spec => []NoWildCall
<1>1. EntrypointInit => CallInv
  BY CallInit
<1>2. CallInv /\ [EntrypointNext]_evars => CallInv'
  BY CallInvStep
<1>3. CallInv => NoWildCall
  BY DEF CallInv
<1> QED BY <1>1, <1>2, <1>3, PTL DEF Spec

-----------------------------------------------------------------------------
(* Releasing a patch, destroyed or assigned over, never changes the start  *)
(* of the function and never looks for bytes that are not there, provided  *)
(* clients assign only to patches that write a function.                   *)
THEOREM PatchReleaseInertHolds ==
  ASSUME "assign_owning" \in ClientRules PROVE Spec => PatchReleaseInert
<1>1. ASSUME Shape, EntrypointNext, NEW o \in PatchObjects,
             Patches!Destroy(o) \/ (\E s \in PatchObjects : Patches!MoveAssign(o, s))
      PROVE  UNCHANGED head /\ status' \notin {"misused", "faulted"}
  <2>0. status = "running"
    BY <1>1 DEF EntrypointNext, Patches!Next
  <2>1. Patches!IsEnabled(o) /\ Patches!Disable(o) /\ patch[o].entrypoint
          => UNCHANGED head /\ status' \notin {"misused", "faulted"}
    BY <1>1, <2>0, DisableWritesSame DEF Shape
  <2>2. CASE Patches!Destroy(o)
    BY <2>0, <2>1, <2>2 DEF Patches!Destroy, Patches!DisablesOnDestroy
  <2>3. CASE \E s \in PatchObjects : Patches!MoveAssign(o, s)
    BY <2>0, <2>1, <2>3 DEF Patches!MoveAssign, Patches!ReadsNull
  <2> QED BY <1>1, <2>2, <2>3
<1>2. EntrypointInit => Shape
  BY ShapeInit
<1>3. Shape /\ [EntrypointNext]_evars => Shape'
  BY ShapeStep
<1>4. Shape /\ [EntrypointNext]_evars
        => [\A o \in PatchObjects :
              Patches!Destroy(o) \/ (\E s \in PatchObjects : Patches!MoveAssign(o, s))
                => UNCHANGED head /\ status' \notin {"misused", "faulted"}]_evars
  BY <1>1
<1> QED BY <1>2, <1>3, <1>4, PTL DEF Spec, PatchReleaseInert
=============================================================================
