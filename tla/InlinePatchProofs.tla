------------------------- MODULE InlinePatchProofs -------------------------
(***************************************************************************)
(* Proofs about InlinePatch for any number of objects, patches and callers *)
(* and any interleaving of the owner's steps with calls.  Each theorem     *)
(* asks for the promises of the client it needs, and for no other.         *)
(***************************************************************************)
EXTENDS InlinePatch, TLAPS

(* What may be left of each of the owner's operations once it has begun.   *)
ConstructRest ==
  {ConstructSteps,
   <<"newCode", "newTrampoline", "tear", "jump">>, <<"newTrampoline", "tear", "jump">>,
   <<"tear", "jump">>, <<"jump">>}
UnwindRest ==
  {<<"freeTrampoline", "freeCode", "freeFlag">>, <<"freeCode", "freeFlag">>, <<"freeFlag">>}
DestroyRest ==
  {DestroySteps,
   <<"freeFlag", "tear", "restore", "freeTrampoline">>,
   <<"tear", "restore", "freeTrampoline">>, <<"restore", "freeTrampoline">>,
   <<"freeTrampoline">>}
AssignRest ==
  {AssignSteps,
   <<"restore", "freeTrampoline", "freeFlag", "freeCode">>,
   <<"freeTrampoline", "freeFlag", "freeCode">>, <<"freeFlag", "freeCode">>,
   <<"freeCode">>}
SelfAssignRest == {SelfAssignSteps, <<"restore">>}

Releasing == UnwindRest \cup DestroyRest \cup AssignRest
Keeping   == ConstructRest \cup SelfAssignRest

(* The steps of a sequence, and of what is left of the current operation.  *)
Steps(j) == {j[i] : i \in DOMAIN j}
Left     == Steps(job)

NewOf  == [flag |-> "newFlag", code |-> "newCode", trampoline |-> "newTrampoline"]
FreeOf == [flag |-> "freeFlag", code |-> "freeCode", trampoline |-> "freeTrampoline"]

Owned(p) == \E o \in Objects : owns[o] = p

-----------------------------------------------------------------------------
(* Needs no promise: the operation in progress is about a patch that has   *)
(* an owner exactly if the operation does not end with its memory gone; no *)
(* patch has two owners; and what is mapped follows from owners and steps  *)
(* left.                                                                   *)
JobShape ==
  /\ job \in {<< >>} \cup Releasing \cup Keeping
  /\ job # << >> => jobFor \in used
  /\ job \in Keeping => Owned(jobFor)
  /\ job \in Releasing => ~Owned(jobFor)

OneOwner ==
  \A o \in Objects : owns[o] # Null =>
    /\ o \in alive
    /\ owns[o] \in used
    /\ \A q \in Objects \ {o} : owns[q] # owns[o]

MappedAsLeft ==
  \A p \in Patches, k \in Kinds :
    <<k, p>> \in mapped <=> \/ Owned(p) /\ ~(p = jobFor /\ NewOf[k] \in Left)
                            \/ p = jobFor /\ FreeOf[k] \in Left

Shape == TypeOK /\ JobShape /\ OneOwner /\ MappedAsLeft

(* Needs no promise either: a call that is not in the body has run nothing *)
(* of what was displaced.                                                  *)
Inside == {"trampoline", "check", "patch", "relocated"}

NothingRunYet ==
  \A c \in Callers : /\ ran[c] <= 1
                     /\ at[c] \in {"head", "displaced"} \cup Inside => ran[c] = 0
                     /\ at[c] = "body" => ran[c] = 1

-----------------------------------------------------------------------------
(* Needs "nested" and "fits_page": what the function starts with, and what *)
(* a patch displaced, is the function itself or a patch that has an owner. *)
Standing(x) == x = Pristine \/ (x \in Patches /\ Owned(x))

SavedStand ==
  /\ \A p \in Patches : Owned(p) => Standing(saved[p])
  /\ \A p \in Patches \ used : saved[p] = Pristine
  /\ "restore" \in Left => Standing(saved[jobFor])

HeadStands ==
  \/ Standing(head)
  \/ head = Torn /\ job # << >> /\ Head(job) \in {"jump", "restore"}
  \/ head = jobFor /\ {"tear", "restore"} \subseteq Left

NewIsUnseen ==
  "jump" \in Left => /\ head # jobFor
                     /\ \A p \in Patches : Owned(p) => saved[p] # jobFor

StandInv == Shape /\ SavedStand /\ HeadStands /\ NewIsUnseen /\ empty = {}

(* Needs "suspended" too: calls are inside generated code or displaced     *)
(* instructions only while no operation is in progress.                    *)
CallersSafe ==
  /\ job # << >> => \A c \in Callers : at[c] \in {"out", "head", "body"}
  /\ \A c \in Callers : /\ at[c] = "displaced" => head = Pristine
                        /\ at[c] \in Inside => page[c] \in Patches /\ Owned(page[c])
                        /\ at[c] # "wild"

WildInv == StandInv /\ CallersSafe

-----------------------------------------------------------------------------
(* Needs "no_self_move" too: the patches in place form one stack, from the *)
(* start of the function down to its own instructions.  A patch enters it  *)
(* with "jump" and has left it when its release begins.                    *)
Beneath(st, i) == IF i < Len(st) THEN st[i + 1] ELSE Pristine

Stacked(st) ==
  /\ st \in Seq(Patches)
  /\ \A i, k \in 1 .. Len(st) : st[i] = st[k] => i = k
  /\ \A p \in Patches : (\E i \in 1 .. Len(st) : st[i] = p)
                          <=> Owned(p) /\ ~(p = jobFor /\ "jump" \in Left)
  /\ \A i \in 1 .. Len(st) : saved[st[i]] = Beneath(st, i)
  /\ Left \cap {"jump", "restore"} = {} \/ {"tear", "jump"} \subseteq Left => head = Beneath(st, 0)
  /\ "restore" \in Left \/ ("jump" \in Left /\ "newCode" \notin Left)
       => saved[jobFor] = Beneath(st, 0)

(* A call at the i-th patch of the stack has run the code of all above it  *)
(* that it must run.                                                       *)
HasRun(c, st, n) == \A k \in 1 .. n : st[k] \in must[c] => st[k] \in effects[c]

OnItsWay(c, st) ==
  at[c] \in Inside =>
    \E i \in 1 .. Len(st) : /\ st[i] = page[c]
                            /\ HasRun(c, st, IF at[c] = "relocated" THEN i ELSE i - 1)

FlagsKnown ==
  /\ \A p \in Patches \ used : ~flag[p]
  /\ "jump" \in Left => ~flag[jobFor]
  /\ \A c \in Callers :
       /\ \A p \in must[c] : flag[p] /\ Owned(p)
       /\ Enabled \subseteq may[c]
       /\ effects[c] \subseteq may[c]
       /\ at[c] = "patch" => page[c] \in may[c]
       /\ at[c] = "body" => must[c] \subseteq effects[c]

StackInv == \E st \in Seq(Patches) : Stacked(st) /\ \A c \in Callers : OnItsWay(c, st)

EnabledInv == WildInv /\ FlagsKnown /\ StackInv

-----------------------------------------------------------------------------
(* How an operation proceeds: each of its steps is done once, and what is  *)
(* left after it is the rest of the same operation.                        *)

Frees     == {"freeFlag", "freeCode", "freeTrampoline"}
StepNames == {"newFlag", "newCode", "newTrampoline", "tear", "jump", "restore"} \cup Frees

Advances(j, rest) ==
  /\ j # << >>
  /\ Tail(j) \in rest \cup {<< >>}
  /\ Head(j) \in StepNames
  /\ Steps(j) = {Head(j)} \cup Steps(Tail(j))
  /\ Head(j) \notin Steps(Tail(j))
  /\ Head(j) = "tear" => Tail(j) # << >> /\ Head(Tail(j)) \in {"jump", "restore"}

(* A constructor frees nothing, its jmp comes last, and it displaces the   *)
(* instructions before it tears them.                                      *)
LEMMA ConstructAdvances ==
  ASSUME NEW j \in ConstructRest
  PROVE  /\ Advances(j, ConstructRest)
         /\ Steps(j) \cap (Frees \cup {"restore"}) = {}
         /\ "jump" \in Steps(j)
         /\ Head(j) = "jump" => Tail(j) = << >>
         /\ "newCode" \in Steps(j) => "tear" \in Steps(j)
<1> USE DEF Advances, Steps, StepNames, Frees, ConstructRest, ConstructSteps
<1>1. CASE j = <<"newFlag", "newCode", "newTrampoline", "tear", "jump">>
  <2>1. Head(j) = "newFlag" /\ Tail(j) = <<"newCode", "newTrampoline", "tear", "jump">>
    BY <1>1
  <2> QED BY <1>1, <2>1
<1>2. CASE j = <<"newCode", "newTrampoline", "tear", "jump">>
  <2>1. Head(j) = "newCode" /\ Tail(j) = <<"newTrampoline", "tear", "jump">>
    BY <1>2
  <2> QED BY <1>2, <2>1
<1>3. CASE j = <<"newTrampoline", "tear", "jump">>
  <2>1. Head(j) = "newTrampoline" /\ Tail(j) = <<"tear", "jump">>
    BY <1>3
  <2> QED BY <1>3, <2>1
<1>4. CASE j = <<"tear", "jump">>
  <2>1. Head(j) = "tear" /\ Tail(j) = <<"jump">>
    BY <1>4
  <2> QED BY <1>4, <2>1
<1>5. CASE j = <<"jump">>
  <2>1. Head(j) = "jump" /\ Tail(j) = << >>
    BY <1>5
  <2> QED BY <1>5, <2>1
<1> QED BY <1>1, <1>2, <1>3, <1>4, <1>5

(* It tears the instructions when all is made, and jumps after that.       *)
LEMMA ConstructOrder ==
  ASSUME NEW j \in ConstructRest
  PROVE  /\ Head(j) # "jump" => "tear" \in Steps(j)
         /\ Head(j) \in {"newTrampoline", "tear", "jump"} => "newCode" \notin Steps(j)
<1> USE DEF Steps, ConstructRest, ConstructSteps
<1>1. CASE j = <<"newFlag", "newCode", "newTrampoline", "tear", "jump">>
  <2>1. Head(j) = "newFlag" /\ j[4] = "tear"
    BY <1>1
  <2> QED BY <1>1, <2>1
<1>2. CASE j = <<"newCode", "newTrampoline", "tear", "jump">>
  <2>1. Head(j) = "newCode" /\ j[3] = "tear"
    BY <1>2
  <2> QED BY <1>2, <2>1
<1>3. CASE j = <<"newTrampoline", "tear", "jump">>
  <2>1. Head(j) = "newTrampoline" /\ j[2] = "tear"
    BY <1>3
  <2> QED BY <1>3, <2>1
<1>4. CASE j = <<"tear", "jump">>
  <2>1. Head(j) = "tear" /\ j[1] = "tear"
    BY <1>4
  <2> QED BY <1>4, <2>1
<1>5. CASE j = <<"jump">>
  <2>1. Head(j) = "jump"
    BY <1>5
  <2> QED BY <1>5, <2>1
<1> QED BY <1>1, <1>2, <1>3, <1>4, <1>5

(* A constructor that throws only frees.                                   *)
LEMMA UnwindAdvances ==
  ASSUME NEW j \in UnwindRest
  PROVE  /\ Advances(j, UnwindRest)
         /\ Steps(j) \subseteq Frees
         /\ Steps(j) # {}
<1> USE DEF Advances, Steps, StepNames, Frees, UnwindRest
<1>1. CASE j = <<"freeTrampoline", "freeCode", "freeFlag">>
  <2>1. Head(j) = "freeTrampoline" /\ Tail(j) = <<"freeCode", "freeFlag">>
    BY <1>1
  <2> QED BY <1>1, <2>1
<1>2. CASE j = <<"freeCode", "freeFlag">>
  <2>1. Head(j) = "freeCode" /\ Tail(j) = <<"freeFlag">>
    BY <1>2
  <2> QED BY <1>2, <2>1
<1>3. CASE j = <<"freeFlag">>
  <2>1. Head(j) = "freeFlag" /\ Tail(j) = << >>
    BY <1>3
  <2> QED BY <1>3, <2>1
<1> QED BY <1>1, <1>2, <1>3

(* A destructor and an assignment free and restore, and make nothing.      *)
LEMMA DestroyAdvances ==
  ASSUME NEW j \in DestroyRest
  PROVE  /\ Advances(j, DestroyRest)
         /\ Steps(j) \subseteq Frees \cup {"tear", "restore"}
         /\ Steps(j) \cap Frees # {}
<1> USE DEF Advances, Steps, StepNames, Frees, DestroyRest, DestroySteps
<1>1. CASE j = <<"freeCode", "freeFlag", "tear", "restore", "freeTrampoline">>
  <2>1. Head(j) = "freeCode" /\ Tail(j) = <<"freeFlag", "tear", "restore", "freeTrampoline">>
    BY <1>1
  <2> QED BY <1>1, <2>1
<1>2. CASE j = <<"freeFlag", "tear", "restore", "freeTrampoline">>
  <2>1. Head(j) = "freeFlag" /\ Tail(j) = <<"tear", "restore", "freeTrampoline">>
    BY <1>2
  <2> QED BY <1>2, <2>1
<1>3. CASE j = <<"tear", "restore", "freeTrampoline">>
  <2>1. Head(j) = "tear" /\ Tail(j) = <<"restore", "freeTrampoline">>
    BY <1>3
  <2> QED BY <1>3, <2>1
<1>4. CASE j = <<"restore", "freeTrampoline">>
  <2>1. Head(j) = "restore" /\ Tail(j) = <<"freeTrampoline">>
    BY <1>4
  <2> QED BY <1>4, <2>1
<1>5. CASE j = <<"freeTrampoline">>
  <2>1. Head(j) = "freeTrampoline" /\ Tail(j) = << >>
    BY <1>5
  <2> QED BY <1>5, <2>1
<1> QED BY <1>1, <1>2, <1>3, <1>4, <1>5

(* The same of an assignment,                                              *)
LEMMA AssignAdvances ==
  ASSUME NEW j \in AssignRest
  PROVE  /\ Advances(j, AssignRest)
         /\ Steps(j) \subseteq Frees \cup {"tear", "restore"}
         /\ Steps(j) \cap Frees # {}
<1> USE DEF Advances, Steps, StepNames, Frees, AssignRest, AssignSteps
<1>1. CASE j = <<"tear", "restore", "freeTrampoline", "freeFlag", "freeCode">>
  <2>1. Head(j) = "tear" /\ Tail(j) = <<"restore", "freeTrampoline", "freeFlag", "freeCode">>
    BY <1>1
  <2> QED BY <1>1, <2>1
<1>2. CASE j = <<"restore", "freeTrampoline", "freeFlag", "freeCode">>
  <2>1. Head(j) = "restore" /\ Tail(j) = <<"freeTrampoline", "freeFlag", "freeCode">>
    BY <1>2
  <2> QED BY <1>2, <2>1
<1>3. CASE j = <<"freeTrampoline", "freeFlag", "freeCode">>
  <2>1. Head(j) = "freeTrampoline" /\ Tail(j) = <<"freeFlag", "freeCode">>
    BY <1>3
  <2> QED BY <1>3, <2>1
<1>4. CASE j = <<"freeFlag", "freeCode">>
  <2>1. Head(j) = "freeFlag" /\ Tail(j) = <<"freeCode">>
    BY <1>4
  <2> QED BY <1>4, <2>1
<1>5. CASE j = <<"freeCode">>
  <2>1. Head(j) = "freeCode" /\ Tail(j) = << >>
    BY <1>5
  <2> QED BY <1>5, <2>1
<1> QED BY <1>1, <1>2, <1>3, <1>4, <1>5

(* and of one to itself, which frees nothing.                              *)
LEMMA SelfAssignAdvances ==
  ASSUME NEW j \in SelfAssignRest
  PROVE  /\ Advances(j, SelfAssignRest)
         /\ Steps(j) \subseteq {"tear", "restore"}
<1> USE DEF Advances, Steps, StepNames, Frees, SelfAssignRest, SelfAssignSteps
<1>1. CASE j = <<"tear", "restore">>
  <2>1. Head(j) = "tear" /\ Tail(j) = <<"restore">>
    BY <1>1
  <2> QED BY <1>1, <2>1
<1>2. CASE j = <<"restore">>
  <2>1. Head(j) = "restore" /\ Tail(j) = << >>
    BY <1>2
  <2> QED BY <1>2, <2>1
<1> QED BY <1>1, <1>2

(* What a constructor made so far is what it gives up when a step throws.   *)
LEMMA UnwoundFreesMade ==
  ASSUME NEW j \in ConstructRest
  PROVE  /\ Unwound(Head(j)) \in UnwindRest \cup {<< >>}
         /\ \A k \in Kinds : FreeOf[k] \in Steps(Unwound(Head(j))) <=> NewOf[k] \notin Steps(j)
<1> USE DEF ConstructRest, ConstructSteps, UnwindRest, Unwound, Steps, Kinds, FreeOf, NewOf
<1>1. CASE j = <<"newFlag", "newCode", "newTrampoline", "tear", "jump">>
  <2>1. Head(j) = "newFlag" /\ Unwound(Head(j)) = << >>
    BY <1>1
  <2> QED BY <1>1, <2>1
<1>2. CASE j = <<"newCode", "newTrampoline", "tear", "jump">>
  <2>1. Head(j) = "newCode" /\ Unwound(Head(j)) = <<"freeFlag">>
    BY <1>2
  <2> QED BY <1>2, <2>1
<1>3. CASE j = <<"newTrampoline", "tear", "jump">>
  <2>1. Head(j) = "newTrampoline" /\ Unwound(Head(j)) = <<"freeCode", "freeFlag">>
    BY <1>3
  <2> QED BY <1>3, <2>1
<1>4. CASE j = <<"tear", "jump">>
  <2>1. Head(j) = "tear" /\ Unwound(Head(j)) = <<"freeTrampoline", "freeCode", "freeFlag">>
    BY <1>4
  <2> QED BY <1>4, <2>1
<1>5. CASE j = <<"jump">>
  <2>1. Head(j) = "jump" /\ Unwound(Head(j)) = <<"freeTrampoline", "freeCode", "freeFlag">>
    BY <1>5
  <2> QED BY <1>5, <2>1
<1> QED BY <1>1, <1>2, <1>3, <1>4, <1>5

(* What the proofs below use of an operation in progress.                  *)
LEMMA JobAdvances ==
  ASSUME NEW j \in Releasing \cup Keeping
  PROVE  /\ j # << >>
         /\ j \in Keeping => Tail(j) \in Keeping \cup {<< >>} /\ Steps(j) \cap Frees = {}
         /\ j \in Releasing => /\ Tail(j) \in Releasing \cup {<< >>}
                               /\ Steps(j) \subseteq Frees \cup {"tear", "restore"}
         /\ j \notin Keeping \cap Releasing
         /\ Head(j) \in StepNames
         /\ Steps(j) = {Head(j)} \cup Steps(Tail(j))
         /\ Head(j) \notin Steps(Tail(j))
         /\ Head(j) = "tear" => Tail(j) # << >> /\ Head(Tail(j)) \in {"jump", "restore"}
         /\ {"newFlag", "newCode", "newTrampoline", "jump"} \cap Steps(j) # {}
              => j \in ConstructRest
         /\ j \in ConstructRest => /\ "jump" \in Steps(j)
                                   /\ "restore" \notin Steps(j)
                                   /\ Head(j) = "jump" => Tail(j) = << >>
                                   /\ "newCode" \in Steps(j) => "tear" \in Steps(j)
<1> USE DEF Advances, Releasing, Keeping, Frees
<1>1. CASE j \in ConstructRest
  <2>1. j \notin Releasing
    BY <1>1, ConstructAdvances, UnwindAdvances, DestroyAdvances, AssignAdvances
  <2> QED BY <1>1, <2>1, ConstructAdvances
<1>2. CASE j \in SelfAssignRest
  BY <1>2, SelfAssignAdvances, ConstructAdvances, UnwindAdvances, DestroyAdvances, AssignAdvances
<1>3. CASE j \in UnwindRest
  BY <1>3, UnwindAdvances, ConstructAdvances, SelfAssignAdvances
<1>4. CASE j \in DestroyRest
  BY <1>4, DestroyAdvances, ConstructAdvances, SelfAssignAdvances
<1>5. CASE j \in AssignRest
  BY <1>5, AssignAdvances, ConstructAdvances, SelfAssignAdvances
<1> QED BY <1>1, <1>2, <1>3, <1>4, <1>5

(* How the owner's operations begin.                                       *)
LEMMA Beginnings ==
  /\ ConstructSteps \in ConstructRest
  /\ Steps(ConstructSteps) = {"newFlag", "newCode", "newTrampoline", "tear", "jump"}
  /\ DestroySteps \in DestroyRest
  /\ Steps(DestroySteps) = {"tear", "restore"} \cup Frees
  /\ AssignSteps \in AssignRest
  /\ Steps(AssignSteps) = {"tear", "restore"} \cup Frees
  /\ SelfAssignSteps \in SelfAssignRest
  /\ Steps(SelfAssignSteps) = {"tear", "restore"}
  /\ Steps(<< >>) = {}
<1> USE DEF Steps, Frees
<1>1. ConstructSteps \in ConstructRest /\ Steps(ConstructSteps) = {"newFlag", "newCode", "newTrampoline", "tear", "jump"}
  BY DEF ConstructSteps, ConstructRest
<1>2. DestroySteps \in DestroyRest /\ Steps(DestroySteps) = {"tear", "restore"} \cup Frees
  BY DEF DestroySteps, DestroyRest
<1>3. AssignSteps \in AssignRest /\ Steps(AssignSteps) = {"tear", "restore"} \cup Frees
  BY DEF AssignSteps, AssignRest
<1>4. SelfAssignSteps \in SelfAssignRest /\ Steps(SelfAssignSteps) = {"tear", "restore"}
  BY DEF SelfAssignSteps, SelfAssignRest
<1>5. Steps(<< >>) = {}
  OBVIOUS
<1> QED BY <1>1, <1>2, <1>3, <1>4, <1>5

(* A constructor in progress is one of which the jmp is left.              *)
LEMMA ConstructingLeaves ==
  ASSUME JobShape, Constructing
  PROVE  job \in ConstructRest
<1>1. job \in Releasing \cup Keeping
  BY DEF JobShape, Constructing
<1>2. "jump" \in Left
  <2>1. ASSUME job \in ConstructRest PROVE Len(job) \in DOMAIN job
    BY <2>1 DEF ConstructRest, ConstructSteps
  <2>2. ASSUME job \in UnwindRest PROVE Len(job) \in DOMAIN job
    BY <2>2 DEF UnwindRest
  <2>3. ASSUME job \in DestroyRest PROVE Len(job) \in DOMAIN job
    BY <2>3 DEF DestroyRest, DestroySteps
  <2>4. ASSUME job \in AssignRest PROVE Len(job) \in DOMAIN job
    BY <2>4 DEF AssignRest, AssignSteps
  <2>5. ASSUME job \in SelfAssignRest PROVE Len(job) \in DOMAIN job
    BY <2>5 DEF SelfAssignRest, SelfAssignSteps
  <2>6. Len(job) \in DOMAIN job
    BY <1>1, <2>1, <2>2, <2>3, <2>4, <2>5 DEF Releasing, Keeping
  <2> QED BY <2>6 DEF Constructing, Left, Steps
<1> QED BY <1>1, <1>2, JobAdvances DEF Left

-----------------------------------------------------------------------------
(* What the owner's operations do, seen from the patches.                  *)

(* A destruction or an assignment gives a patch up, nothing yet happens to *)
(* its memory.                                                             *)
GivesUp(p) ==
  /\ p \in Patches /\ Owned(p)
  /\ Idle /\ Quiet /\ Releasable(p)
  /\ job' \in {DestroySteps, AssignSteps} /\ jobFor' = p
  /\ must' = [c \in Callers |-> must[c] \ {p}]
  /\ UNCHANGED <<callbacks, memory, at, page, ran, effects, may, crashed>>
  /\ \A q \in Patches : Owned(q)' <=> Owned(q) /\ q # p

(* An assignment to itself keeps the patch.                                *)
KeepsOwn(p) ==
  /\ p \in Patches /\ Owned(p)
  /\ Idle /\ Quiet /\ Releasable(p)
  /\ job' = SelfAssignSteps /\ jobFor' = p
  /\ must' = [c \in Callers |-> must[c] \ {p}]
  /\ UNCHANGED <<callbacks, memory, at, page, ran, effects, may, crashed>>
  /\ \A q \in Patches : Owned(q)' <=> Owned(q)

(* A move from object to object is not seen by the patches.                *)
Renames ==
  /\ UNCHANGED <<callbacks, memory, job, jobFor, calls, crashed>>
  /\ \A q \in Patches : Owned(q)' <=> Owned(q)

LEMMA DestroyEffect ==
  ASSUME Shape, NEW o \in Objects, Destroy(o)
  PROVE  /\ OneOwner' /\ owns' \in [Objects -> Patches \cup {Null}] /\ alive' \subseteq Objects
         /\ Renames \/ GivesUp(owns[o])
<1>1. /\ alive' = alive \ {o}
      /\ owns' = [owns EXCEPT ![o] = Null]
      /\ owns \in [Objects -> Patches \cup {Null}]
      /\ alive \subseteq Objects
  BY DEF Destroy, Shape, TypeOK
<1>2. used' = used
  BY DEF Destroy, Begin, memory
<1>3. OneOwner' /\ \A q \in Patches : Owned(q)' <=> Owned(q) /\ q # owns[o]
  BY <1>1, <1>2, PatchAssumption DEF Shape, OneOwner, Owned
<1>4. CASE owns[o] = Null
  BY <1>1, <1>3, <1>4, PatchAssumption DEF Destroy, Renames
<1>5. CASE owns[o] # Null
  BY <1>1, <1>3, <1>5 DEF Destroy, Begin, GivesUp, Owned
<1> QED BY <1>1, <1>3, <1>4, <1>5

LEMMA MoveEffect ==
  ASSUME Shape, NEW d \in Objects, NEW s \in Objects, d # s, {d, s} \subseteq alive',
         owns' = [owns EXCEPT ![d] = owns[s], ![s] = Null],
         alive \subseteq alive', alive' \subseteq Objects, used' = used
  PROVE  /\ OneOwner' /\ owns' \in [Objects -> Patches \cup {Null}]
         /\ \A q \in Patches : Owned(q)' <=> Owned(q) /\ q # owns[d]
<1>1. /\ owns'[d] = owns[s] /\ owns'[s] = Null
      /\ \A g \in Objects \ {d, s} : owns'[g] = owns[g]
      /\ owns' \in [Objects -> Patches \cup {Null}]
  BY DEF Shape, TypeOK
<1>2. OneOwner'
  BY <1>1 DEF Shape, OneOwner
<1>3. \A q \in Patches : Owned(q)' <=> Owned(q) /\ q # owns[d]
  BY <1>1, PatchAssumption DEF Shape, OneOwner, Owned
<1> QED BY <1>1, <1>2, <1>3

LEMMA MoveConstructEffect ==
  ASSUME Shape, NEW d \in Objects, NEW s \in Objects, MoveConstruct(d, s)
  PROVE  /\ OneOwner' /\ owns' \in [Objects -> Patches \cup {Null}] /\ alive' \subseteq Objects
         /\ Renames
<1>1. /\ d # s /\ owns[d] = Null
      /\ alive' = alive \cup {d} /\ s \in alive /\ alive \subseteq Objects
      /\ owns' = [owns EXCEPT ![d] = owns[s], ![s] = Null]
      /\ UNCHANGED <<callbacks, memory, job, jobFor, calls, crashed>>
  BY DEF MoveConstruct, Shape, OneOwner, TypeOK
<1>2. used' = used
  BY <1>1 DEF memory
<1>3. /\ OneOwner' /\ owns' \in [Objects -> Patches \cup {Null}]
      /\ \A q \in Patches : Owned(q)' <=> Owned(q) /\ q # owns[d]
  <2>1. {d, s} \subseteq alive' /\ alive \subseteq alive' /\ alive' \subseteq Objects
    BY <1>1
  <2> QED BY <1>1, <1>2, <2>1, MoveEffect
<1>4. \A q \in Patches : Owned(q)' <=> Owned(q)
  BY <1>1, <1>3, PatchAssumption
<1> QED BY <1>1, <1>3, <1>4 DEF Renames

(* The class of the two objects says which steps an assignment takes.      *)
LEMMA AssignmentSteps ==
  ASSUME NEW d, NEW s
  PROVE  /\ d # s => StepsOfAssignment(d, s) \in {DestroySteps, AssignSteps}
         /\ d = s /\ d \in callbacks => StepsOfAssignment(d, s) = << >>
         /\ d = s /\ d \notin callbacks => StepsOfAssignment(d, s) = SelfAssignSteps
         /\ << >> \notin {DestroySteps, AssignSteps, SelfAssignSteps}
<1>1. << >> \notin {DestroySteps, AssignSteps, SelfAssignSteps}
  BY DEF DestroySteps, AssignSteps, SelfAssignSteps
<1>2. CASE d = s
  BY <1>1, <1>2 DEF StepsOfAssignment
<1>3. CASE d # s
  BY <1>1, <1>3 DEF StepsOfAssignment
<1> QED BY <1>1, <1>2, <1>3

LEMMA MoveAssignEffect ==
  ASSUME Shape, NEW d \in Objects, NEW s \in Objects, MoveAssign(d, s)
  PROVE  /\ OneOwner' /\ owns' \in [Objects -> Patches \cup {Null}] /\ alive' \subseteq Objects
         /\ \/ Renames
            \/ GivesUp(owns[d])
            \/ d = s /\ d \notin callbacks /\ KeepsOwn(owns[d])
<1>1. /\ {d, s} \subseteq alive /\ alive' = alive /\ alive \subseteq Objects
      /\ owns \in [Objects -> Patches \cup {Null}]
      /\ used' = used /\ callbacks' = callbacks
  BY DEF MoveAssign, Begin, memory, Shape, TypeOK
<1>2. owns[d] # Null => owns[d] \in Patches /\ Owned(owns[d])
  BY <1>1 DEF Owned
<1>3. CASE d = s
  <2>1. owns' = owns
    BY <1>3 DEF MoveAssign
  <2>2. OneOwner' /\ \A q \in Patches : Owned(q)' <=> Owned(q)
    BY <1>1, <2>1 DEF Shape, OneOwner, Owned
  <2>3. CASE d \in callbacks
    <3>1. UNCHANGED <<callbacks, memory, job, jobFor, calls, crashed>>
      BY <1>3, <2>3, AssignmentSteps DEF MoveAssign
    <3> QED BY <1>1, <2>1, <2>2, <3>1 DEF Renames
  <2>4. CASE d \notin callbacks
    <3>1. CASE owns[d] = Null
      BY <1>1, <2>1, <2>2, <3>1 DEF MoveAssign, Renames
    <3>2. CASE owns[d] # Null
      <4>1. StepsOfAssignment(d, s) = SelfAssignSteps /\ SelfAssignSteps # << >>
        BY <1>3, <2>4, AssignmentSteps
      <4>2. Idle /\ Releasable(owns[d]) /\ Begin(SelfAssignSteps, owns[d])
        BY <3>2, <4>1 DEF MoveAssign
      <4> QED BY <1>1, <1>2, <1>3, <2>1, <2>2, <2>4, <3>2, <4>2 DEF Begin, KeepsOwn
    <3> QED BY <3>1, <3>2
  <2> QED BY <2>3, <2>4
<1>4. CASE d # s
  <2>1. owns' = [owns EXCEPT ![d] = owns[s], ![s] = Null]
    BY <1>4 DEF MoveAssign
  <2>2. /\ OneOwner' /\ owns' \in [Objects -> Patches \cup {Null}]
        /\ \A q \in Patches : Owned(q)' <=> Owned(q) /\ q # owns[d]
    BY <1>1, <1>4, <2>1, MoveEffect
  <2>3. CASE owns[d] = Null
    BY <1>1, <2>2, <2>3, PatchAssumption DEF MoveAssign, Renames
  <2>4. CASE owns[d] # Null
    <3> DEFINE steps == StepsOfAssignment(d, s)
    <3>1. steps \in {DestroySteps, AssignSteps} /\ steps # << >>
      BY <1>4, AssignmentSteps
    <3>2. Idle /\ Releasable(owns[d]) /\ Begin(steps, owns[d])
      BY <2>4, <3>1 DEF MoveAssign
    <3> HIDE DEF steps
    <3> QED BY <1>1, <1>2, <2>2, <2>4, <3>1, <3>2 DEF Begin, GivesUp
  <2> QED BY <2>3, <2>4
<1> QED BY <1>3, <1>4

LEMMA ConstructEffect ==
  ASSUME Shape, NEW o \in Objects, NEW p \in Patches, Construct(o, p)
  PROVE  /\ OneOwner' /\ owns' \in [Objects -> Patches \cup {Null}] /\ alive' \subseteq Objects
         /\ ~Owned(p)
         /\ \A q \in Patches : Owned(q)' <=> Owned(q) \/ q = p
<1>1. /\ o \notin alive /\ p \notin used
      /\ owns' = [owns EXCEPT ![o] = p]
      /\ alive' = alive \cup {o} /\ used' = used \cup {p}
      /\ owns \in [Objects -> Patches \cup {Null}]
      /\ alive \subseteq Objects
  BY DEF Construct, Shape, TypeOK
<1>2. owns[o] = Null /\ ~Owned(p)
  BY <1>1, PatchAssumption DEF Shape, OneOwner, Owned
<1>3. OneOwner'
  BY <1>1, <1>2 DEF Shape, OneOwner, Owned
<1>4. \A q \in Patches : Owned(q)' <=> Owned(q) \/ q = p
  BY <1>1, <1>2, PatchAssumption DEF Owned
<1> QED BY <1>1, <1>2, <1>3, <1>4

LEMMA ConstructFailsEffect ==
  ASSUME Shape, NEW o \in Objects, ConstructFails(o)
  PROVE  /\ OneOwner' /\ owns' \in [Objects -> Patches \cup {Null}] /\ alive' \subseteq Objects
         /\ job \in ConstructRest /\ jobFor \in Patches /\ Owned(jobFor)
         /\ \A q \in Patches : Owned(q)' <=> Owned(q) /\ q # jobFor
<1>1. /\ owns' = [owns EXCEPT ![o] = Null]
      /\ owns[o] = jobFor
      /\ alive' = alive \ {o} /\ used' = used
      /\ owns \in [Objects -> Patches \cup {Null}]
      /\ alive \subseteq Objects /\ used \subseteq Patches
  BY DEF ConstructFails, Shape, TypeOK
<1>2. job \in ConstructRest /\ jobFor \in Patches /\ Owned(jobFor)
  BY <1>1, ConstructingLeaves, ConstructAdvances
     DEF ConstructFails, Constructing, Shape, JobShape, Keeping
<1>3. OneOwner'
  BY <1>1 DEF Shape, OneOwner
<1>4. \A q \in Patches : Owned(q)' <=> Owned(q) /\ q # jobFor
  BY <1>1, PatchAssumption DEF Shape, OneOwner, Owned
<1> QED BY <1>1, <1>2, <1>3, <1>4

(* One step of an operation: it is done, the rest is left.                 *)
LEMMA OwnerStepEffect ==
  ASSUME Shape, OwnerStep
  PROVE  /\ job \in Releasing \cup Keeping /\ jobFor \in Patches
         /\ Head(job) \in Left /\ Left' = Left \ {Head(job)}
         /\ Effect(Head(job), jobFor)
         /\ UNCHANGED <<callbacks, used, alive, owns, jobFor, calls, crashed>>
         /\ OneOwner'
         /\ \A q : Owned(q)' <=> Owned(q)
<1>1. /\ job \in Releasing \cup Keeping /\ jobFor \in Patches
      /\ Effect(Head(job), jobFor)
      /\ job' = Tail(job)
      /\ UNCHANGED <<callbacks, used, alive, owns, jobFor, calls, crashed>>
  BY DEF OwnerStep, Shape, JobShape, TypeOK
<1>2. Head(job) \in Left /\ Left' = Left \ {Head(job)}
  BY <1>1, JobAdvances DEF Left, Steps
<1> QED BY <1>1, <1>2 DEF Shape, OneOwner, Owned

-----------------------------------------------------------------------------
(* Shape is inductive.                                                     *)

(* Nothing is mapped, owned or in progress at first.                       *)
LEMMA ShapeInit ==
  ASSUME Init
  PROVE  Shape
<1>1. TypeOK
  <2>1. /\ {effects, must, may} \subseteq [Callers -> SUBSET Patches]
        /\ ran \in [Callers -> 0 .. 2]
        /\ page \in [Callers -> Patches \cup {Null}]
        /\ at \in [Callers -> {"out"}]
    BY DEF Init
  <2>2. /\ head \in Patches \cup {Pristine, Torn}
        /\ flag \in [Patches -> BOOLEAN]
        /\ saved \in [Patches -> Patches \cup {Pristine, Torn}]
        /\ owns \in [Objects -> Patches \cup {Null}]
        /\ jobFor \in Patches \cup {Null}
        /\ mapped = {} /\ empty = {} /\ used = {} /\ alive = {} /\ crashed = FALSE
    BY DEF Init
  <2>3. callbacks \in Classes
    BY DEF Init
  <2> QED BY <2>1, <2>2, <2>3 DEF TypeOK
<1>2. Left = {} /\ \A p \in Patches : ~Owned(p)
  BY Beginnings, PatchAssumption DEF Init, Left, Owned
<1>3. JobShape
  <2>1. job = << >>
    BY DEF Init
  <2>2. job \notin Releasing \cup Keeping
    BY <2>1, JobAdvances
  <2> QED BY <2>1, <2>2 DEF JobShape
<1>4. OneOwner /\ MappedAsLeft
  BY <1>2 DEF Init, OneOwner, MappedAsLeft
<1> QED BY <1>1, <1>3, <1>4 DEF Shape

(* A patch with an owner has been made.                                    *)
LEMMA OwnedIsUsed ==
  ASSUME Shape, NEW p \in Patches, Owned(p)
  PROVE  p \in used
<1>1. PICK o \in Objects : owns[o] = p
  BY DEF Owned
<1> QED BY <1>1, PatchAssumption DEF Shape, OneOwner

(* Each step of an operation makes or frees the memory it is named after.  *)
LEMMA ShapeOwnerStep ==
  ASSUME Shape, OwnerStep
  PROVE  Shape'
<1>1. /\ job \in Releasing \cup Keeping /\ jobFor \in Patches
      /\ Head(job) \in Left /\ Left' = Left \ {Head(job)}
      /\ Effect(Head(job), jobFor)
      /\ UNCHANGED <<callbacks, used, alive, owns, jobFor, calls, crashed>>
      /\ OneOwner'
      /\ \A q : Owned(q)' <=> Owned(q)
  BY OwnerStepEffect
<1>2. TypeOK'
  <2>1. /\ head' \in Patches \cup {Pristine, Torn}
        /\ mapped' \subseteq Kinds \X Patches
        /\ flag' \in [Patches -> BOOLEAN]
        /\ saved' \in [Patches -> Patches \cup {Pristine, Torn}]
        /\ empty' \subseteq Patches
    <3>1. /\ head \in Patches \cup {Pristine, Torn}
          /\ mapped \subseteq Kinds \X Patches
          /\ flag \in [Patches -> BOOLEAN]
          /\ saved \in [Patches -> Patches \cup {Pristine, Torn}]
          /\ empty \subseteq Patches
      BY DEF Shape, TypeOK
    <3>2. /\ head' \in {head, Torn, jobFor, saved[jobFor]}
          /\ flag' \in {flag, [flag EXCEPT ![jobFor] = FALSE]}
          /\ saved' \in {saved, [saved EXCEPT ![jobFor] = head]}
          /\ empty' \subseteq empty \cup {jobFor}
          /\ \/ mapped' \subseteq mapped
             \/ \E k \in Kinds : mapped' = mapped \cup {<<k, jobFor>>}
      BY <1>1 DEF Effect, Written, Kinds, InitialFlag
    <3>3. head' \in Patches \cup {Pristine, Torn} /\ mapped' \subseteq Kinds \X Patches
      BY <1>1, <3>1, <3>2
    <3>4. /\ flag' \in [Patches -> BOOLEAN]
          /\ saved' \in [Patches -> Patches \cup {Pristine, Torn}]
          /\ empty' \subseteq Patches
      BY <1>1, <3>1, <3>2
    <3> QED BY <3>3, <3>4
  <2> QED BY <1>1, <2>1 DEF Shape, TypeOK, calls
<1>3. JobShape'
  <2>1. job' = Tail(job) /\ job # << >>
    BY DEF OwnerStep
  <2>2. /\ job \in Keeping => job' \in Keeping \cup {<< >>}
        /\ job \in Releasing => job' \in Releasing \cup {<< >>}
    BY <1>1, <2>1, JobAdvances
  <2>3. job' # << >> => job' \notin Keeping \cap Releasing
    BY <1>1, <2>2, JobAdvances
  <2>4. << >> \notin Keeping \cup Releasing
    BY JobAdvances
  <2> QED BY <1>1, <2>1, <2>2, <2>3, <2>4 DEF Shape, JobShape
<1>4. MappedAsLeft'
  <2> SUFFICES ASSUME NEW p \in Patches, NEW k \in Kinds
               PROVE  <<k, p>> \in mapped' <=>
                         \/ Owned(p) /\ ~(p = jobFor /\ NewOf[k] \in Left')
                         \/ p = jobFor /\ FreeOf[k] \in Left'
    BY <1>1 DEF MappedAsLeft
  <2>1. /\ <<k, p>> \in mapped <=> \/ Owned(p) /\ ~(p = jobFor /\ NewOf[k] \in Left)
                                   \/ p = jobFor /\ FreeOf[k] \in Left
        /\ Left \cap {"newFlag", "newCode", "newTrampoline"} # {}
             => Owned(jobFor) /\ Left \cap Frees = {}
        /\ Left \cap Frees # {}
             => ~Owned(jobFor) /\ Left \subseteq Frees \cup {"tear", "restore"}
    <3>1. job \in Keeping => Left \cap Frees = {}
      BY <1>1, JobAdvances DEF Left
    <3>2. job \in Releasing => Left \subseteq Frees \cup {"tear", "restore"}
      BY <1>1, JobAdvances DEF Left
    <3> QED BY <1>1, <3>1, <3>2 DEF Shape, MappedAsLeft, JobShape, Frees
  <2>2. CASE p # jobFor
    <3>1. <<k, p>> \in mapped' <=> <<k, p>> \in mapped
      BY <1>1, <2>2 DEF Effect
    <3> QED BY <2>1, <2>2, <3>1
  <2>3. CASE p = jobFor
    <3>1. CASE Head(job) = NewOf[k]
      BY <1>1, <2>1, <2>3, <3>1 DEF Effect, Kinds, NewOf, FreeOf, Frees
    <3>2. CASE Head(job) = FreeOf[k]
      BY <1>1, <2>1, <2>3, <3>2 DEF Effect, Kinds, NewOf, FreeOf, Frees
    <3>3. CASE Head(job) # NewOf[k] /\ Head(job) # FreeOf[k]
      <4>1. <<k, p>> \in mapped' <=> <<k, p>> \in mapped
        BY <1>1, <2>3, <3>3 DEF Effect, Kinds, NewOf, FreeOf
      <4> QED BY <1>1, <2>1, <3>3, <4>1
    <3> QED BY <3>1, <3>2, <3>3
  <2> QED BY <2>2, <2>3
<1> QED BY <1>1, <1>2, <1>3, <1>4 DEF Shape
(* A patch that is made has nothing mapped before its constructor's steps. *)
LEMMA ShapeConstruct ==
  ASSUME Shape, NEW o \in Objects, NEW p \in Patches, Construct(o, p)
  PROVE  Shape'
<1>1. /\ OneOwner' /\ owns' \in [Objects -> Patches \cup {Null}] /\ alive' \subseteq Objects
      /\ ~Owned(p)
      /\ \A q \in Patches : Owned(q)' <=> Owned(q) \/ q = p
  BY ConstructEffect
<1>2. /\ job = << >> /\ job' = ConstructSteps /\ jobFor' = p
      /\ used' = used \cup {p}
      /\ UNCHANGED <<callbacks, head, mapped, flag, saved, empty, calls, crashed>>
  BY DEF Construct, Idle
<1>3. TypeOK'
  BY <1>1, <1>2 DEF Shape, TypeOK, calls
<1>4. /\ ConstructSteps \in Keeping /\ ConstructSteps \notin Releasing
      /\ \A k \in Kinds : NewOf[k] \in Left' /\ FreeOf[k] \notin Left'
  <2>1. Left' = {"newFlag", "newCode", "newTrampoline", "tear", "jump"}
    BY <1>2, Beginnings DEF Left
  <2> QED BY <2>1, Beginnings, JobAdvances DEF Keeping, Kinds, NewOf, FreeOf
<1>5. JobShape'
  BY <1>1, <1>2, <1>4 DEF JobShape
<1>6. MappedAsLeft'
  <2>1. Left = {}
    BY <1>2, Beginnings DEF Left
  <2> QED BY <1>1, <1>2, <1>4, <2>1 DEF Shape, MappedAsLeft
<1> QED BY <1>1, <1>3, <1>5, <1>6 DEF Shape

(* A constructor that throws goes on with freeing what it has made.        *)
LEMMA ShapeConstructFails ==
  ASSUME Shape, NEW o \in Objects, ConstructFails(o)
  PROVE  Shape'
<1>1. /\ OneOwner' /\ owns' \in [Objects -> Patches \cup {Null}] /\ alive' \subseteq Objects
      /\ job \in ConstructRest /\ jobFor \in Patches /\ Owned(jobFor)
      /\ \A q \in Patches : Owned(q)' <=> Owned(q) /\ q # jobFor
  BY ConstructFailsEffect
<1>2. /\ head' \in {head, jobFor}
      /\ job' = Unwound(Head(job)) /\ jobFor' = jobFor
      /\ UNCHANGED <<callbacks, mapped, flag, saved, empty, used, calls, crashed>>
  BY DEF ConstructFails
<1>3. TypeOK'
  BY <1>1, <1>2 DEF Shape, TypeOK, calls
<1>4. /\ job' \in UnwindRest \cup {<< >>}
      /\ \A k \in Kinds : FreeOf[k] \in Left' <=> NewOf[k] \notin Left
      /\ \A k \in Kinds : NewOf[k] \notin Left' /\ FreeOf[k] \notin Left
  <2>1. /\ job' \in UnwindRest \cup {<< >>}
        /\ \A k \in Kinds : FreeOf[k] \in Left' <=> NewOf[k] \notin Left
    BY <1>1, <1>2, UnwoundFreesMade DEF Left
  <2>2. Left' \subseteq Frees
    BY <2>1, UnwindAdvances, Beginnings DEF Left
  <2>3. Left \cap Frees = {}
    BY <1>1, ConstructAdvances DEF Left
  <2> QED BY <2>1, <2>2, <2>3 DEF Kinds, NewOf, FreeOf, Frees
<1>5. JobShape'
  <2>1. job' # << >> => job' \in Releasing /\ job' \notin Keeping
    BY <1>4, JobAdvances DEF Releasing
  <2>2. << >> \notin Keeping \cup Releasing
    BY JobAdvances
  <2>3. jobFor \in used
    BY <1>1, ConstructAdvances DEF Shape, JobShape, Advances
  <2> QED BY <1>1, <1>2, <2>1, <2>2, <2>3 DEF JobShape
<1>6. MappedAsLeft'
  BY <1>1, <1>2, <1>4 DEF Shape, MappedAsLeft
<1> QED BY <1>1, <1>3, <1>5, <1>6 DEF Shape

(* A patch given up has all its memory still, and all of it is to go.      *)
LEMMA ShapeGivesUp ==
  ASSUME Shape, NEW p, GivesUp(p),
         OneOwner', owns' \in [Objects -> Patches \cup {Null}], alive' \subseteq Objects
  PROVE  Shape'
<1>1. /\ p \in Patches /\ Owned(p) /\ job = << >>
      /\ job' \in {DestroySteps, AssignSteps} /\ jobFor' = p
      /\ must' = [c \in Callers |-> must[c] \ {p}]
      /\ UNCHANGED <<callbacks, memory, at, page, ran, effects, may, crashed>>
      /\ \A q \in Patches : Owned(q)' <=> Owned(q) /\ q # p
  BY DEF GivesUp, Idle
<1>2. must' \in [Callers -> SUBSET Patches]
  BY <1>1 DEF Shape, TypeOK
<1>3. TypeOK'
  BY <1>1, <1>2 DEF Shape, TypeOK, memory
<1>4. /\ job' \in Releasing /\ job' \notin Keeping /\ job' # << >>
      /\ \A k \in Kinds : NewOf[k] \notin Left' /\ FreeOf[k] \in Left'
  <2>1. job' \in Releasing /\ Left' = {"tear", "restore"} \cup Frees
    BY <1>1, Beginnings DEF Releasing, Left
  <2>2. job' \notin Keeping /\ job' # << >>
    BY <2>1, JobAdvances
  <2> QED BY <2>1, <2>2 DEF Kinds, NewOf, FreeOf, Frees
<1>5. JobShape'
  <2>1. p \in used'
    <3>1. p \in used
      BY <1>1, OwnedIsUsed
    <3> QED BY <1>1, <3>1 DEF memory
  <2> QED BY <1>1, <1>4, <2>1 DEF JobShape
<1>6. MappedAsLeft'
  <2>1. Left = {} /\ mapped' = mapped
    BY <1>1, Beginnings DEF Left, memory
  <2> QED BY <1>1, <1>4, <2>1 DEF Shape, MappedAsLeft
<1> QED BY <1>3, <1>5, <1>6 DEF Shape

(* An assignment to itself frees nothing.                                  *)
LEMMA ShapeKeepsOwn ==
  ASSUME Shape, NEW p, KeepsOwn(p),
         OneOwner', owns' \in [Objects -> Patches \cup {Null}], alive' \subseteq Objects
  PROVE  Shape'
<1>1. /\ p \in Patches /\ Owned(p) /\ job = << >>
      /\ job' = SelfAssignSteps /\ jobFor' = p
      /\ must' = [c \in Callers |-> must[c] \ {p}]
      /\ UNCHANGED <<callbacks, memory, at, page, ran, effects, may, crashed>>
      /\ \A q \in Patches : Owned(q)' <=> Owned(q)
  BY DEF KeepsOwn, Idle
<1>2. must' \in [Callers -> SUBSET Patches]
  BY <1>1 DEF Shape, TypeOK
<1>3. TypeOK'
  BY <1>1, <1>2 DEF Shape, TypeOK, memory
<1>4. /\ job' \in Keeping /\ job' \notin Releasing /\ job' # << >>
      /\ \A k \in Kinds : NewOf[k] \notin Left' /\ FreeOf[k] \notin Left'
  <2>1. job' \in Keeping /\ Left' = {"tear", "restore"}
    BY <1>1, Beginnings DEF Keeping, Left
  <2>2. job' \notin Releasing /\ job' # << >>
    BY <2>1, JobAdvances
  <2> QED BY <2>1, <2>2 DEF Kinds, NewOf, FreeOf
<1>5. JobShape'
  <2>1. p \in used'
    <3>1. p \in used
      BY <1>1, OwnedIsUsed
    <3> QED BY <1>1, <3>1 DEF memory
  <2> QED BY <1>1, <1>4, <2>1 DEF JobShape
<1>6. MappedAsLeft'
  <2>1. Left = {} /\ mapped' = mapped
    BY <1>1, Beginnings DEF Left, memory
  <2> QED BY <1>1, <1>4, <2>1 DEF Shape, MappedAsLeft
<1> QED BY <1>3, <1>5, <1>6 DEF Shape

(* A move is seen by the objects only.                                     *)
LEMMA ShapeRenames ==
  ASSUME Shape, Renames,
         OneOwner', owns' \in [Objects -> Patches \cup {Null}], alive' \subseteq Objects
  PROVE  Shape'
<1>1. /\ UNCHANGED <<callbacks, memory, job, jobFor, calls, crashed>>
      /\ \A q \in Patches : Owned(q)' <=> Owned(q)
  BY DEF Renames
<1>2. TypeOK'
  BY <1>1 DEF Shape, TypeOK, memory, calls
<1>3. JobShape'
  <2>1. job # << >> => jobFor \in Patches
    BY DEF Shape, JobShape, TypeOK
  <2>2. << >> \notin Keeping \cup Releasing
    BY JobAdvances
  <2> QED BY <1>1, <2>1, <2>2 DEF Shape, JobShape, memory
<1>4. MappedAsLeft'
  BY <1>1 DEF Shape, MappedAsLeft, Left, memory
<1> QED BY <1>2, <1>3, <1>4 DEF Shape
(* Calls and flags leave the owner's state and the memory alone.           *)
LEMMA ShapeElse ==
  ASSUME Shape, TypeOK', UNCHANGED <<mapped, used, owner>>
  PROVE  Shape'
<1>1. UNCHANGED <<mapped, used, alive, owns, job, jobFor>>
  BY DEF owner
<1>2. \A p : Owned(p)' <=> Owned(p)
  BY <1>1 DEF Owned
<1> QED BY <1>1, <1>2 DEF Shape, JobShape, OneOwner, MappedAsLeft, Left

LEMMA ShapeSetFlag ==
  ASSUME Shape, NEW o \in Objects, NEW on \in BOOLEAN, SetFlag(o, on)
  PROVE  Shape'
<1>1. UNCHANGED <<head, mapped, saved, empty, used, owner, at, page, ran, effects>>
  BY DEF SetFlag
<1>2. crashed' \in BOOLEAN
  BY DEF SetFlag, Shape, TypeOK
<1>3. owns[o] \in Patches \cup {Null}
  BY DEF Shape, TypeOK
<1>4. flag' \in [Patches -> BOOLEAN]
  BY <1>3 DEF SetFlag, Shape, TypeOK
<1>5. must' \in [Callers -> SUBSET Patches] /\ may' \in [Callers -> SUBSET Patches]
  BY <1>3 DEF SetFlag, Shape, TypeOK
<1>6. TypeOK'
  BY <1>1, <1>2, <1>4, <1>5 DEF Shape, TypeOK, owner
<1> QED BY <1>1, <1>6, ShapeElse

LEMMA ShapeCall ==
  ASSUME Shape, NEW c \in Callers, Call(c)
  PROVE  Shape'
<1>1. UNCHANGED <<memory, owner, crashed>>
  BY DEF Call
<1>2. Enabled \in SUBSET Patches
  BY DEF Enabled
<1>3. /\ at' = [at EXCEPT ![c] = "head"] /\ page' = [page EXCEPT ![c] = Null]
      /\ ran' = [ran EXCEPT ![c] = 0]
      /\ effects' = [effects EXCEPT ![c] = {}]
      /\ must' = [must EXCEPT ![c] = Enabled]
      /\ may' = [may EXCEPT ![c] = Enabled]
  BY DEF Call, GoesTo
<1>4. {effects, must, may}' \subseteq [Callers -> SUBSET Patches]
  BY <1>2, <1>3 DEF Shape, TypeOK
<1>5. TypeOK'
  BY <1>1, <1>3, <1>4 DEF Shape, TypeOK, memory, owner
<1> QED BY <1>1, <1>5, ShapeElse DEF memory

(* What a step of a call may do to where the call is.                      *)
Places == {"out", "head", "displaced", "trampoline", "check", "patch", "relocated", "body", "wild"}

LEMMA CallStepEffect ==
  ASSUME Shape, NEW c \in Callers, CallStep(c)
  PROVE  /\ UNCHANGED <<memory, owner, must, may, crashed>>
         /\ \E place \in Places, q \in Patches \cup {Null} :
              /\ at' = [at EXCEPT ![c] = place] /\ page' = [page EXCEPT ![c] = q]
              /\ \/ /\ ran' = ran
                    /\ place \in {"displaced", "trampoline"} => at[c] \in {"head", "relocated"}
                    /\ place \in {"check", "patch", "relocated"} =>
                         at[c] \in {"trampoline", "check", "patch"}
                    /\ place \notin {"head", "body"}
                 \/ /\ RunsDisplaced(c) /\ place = "body"
                    /\ at[c] \in {"displaced", "relocated"}
              /\ \/ effects' = effects
                 \/ /\ at[c] = "patch" /\ place = "relocated" /\ q = page[c] /\ q \in Patches
                    /\ effects' = [effects EXCEPT ![c] = @ \cup {q}]
<1>0. page[c] \in Patches \cup {Null} /\ Null \notin Patches
  BY PatchAssumption DEF Shape, TypeOK
<1>1. CASE ExecHead(c)
  <2>1. /\ at[c] = "head" /\ UNCHANGED <<ran, effects>>
        /\ \E place \in {"displaced", "wild", "trampoline"}, q \in Patches \cup {Null} :
             at' = [at EXCEPT ![c] = place] /\ page' = [page EXCEPT ![c] = q]
    <3>1. CASE head = Pristine
      BY <1>1, <3>1, PatchAssumption DEF ExecHead, GoesTo
    <3>2. CASE head # Pristine /\ head = Torn
      BY <1>1, <3>2, PatchAssumption DEF ExecHead, GoesTo
    <3>3. CASE head # Pristine /\ head # Torn
      BY <1>1, <3>3 DEF ExecHead, GoesTo
    <3> QED BY <3>1, <3>2, <3>3
  <2> QED BY <1>0, <2>1 DEF Places, CallStep
<1>2. CASE ExecDisplaced(c)
  BY <1>0, <1>2 DEF ExecDisplaced, GoesTo, Places, CallStep
<1>3. CASE ExecTrampoline(c)
  BY <1>0, <1>3 DEF ExecTrampoline, GoesTo, Places, CallStep
<1>4. CASE ExecCheck(c)
  BY <1>0, <1>4 DEF ExecCheck, GoesTo, Places, CallStep
<1>5. CASE ExecPatch(c)
  <2>1. Live({"code"}, page[c]) => page[c] \in Patches
    BY DEF Live, Shape, TypeOK
  <2> QED BY <1>0, <1>5, <2>1 DEF ExecPatch, GoesTo, Places, CallStep
<1>6. CASE ExecRelocated(c)
  BY <1>0, <1>6 DEF ExecRelocated, GoesTo, Places, CallStep, ReturnPoint
<1>7. CASE Return(c)
  BY <1>0, <1>7 DEF Return, GoesTo, Places, CallStep
<1> QED BY <1>1, <1>2, <1>3, <1>4, <1>5, <1>6, <1>7 DEF CallStep

LEMMA ShapeCallStep ==
  ASSUME Shape, NEW c \in Callers, CallStep(c)
  PROVE  Shape'
<1>1. UNCHANGED <<memory, owner, must, may, crashed>>
  BY CallStepEffect
<1>2. PICK place \in Places, q \in Patches \cup {Null} :
         /\ at' = [at EXCEPT ![c] = place] /\ page' = [page EXCEPT ![c] = q]
         /\ ran' = ran \/ RunsDisplaced(c)
         /\ \/ effects' = effects
            \/ q \in Patches /\ effects' = [effects EXCEPT ![c] = @ \cup {q}]
  BY CallStepEffect
<1>3. at' \in [Callers -> Places] /\ page' \in [Callers -> Patches \cup {Null}]
  BY <1>2 DEF Shape, TypeOK, Places
<1>4. ran' \in [Callers -> 0 .. 2]
  BY <1>2 DEF Shape, TypeOK, RunsDisplaced
<1>5. effects' \in [Callers -> SUBSET Patches]
  BY <1>2 DEF Shape, TypeOK
<1>6. TypeOK'
  BY <1>1, <1>3, <1>4, <1>5 DEF Shape, TypeOK, memory, owner, Places
<1> QED BY <1>1, <1>6, ShapeElse DEF memory

LEMMA ShapeStep ==
  ASSUME Shape, [Next]_pvars
  PROVE  Shape'
<1>1. CASE OwnerStep
  BY <1>1, ShapeOwnerStep
<1>2. ASSUME NEW o \in Objects, NEW p \in Patches, Construct(o, p)
      PROVE  Shape'
  BY <1>2, ShapeConstruct
<1>3. ASSUME NEW o \in Objects, ConstructFails(o)
      PROVE  Shape'
  BY <1>3, ShapeConstructFails
<1>4. ASSUME NEW o \in Objects, Destroy(o)
      PROVE  Shape'
  BY <1>4, DestroyEffect, ShapeRenames, ShapeGivesUp
<1>5. ASSUME NEW o \in Objects, NEW on \in BOOLEAN, SetFlag(o, on)
      PROVE  Shape'
  BY <1>5, ShapeSetFlag
<1>6. ASSUME NEW d \in Objects, NEW s \in Objects, MoveConstruct(d, s)
      PROVE  Shape'
  BY <1>6, MoveConstructEffect, ShapeRenames
<1>7. ASSUME NEW d \in Objects, NEW s \in Objects, MoveAssign(d, s)
      PROVE  Shape'
  BY <1>7, MoveAssignEffect, ShapeRenames, ShapeGivesUp, ShapeKeepsOwn
<1>8. ASSUME NEW c \in Callers, Call(c) \/ CallStep(c)
      PROVE  Shape'
  BY <1>8, ShapeCall, ShapeCallStep
<1>9. CASE UNCHANGED pvars
  <2>1. /\ UNCHANGED <<callbacks, alive, owns, job, jobFor>>
        /\ UNCHANGED <<head, mapped, flag, saved, empty, used>>
        /\ UNCHANGED <<at, page, ran, effects, must, may, crashed>>
    BY <1>9 DEF pvars, memory, owner, calls
  <2>2. TypeOK'
    BY <2>1 DEF Shape, TypeOK
  <2> QED BY <2>1, <2>2, ShapeElse DEF owner
<1> QED BY <1>1, <1>2, <1>3, <1>4, <1>5, <1>6, <1>7, <1>8, <1>9 DEF Next

(* The state of the patches is well formed, the memory mapped included:    *)
(* what the constructor, the destructor and operator= have yet to do with  *)
(* a patch is what its allocations say.                                    *)
THEOREM PatchTypeCorrect ==
  Spec => []TypeOK
<1>1. Init => Shape
  BY ShapeInit
<1>2. Shape /\ [Next]_pvars => Shape'
  BY ShapeStep
<1>3. Shape => TypeOK
  BY DEF Shape
<1> QED BY <1>1, <1>2, <1>3, PTL DEF Spec

(* Whatever the client does and whichever constructor throws, the memory   *)
(* of a patch is freed exactly when the patch has no owner any more (the   *)
(* unique_ptr members of InlinePatch and InlineCallback).                  *)
THEOREM MemoryFollowsOwnersAlways ==
  Spec => []MemoryFollowsOwners
<1>1. Init => Shape
  BY ShapeInit
<1>2. Shape /\ [Next]_pvars => Shape'
  BY ShapeStep
<1>3. Shape => MemoryFollowsOwners
  <2> SUFFICES ASSUME Shape, Idle
               PROVE  mapped = Kinds \X {owns[o] : o \in {p \in Objects : owns[p] # Null}}
    BY DEF MemoryFollowsOwners
  <2>1. Left = {}
    BY Beginnings DEF Idle, Left
  <2>2. \A p \in Patches, k \in Kinds : <<k, p>> \in mapped <=> Owned(p)
    BY <2>1 DEF Shape, MappedAsLeft
  <2>3. \A p \in Patches : Owned(p) <=> p \in {owns[o] : o \in {q \in Objects : owns[q] # Null}}
    BY PatchAssumption DEF Owned
  <2>4. {owns[o] : o \in {q \in Objects : owns[q] # Null}} \subseteq Patches
    BY DEF Shape, TypeOK
  <2>5. mapped \subseteq Kinds \X Patches
    BY DEF Shape, TypeOK
  <2> QED BY <2>2, <2>3, <2>4, <2>5
<1> QED BY <1>1, <1>2, <1>3, PTL DEF Spec

-----------------------------------------------------------------------------
(* The displaced instructions are run once, on the way to the body.        *)

LEMMA RunInit ==
  ASSUME Init
  PROVE  NothingRunYet
BY DEF Init, NothingRunYet, Inside

LEMMA RunStep ==
  ASSUME Shape, NothingRunYet, [Next]_pvars
  PROVE  NothingRunYet'
<1>1. ASSUME UNCHANGED <<at, ran>>
      PROVE  NothingRunYet'
  BY <1>1 DEF NothingRunYet
<1>2. ASSUME NEW c \in Callers, Call(c)
      PROVE  NothingRunYet'
  <2>1. at' = [at EXCEPT ![c] = "head"] /\ ran' = [ran EXCEPT ![c] = 0]
    BY <1>2 DEF Call, GoesTo
  <2>2. ran'[c] = 0 /\ at'[c] = "head"
    BY <2>1 DEF Shape, TypeOK
  <2>3. \A q \in Callers \ {c} : ran'[q] = ran[q] /\ at'[q] = at[q]
    BY <2>1 DEF Shape, TypeOK
  <2> QED BY <2>2, <2>3 DEF NothingRunYet
<1>3. ASSUME NEW c \in Callers, CallStep(c)
      PROVE  NothingRunYet'
  <2>1. PICK place \in Places :
          /\ at' = [at EXCEPT ![c] = place]
          /\ \/ /\ ran' = ran
                /\ place \in {"displaced", "trampoline"} => at[c] \in {"head", "relocated"}
                /\ place \in {"check", "patch", "relocated"} =>
                     at[c] \in {"trampoline", "check", "patch"}
                /\ place \notin {"head", "body"}
             \/ /\ RunsDisplaced(c) /\ place = "body"
                /\ at[c] \in {"displaced", "relocated"}
    BY <1>3, CallStepEffect
  <2>2. at'[c] = place /\ \A q \in Callers \ {c} : ran'[q] = ran[q] /\ at'[q] = at[q]
    BY <2>1 DEF Shape, TypeOK, RunsDisplaced
  <2>3. CASE ran' = ran /\ place \notin {"head", "body"}
             /\ (place \in {"displaced", "trampoline"} => at[c] \in {"head", "relocated"})
             /\ (place \in {"check", "patch", "relocated"} =>
                     at[c] \in {"trampoline", "check", "patch"})
    BY <2>2, <2>3 DEF NothingRunYet, Inside
  <2>4. CASE RunsDisplaced(c) /\ place = "body" /\ at[c] \in {"displaced", "relocated"}
    <3>1. ran[c] = 0
      BY <2>4 DEF NothingRunYet, Inside
    <3>2. ran'[c] = 1
      BY <2>4, <3>1 DEF RunsDisplaced, Shape, TypeOK
    <3> QED BY <2>2, <2>4, <3>2 DEF NothingRunYet, Inside
  <2> QED BY <2>1, <2>3, <2>4
<1>4. ASSUME UNCHANGED calls
      PROVE  NothingRunYet'
  BY <1>1, <1>4 DEF calls
<1>5. CASE OwnerStep
  BY <1>4, <1>5 DEF OwnerStep
<1>6. ASSUME NEW o \in Objects, NEW p \in Patches, Construct(o, p)
      PROVE  NothingRunYet'
  BY <1>4, <1>6 DEF Construct
<1>7. ASSUME NEW o \in Objects, ConstructFails(o)
      PROVE  NothingRunYet'
  BY <1>4, <1>7 DEF ConstructFails
<1>8. ASSUME NEW o \in Objects, Destroy(o)
      PROVE  NothingRunYet'
  BY <1>1, <1>4, <1>8 DEF Destroy, Begin
<1>9. ASSUME NEW o \in Objects, NEW on \in BOOLEAN, SetFlag(o, on)
      PROVE  NothingRunYet'
  BY <1>1, <1>9 DEF SetFlag
<1>10. ASSUME NEW d \in Objects, NEW s \in Objects, MoveConstruct(d, s) \/ MoveAssign(d, s)
       PROVE  NothingRunYet'
  BY <1>1, <1>4, <1>10 DEF MoveConstruct, MoveAssign, Begin
<1>11. CASE UNCHANGED pvars
  <2>1. UNCHANGED calls
    BY <1>11 DEF pvars
  <2> QED BY <1>4, <2>1
<1> QED BY <1>2, <1>3, <1>5, <1>6, <1>7, <1>8, <1>9, <1>10, <1>11 DEF Next

(* Every call runs the displaced instructions exactly once before it is in *)
(* the function's body, through however many patches it comes and whatever *)
(* becomes of them meanwhile (the "return:" part of the generated code).   *)
THEOREM DisplacedRunOnceAlways ==
  Spec => []DisplacedRunOnce
<1>1. Init => Shape /\ NothingRunYet
  BY ShapeInit, RunInit
<1>2. Shape /\ NothingRunYet /\ [Next]_pvars => (Shape /\ NothingRunYet)'
  BY ShapeStep, RunStep
<1>3. NothingRunYet => DisplacedRunOnce
  BY DEF NothingRunYet, DisplacedRunOnce
<1> QED BY <1>1, <1>2, <1>3, PTL DEF Spec
-----------------------------------------------------------------------------
(* What the function starts with, and what was displaced, stays in place:  *)
(* nothing is released while the start of the function, or another patch,  *)
(* still leads to it.                                                      *)

(* Between operations the function starts with something that stands.      *)
LEMMA IdleHeadStands ==
  ASSUME HeadStands, job = << >>
  PROVE  Standing(head)
<1>1. Left = {}
  BY Beginnings DEF Left
<1> QED BY <1>1 DEF HeadStands

LEMMA StandInit ==
  ASSUME Init
  PROVE  StandInv
<1>1. Left = {}
  BY Beginnings DEF Init, Left
<1>2. SavedStand /\ HeadStands /\ NewIsUnseen
  BY <1>1 DEF Init, SavedStand, HeadStands, NewIsUnseen, Standing
<1> QED BY <1>2, ShapeInit DEF Init, StandInv

(* A jmp is written over what the patch has saved, and is taken back by    *)
(* writing that again.                                                     *)
LEMMA StandOwnerStep ==
  ASSUME StandInv, OwnerStep, "fits_page" \in ClientRules
  PROVE  StandInv'
<1>1. /\ job \in Releasing \cup Keeping /\ jobFor \in Patches
      /\ Head(job) \in Left /\ Left' = Left \ {Head(job)}
      /\ Effect(Head(job), jobFor)
      /\ UNCHANGED <<callbacks, used, alive, owns, jobFor, calls, crashed>>
      /\ \A q : Owned(q)' <=> Owned(q)
  BY OwnerStepEffect DEF StandInv
<1>2. job' = Tail(job) /\ job # << >>
  BY DEF OwnerStep
<1>3. /\ Shape' /\ Head(job) \in StepNames
      /\ saved \in [Patches -> Patches \cup {Pristine, Torn}]
      /\ jobFor \in used
  BY <1>1, JobAdvances, ShapeOwnerStep DEF StandInv, Shape, TypeOK, JobShape
<1>4. /\ Head(job) = "tear" => job' # << >> /\ Head(job') \in {"jump", "restore"}
      /\ {"newFlag", "newCode", "newTrampoline", "jump"} \cap Left # {}
           => /\ job \in ConstructRest
              /\ "jump" \in Left /\ "restore" \notin Left
      /\ Head(job) = "jump" => Left' = {}
      /\ Left \cap (Frees \cup {"restore"}) # {} => "jump" \notin Left
  <2>1. Head(job) = "jump" => Left' = {}
    BY <1>1, <1>2, JobAdvances, Beginnings DEF Left
  <2>2. job \in ConstructRest => Left \cap (Frees \cup {"restore"}) = {}
    BY ConstructAdvances DEF Left
  <2> QED BY <1>1, <1>2, <2>1, <2>2, JobAdvances DEF Left
<1>5. empty' = {}
  BY <1>1 DEF Effect, Written, StandInv
<1>6. \A x : Standing(x)' <=> Standing(x)
  BY <1>1 DEF Standing
<1>7. ASSUME UNCHANGED <<head, saved>>, Head(job) \notin {"tear", "jump", "restore"}
      PROVE  StandInv'
  <2>1. SavedStand'
    BY <1>1, <1>6, <1>7 DEF StandInv, SavedStand
  <2>2. NewIsUnseen'
    BY <1>1, <1>7 DEF StandInv, NewIsUnseen
  <2>3. HeadStands'
    BY <1>1, <1>6, <1>7 DEF StandInv, HeadStands
  <2> QED BY <1>3, <1>5, <2>1, <2>2, <2>3 DEF StandInv
<1>8. CASE Head(job) \in {"newFlag", "newTrampoline"} \cup Frees
  BY <1>1, <1>7, <1>8 DEF Effect, Frees
<1>9. CASE Head(job) = "newCode"
  <2>1. head' = head /\ saved' = [saved EXCEPT ![jobFor] = head]
    BY <1>1, <1>9 DEF Effect
  <2>2. "restore" \notin Left /\ "jump" \in Left
    BY <1>1, <1>4, <1>9
  <2>3. Standing(head)
    BY <1>9, <2>2 DEF StandInv, HeadStands
  <2>4. SavedStand'
    BY <1>1, <1>3, <1>6, <2>1, <2>2, <2>3 DEF StandInv, SavedStand
  <2>5. NewIsUnseen'
    BY <1>1, <1>3, <2>1, <2>2 DEF StandInv, NewIsUnseen
  <2>6. HeadStands'
    BY <1>6, <2>1, <2>3 DEF HeadStands
  <2> QED BY <1>3, <1>5, <2>4, <2>5, <2>6 DEF StandInv
<1>10. CASE Head(job) = "tear"
  <2>1. head' = Torn /\ saved' = saved
    BY <1>1, <1>10 DEF Effect
  <2>2. SavedStand'
    BY <1>1, <1>6, <2>1 DEF StandInv, SavedStand
  <2>3. NewIsUnseen'
    BY <1>1, <2>1, PatchAssumption DEF StandInv, NewIsUnseen
  <2>4. HeadStands'
    BY <1>4, <1>10, <2>1 DEF HeadStands
  <2> QED BY <1>3, <1>5, <2>2, <2>3, <2>4 DEF StandInv
<1>11. CASE Head(job) = "jump"
  <2>1. head' = jobFor /\ saved' = saved /\ Left' = {}
    BY <1>1, <1>4, <1>11 DEF Effect
  <2>2. Owned(jobFor)
    BY <1>1, <1>4, <1>11 DEF StandInv, Shape, JobShape, Keeping
  <2>3. SavedStand'
    BY <1>1, <1>6, <2>1 DEF StandInv, SavedStand
  <2>4. NewIsUnseen'
    BY <2>1 DEF NewIsUnseen
  <2>5. HeadStands'
    BY <1>1, <1>6, <2>1, <2>2 DEF HeadStands, Standing
  <2> QED BY <1>3, <1>5, <2>3, <2>4, <2>5 DEF StandInv
<1>12. CASE Head(job) = "restore"
  <2>1. head' = saved[jobFor] /\ saved' = saved /\ "jump" \notin Left'
    BY <1>1, <1>4, <1>12 DEF Effect
  <2>2. Standing(saved[jobFor])
    BY <1>1, <1>12 DEF StandInv, SavedStand
  <2>3. SavedStand'
    BY <1>1, <1>6, <2>1 DEF StandInv, SavedStand
  <2>4. NewIsUnseen'
    BY <2>1 DEF NewIsUnseen
  <2>5. HeadStands'
    BY <1>6, <2>1, <2>2 DEF HeadStands
  <2> QED BY <1>3, <1>5, <2>3, <2>4, <2>5 DEF StandInv
<1> QED BY <1>3, <1>8, <1>9, <1>10, <1>11, <1>12 DEF StepNames

(* Nothing leads to a patch that is only being made.                       *)
LEMMA StandConstruct ==
  ASSUME StandInv, NEW o \in Objects, NEW p \in Patches, Construct(o, p)
  PROVE  StandInv'
<1>1. \A q \in Patches : Owned(q)' <=> Owned(q) \/ q = p
  BY ConstructEffect DEF StandInv
<1>2. /\ job = << >> /\ job' = ConstructSteps /\ jobFor' = p
      /\ p \notin used /\ used' = used \cup {p}
      /\ UNCHANGED <<head, mapped, flag, saved, empty, calls, crashed>>
  BY DEF Construct, Idle
<1>3. Standing(head) /\ Left' = {"newFlag", "newCode", "newTrampoline", "tear", "jump"}
  BY <1>2, IdleHeadStands, Beginnings DEF StandInv, Left
<1>4. \A x : Standing(x) => Standing(x)' /\ x # p
  BY <1>1, <1>2, OwnedIsUsed, PatchAssumption DEF Standing, StandInv
<1>5. saved[p] = Pristine
  BY <1>2 DEF StandInv, SavedStand
<1>6. SavedStand'
  BY <1>1, <1>2, <1>3, <1>4, <1>5 DEF StandInv, SavedStand, Standing
<1>7. HeadStands'
  BY <1>2, <1>3, <1>4 DEF HeadStands
<1>8. NewIsUnseen'
  BY <1>1, <1>2, <1>3, <1>4, <1>5, PatchAssumption DEF StandInv, SavedStand, NewIsUnseen
<1> QED BY <1>2, <1>6, <1>7, <1>8, ShapeConstruct DEF StandInv

(* Nor to one whose constructor throws before it wrote its jmp.            *)
LEMMA StandConstructFails ==
  ASSUME StandInv, NEW o \in Objects, ConstructFails(o), "jump" \notin Failing
  PROVE  StandInv'
<1>1. /\ job \in ConstructRest /\ jobFor \in Patches /\ Owned(jobFor)
      /\ \A q \in Patches : Owned(q)' <=> Owned(q) /\ q # jobFor
  BY ConstructFailsEffect DEF StandInv
<1>2. /\ Head(job) # "jump" /\ head' = head
      /\ job' = Unwound(Head(job)) /\ jobFor' = jobFor
      /\ UNCHANGED <<saved, empty, used>>
  BY DEF ConstructFails
<1>3. "jump" \in Left /\ "restore" \notin Left /\ Head(job) \in Left
  BY <1>1, ConstructAdvances DEF Left, Advances, Frees
<1>4. Left' \subseteq Frees
  BY <1>1, <1>2, UnwoundFreesMade, UnwindAdvances, Beginnings DEF Left
<1>5. \A x : Standing(x) /\ x # jobFor => Standing(x)'
  BY <1>1 DEF Standing
<1>6. SavedStand'
  BY <1>1, <1>2, <1>3, <1>4, <1>5 DEF StandInv, SavedStand, NewIsUnseen, Frees
<1>7. HeadStands'
  BY <1>2, <1>3, <1>5 DEF StandInv, HeadStands, NewIsUnseen
<1>8. NewIsUnseen'
  BY <1>4 DEF NewIsUnseen, Frees
<1> QED BY <1>2, <1>6, <1>7, <1>8, ShapeConstructFails DEF StandInv

(* No patch leads to one that is released.                                 *)
LEMMA NothingAbove ==
  ASSUME StandInv, NEW p, Releasable(p), "nested" \in ClientRules
  PROVE  \A q \in Patches : Owned(q) => saved[q] # p
BY PatchAssumption DEF Releasable, Owned

LEMMA StandGivesUp ==
  ASSUME StandInv, NEW p, GivesUp(p), Shape', "nested" \in ClientRules
  PROVE  StandInv'
<1>1. /\ p \in Patches /\ Owned(p) /\ job = << >>
      /\ job' \in {DestroySteps, AssignSteps} /\ jobFor' = p
      /\ UNCHANGED <<head, saved, empty, used>>
      /\ \A q \in Patches : Owned(q)' <=> Owned(q) /\ q # p
  BY DEF GivesUp, Idle, memory
<1>2. Standing(head) /\ Left' = {"tear", "restore"} \cup Frees
  BY <1>1, IdleHeadStands, Beginnings DEF StandInv, Left
<1>3. \A x : Standing(x) /\ x # p => Standing(x)'
  BY <1>1 DEF Standing
<1>4. \A q \in Patches : Owned(q) => saved[q] # p
  BY NothingAbove DEF GivesUp
<1>5. SavedStand'
  BY <1>1, <1>3, <1>4 DEF StandInv, SavedStand
<1>6. HeadStands'
  BY <1>1, <1>2, <1>3 DEF HeadStands
<1>7. NewIsUnseen'
  BY <1>2 DEF NewIsUnseen, Frees
<1> QED BY <1>1, <1>5, <1>6, <1>7 DEF StandInv

LEMMA StandKeepsOwn ==
  ASSUME StandInv, NEW p, KeepsOwn(p), Shape'
  PROVE  StandInv'
<1>1. /\ p \in Patches /\ Owned(p) /\ job = << >>
      /\ job' = SelfAssignSteps /\ jobFor' = p
      /\ UNCHANGED <<head, saved, empty, used>>
      /\ \A q \in Patches : Owned(q)' <=> Owned(q)
  BY DEF KeepsOwn, Idle, memory
<1>2. Standing(head) /\ Left' = {"tear", "restore"}
  BY <1>1, IdleHeadStands, Beginnings DEF StandInv, Left
<1>3. \A x : Standing(x)' <=> Standing(x)
  BY <1>1 DEF Standing
<1>4. SavedStand' /\ HeadStands' /\ NewIsUnseen'
  BY <1>1, <1>2, <1>3 DEF StandInv, SavedStand, HeadStands, NewIsUnseen
<1> QED BY <1>1, <1>4 DEF StandInv

(* Moves, flags and calls leave what leads where alone.                    *)
LEMMA StandElse ==
  ASSUME StandInv, Shape', UNCHANGED <<head, saved, empty, used, job, jobFor>>,
         \A q \in Patches : Owned(q)' <=> Owned(q)
  PROVE  StandInv'
<1>1. \A x : Standing(x)' <=> Standing(x)
  BY DEF Standing
<1>2. Left' = Left
  BY DEF Left
<1>3. SavedStand' /\ HeadStands' /\ NewIsUnseen'
  BY <1>1, <1>2 DEF StandInv, SavedStand, HeadStands, NewIsUnseen
<1> QED BY <1>3 DEF StandInv

LEMMA StandStep ==
  ASSUME StandInv, [Next]_pvars,
         {"nested", "fits_page"} \subseteq ClientRules, "jump" \notin Failing
  PROVE  StandInv'
<1>1. Shape /\ Shape'
  BY ShapeStep DEF StandInv
<1>2. CASE OwnerStep
  BY <1>2, StandOwnerStep
<1>3. ASSUME NEW o \in Objects, NEW p \in Patches, Construct(o, p)
      PROVE  StandInv'
  BY <1>3, StandConstruct
<1>4. ASSUME NEW o \in Objects, ConstructFails(o)
      PROVE  StandInv'
  BY <1>4, StandConstructFails
<1>5. ASSUME Renames
      PROVE  StandInv'
  BY <1>1, <1>5, StandElse DEF Renames, memory
<1>6. ASSUME NEW o \in Objects, Destroy(o)
      PROVE  StandInv'
  BY <1>1, <1>5, <1>6, DestroyEffect, StandGivesUp
<1>7. ASSUME NEW d \in Objects, NEW s \in Objects, MoveConstruct(d, s)
      PROVE  StandInv'
  BY <1>1, <1>5, <1>7, MoveConstructEffect
<1>8. ASSUME NEW d \in Objects, NEW s \in Objects, MoveAssign(d, s)
      PROVE  StandInv'
  BY <1>1, <1>5, <1>8, MoveAssignEffect, StandGivesUp, StandKeepsOwn
<1>9. ASSUME UNCHANGED <<head, saved, empty, used, owner>>
      PROVE  StandInv'
  BY <1>1, <1>9, StandElse DEF owner, Owned
<1>10. ASSUME NEW o \in Objects, NEW on \in BOOLEAN, SetFlag(o, on)
       PROVE  StandInv'
  BY <1>9, <1>10 DEF SetFlag
<1>11. ASSUME NEW c \in Callers, Call(c) \/ CallStep(c)
       PROVE  StandInv'
  BY <1>9, <1>11 DEF Call, CallStep, memory
<1>12. CASE UNCHANGED pvars
  BY <1>9, <1>12 DEF pvars, memory
<1> QED BY <1>2, <1>3, <1>4, <1>6, <1>7, <1>8, <1>10, <1>11, <1>12 DEF Next
-----------------------------------------------------------------------------
(* Calls stay in memory that stands.                                       *)

(* A patch that has an owner between operations has all its memory.        *)
LEMMA OwnedIsLive ==
  ASSUME Shape, job = << >>, NEW p \in Patches, Owned(p), NEW kinds \in SUBSET Kinds
  PROVE  Live(kinds, p)
<1>1. Left = {}
  BY Beginnings DEF Left
<1> QED BY <1>1 DEF Shape, MappedAsLeft, Live

(* Where a step of a call leads while no operation is in progress.         *)
LEMMA CallStepStands ==
  ASSUME WildInv, NEW c \in Callers, CallStep(c), job = << >>
  PROVE  \E place \in Places, q \in Patches \cup {Null} :
            /\ at' = [at EXCEPT ![c] = place] /\ page' = [page EXCEPT ![c] = q]
            /\ place # "wild"
            /\ place = "displaced" => head = Pristine
            /\ place \in Inside => q \in Patches /\ Owned(q)
<1>1. /\ Shape /\ Standing(head) /\ empty = {}
      /\ at[c] \in Inside => page[c] \in Patches /\ Owned(page[c])
  BY IdleHeadStands DEF WildInv, StandInv, CallersSafe
<1>2. at[c] \in Inside => Live({"trampoline"}, page[c]) /\ Live({"code", "flag"}, page[c])
                          /\ Live({"code"}, page[c])
  BY <1>1, OwnedIsLive DEF Kinds
<1>3. page[c] \in Patches \cup {Null} /\ Null \notin Patches
  BY PatchAssumption DEF StandInv, Shape, TypeOK, WildInv
<1>4. CASE ExecHead(c)
  <2>1. CASE head = Pristine
    BY <1>1, <1>4, <2>1, PatchAssumption DEF ExecHead, GoesTo, Places, Inside
  <2>2. CASE head # Pristine
    BY <1>1, <1>4, <2>2, PatchAssumption DEF ExecHead, GoesTo, Places, Inside, Standing
  <2> QED BY <2>1, <2>2
<1>5. CASE ExecDisplaced(c)
  <2>1. head = Pristine
    BY <1>5 DEF ExecDisplaced, WildInv, CallersSafe
  <2> QED BY <1>5, <2>1 DEF ExecDisplaced, GoesTo, Places, Inside
<1>6. CASE ExecTrampoline(c)
  BY <1>1, <1>2, <1>6 DEF ExecTrampoline, GoesTo, Places, Inside
<1>7. CASE ExecCheck(c)
  BY <1>1, <1>2, <1>7 DEF ExecCheck, GoesTo, Places, Inside
<1>8. CASE ExecPatch(c)
  BY <1>1, <1>2, <1>8 DEF ExecPatch, GoesTo, Places, Inside
<1>9. CASE ExecRelocated(c)
  <2>1. page[c] \in Patches /\ Owned(page[c])
    BY <1>1, <1>9 DEF ExecRelocated, Inside
  <2>2. Standing(saved[page[c]])
    BY <2>1 DEF WildInv, StandInv, SavedStand
  <2>3. Live({"code"}, page[c])
    BY <1>2, <1>9 DEF ExecRelocated, Inside
  <2>4. CASE saved[page[c]] \in Patches
    <3>1. Owned(saved[page[c]])
      BY <2>2, <2>4, PatchAssumption DEF Standing
    <3>2. at' = [at EXCEPT ![c] = "trampoline"] /\ page' = [page EXCEPT ![c] = saved[page[c]]]
      BY <1>9, <2>3, <2>4 DEF ExecRelocated, GoesTo
    <3> QED BY <2>4, <3>1, <3>2 DEF Places, Inside
  <2>5. CASE saved[page[c]] \notin Patches
    <3>1. at' = [at EXCEPT ![c] = "body"] /\ page' = [page EXCEPT ![c] = Null]
      BY <1>9, <2>3, <2>5 DEF ExecRelocated, GoesTo, ReturnPoint
    <3> QED BY <3>1 DEF Places, Inside
  <2> QED BY <2>4, <2>5
<1>10. CASE Return(c)
  BY <1>10 DEF Return, GoesTo, Places, Inside
<1> QED BY <1>4, <1>5, <1>6, <1>7, <1>8, <1>9, <1>10 DEF CallStep

LEMMA WildInit ==
  ASSUME Init
  PROVE  WildInv
BY StandInit DEF Init, WildInv, CallersSafe, Inside

(* An operation begins only where no call is inside, and no call moves     *)
(* while it is in progress.                                                *)
LEMMA WildStep ==
  ASSUME WildInv, [Next]_pvars,
         {"suspended", "nested", "fits_page"} \subseteq ClientRules, "jump" \notin Failing
  PROVE  WildInv'
<1>1. StandInv /\ StandInv'
  BY StandStep DEF WildInv
<1> SUFFICES CallersSafe'
  BY <1>1 DEF WildInv
<1>2. ASSUME UNCHANGED <<at, page>>, \A c \in Callers : at[c] \in {"out", "head", "body"}
      PROVE  CallersSafe'
  BY <1>2 DEF CallersSafe, Inside
<1>3. ASSUME UNCHANGED <<at, page, head, job>>, \A q \in Patches : Owned(q)' <=> Owned(q)
      PROVE  CallersSafe'
  BY <1>3 DEF WildInv, CallersSafe
<1>4. Quiet => \A c \in Callers : at[c] \in {"out", "head", "body"}
  BY DEF Quiet
<1>5. job # << >> => \A c \in Callers : at[c] \in {"out", "head", "body"}
  BY DEF WildInv, CallersSafe
<1>6. CASE OwnerStep
  <2>1. job # << >> /\ UNCHANGED <<at, page>>
    BY <1>6 DEF OwnerStep, calls
  <2> QED BY <1>2, <1>5, <2>1
<1>7. ASSUME NEW o \in Objects, NEW p \in Patches, Construct(o, p)
      PROVE  CallersSafe'
  BY <1>2, <1>4, <1>7 DEF Construct, calls
<1>8. ASSUME NEW o \in Objects, ConstructFails(o)
      PROVE  CallersSafe'
  BY <1>2, <1>5, <1>8 DEF ConstructFails, Constructing, calls
<1>9. ASSUME Renames
      PROVE  CallersSafe'
  BY <1>3, <1>9 DEF Renames, memory, calls
<1>10. ASSUME NEW p, GivesUp(p) \/ KeepsOwn(p)
       PROVE  CallersSafe'
  BY <1>2, <1>4, <1>10 DEF GivesUp, KeepsOwn
<1>11. ASSUME NEW o \in Objects, Destroy(o)
       PROVE  CallersSafe'
  BY <1>1, <1>9, <1>10, <1>11, DestroyEffect DEF StandInv
<1>12. ASSUME NEW d \in Objects, NEW s \in Objects, MoveConstruct(d, s) \/ MoveAssign(d, s)
       PROVE  CallersSafe'
  BY <1>1, <1>9, <1>10, <1>12, MoveConstructEffect, MoveAssignEffect DEF StandInv
<1>13. ASSUME NEW o \in Objects, NEW on \in BOOLEAN, SetFlag(o, on)
       PROVE  CallersSafe'
  BY <1>3, <1>13 DEF SetFlag, owner, Owned
<1>14. ASSUME NEW c \in Callers, NEW place \in Places, NEW q \in Patches \cup {Null}, job = << >>,
              UNCHANGED <<memory, owner>>,
              at' = [at EXCEPT ![c] = place], page' = [page EXCEPT ![c] = q],
              place # "wild",
              place = "displaced" => head = Pristine,
              place \in Inside => q \in Patches /\ Owned(q)
       PROVE  CallersSafe'
  <2>1. UNCHANGED <<head, owns, job>> /\ \A p : Owned(p)' <=> Owned(p)
    BY <1>14 DEF memory, owner, Owned
  <2>2. /\ at'[c] = place /\ page'[c] = q
        /\ \A e \in Callers \ {c} : at'[e] = at[e] /\ page'[e] = page[e]
    BY <1>1, <1>14 DEF StandInv, Shape, TypeOK
  <2> QED BY <1>14, <2>1, <2>2 DEF WildInv, CallersSafe
<1>15. ASSUME NEW c \in Callers, Call(c)
       PROVE  CallersSafe'
  <2>1. job = << >> /\ UNCHANGED <<memory, owner>>
        /\ at' = [at EXCEPT ![c] = "head"] /\ page' = [page EXCEPT ![c] = Null]
    BY <1>15 DEF Call, Runs, Idle, GoesTo
  <2> QED BY <1>14, <2>1 DEF Places, Inside
<1>16. ASSUME NEW c \in Callers, CallStep(c)
       PROVE  CallersSafe'
  <2>1. job = << >> /\ UNCHANGED <<memory, owner>>
    BY <1>16 DEF CallStep, Runs, Idle
  <2> QED BY <1>14, <1>16, <2>1, CallStepStands
<1>17. CASE UNCHANGED pvars
  <2>1. UNCHANGED <<at, page, head, job, owns>>
    BY <1>17 DEF pvars, memory, owner, calls
  <2>2. \A q \in Patches : Owned(q)' <=> Owned(q)
    BY <2>1 DEF Owned
  <2> QED BY <1>3, <2>1, <2>2
<1> QED BY <1>6, <1>7, <1>8, <1>11, <1>12, <1>13, <1>15, <1>16, <1>17 DEF Next

(* No call executes memory that was freed, a half written jmp or the       *)
(* inside of one, however it is interleaved with flags, stacking, moves,   *)
(* releases and constructors that throw, if the client makes and releases  *)
(* patches only while calls are suspended outside of them, releases them   *)
(* in reverse order and patches in no more than a page, and if it is not   *)
(* protecting the function again that fails (the constructor, destructor   *)
(* and operator= of InlinePatch).                                          *)
THEOREM NoWildExecutionEver ==
  ASSUME {"suspended", "nested", "fits_page"} \subseteq ClientRules, "jump" \notin Failing
  PROVE  Spec => []NoWildExecution
<1>1. Init => WildInv
  BY WildInit
<1>2. WildInv /\ [Next]_pvars => WildInv'
  BY WildStep
<1>3. WildInv => NoWildExecution
  BY DEF WildInv, CallersSafe, NoWildExecution
<1> QED BY <1>1, <1>2, <1>3, PTL DEF Spec
-----------------------------------------------------------------------------
(* What is known of the flags.                                             *)

LEMMA FlagsInit ==
  ASSUME Init
  PROVE  FlagsKnown
<1>1. Left = {} /\ Enabled = {}
  BY Beginnings DEF Init, Left, Enabled
<1>2. /\ flag = [p \in Patches |-> FALSE] /\ at = [c \in Callers |-> "out"]
      /\ must = [c \in Callers |-> {}] /\ effects = [c \in Callers |-> {}]
  BY DEF Init
<1> QED BY <1>1, <1>2 DEF FlagsKnown

(* The parts of FlagsKnown that are about calls, while none of them moves: *)
(* they last if no patch is newly enabled, and none a call must run is     *)
(* disabled or loses its owner.                                            *)
LEMMA FlagsOfCalls ==
  ASSUME FlagsKnown, Shape,
         UNCHANGED <<at, page, effects, may>>,
         \A c \in Callers : must'[c] \subseteq must[c],
         \A c \in Callers : \A p \in must'[c] : flag'[p] /\ Owned(p)',
         Enabled' \subseteq Enabled,
         \A p \in Patches \ used' : ~flag'[p],
         "jump" \in Left' => ~flag'[jobFor']
  PROVE  FlagsKnown'
BY DEF FlagsKnown

(* Enabled is what is set and owned.                                       *)
LEMMA EnabledOwned ==
  /\ \A p : p \in Enabled <=> p \in Patches /\ flag[p] /\ Owned(p)
  /\ \A p : p \in Enabled' <=> p \in Patches /\ flag'[p] /\ Owned(p)'
BY DEF Enabled, Owned

LEMMA FlagsOwnerStep ==
  ASSUME WildInv, FlagsKnown, OwnerStep
  PROVE  FlagsKnown'
<1>0. Shape
  BY DEF WildInv, StandInv
<1>1. /\ job \in Releasing \cup Keeping /\ jobFor \in Patches
      /\ Head(job) \in Left /\ Left' = Left \ {Head(job)}
      /\ Effect(Head(job), jobFor)
      /\ UNCHANGED <<used, alive, owns, jobFor>>
      /\ UNCHANGED <<at, page, effects, may, must>>
      /\ \A q : Owned(q)' <=> Owned(q)
  BY <1>0, OwnerStepEffect DEF calls
<1>2. \/ flag' = flag
      \/ /\ flag' = [flag EXCEPT ![jobFor] = FALSE]
         /\ Head(job) = "newFlag"
  BY <1>1 DEF Effect, InitialFlag
<1>3. Head(job) = "newFlag" => ~flag[jobFor]
  BY <1>1, JobAdvances DEF FlagsKnown, Left
<1>4. flag' = flag
  <2>1. flag \in [Patches -> BOOLEAN]
    BY <1>0 DEF Shape, TypeOK
  <2>2. Head(job) = "newFlag" => flag[jobFor] = FALSE
    BY <1>1, <1>3, <2>1
  <2>3. flag[jobFor] = FALSE => [flag EXCEPT ![jobFor] = FALSE] = flag
    BY <1>1, <2>1
  <2> QED BY <1>2, <2>2, <2>3
<1>5. Enabled' \subseteq Enabled
  BY <1>1, <1>4, EnabledOwned
<1>6. \A c \in Callers : \A p \in must'[c] : flag'[p] /\ Owned(p)'
  BY <1>1, <1>4 DEF FlagsKnown
<1>7. /\ \A p \in Patches \ used' : ~flag'[p]
      /\ "jump" \in Left' => ~flag'[jobFor']
  BY <1>1, <1>4 DEF FlagsKnown
<1> QED BY <1>0, <1>1, <1>5, <1>6, <1>7, FlagsOfCalls

LEMMA FlagsConstruct ==
  ASSUME WildInv, FlagsKnown, NEW o \in Objects, NEW p \in Patches, Construct(o, p)
  PROVE  FlagsKnown'
<1>0. Shape
  BY DEF WildInv, StandInv
<1>1. \A q \in Patches : Owned(q)' <=> Owned(q) \/ q = p
  BY <1>0, ConstructEffect
<1>2. /\ p \notin used /\ used' = used \cup {p} /\ jobFor' = p
      /\ UNCHANGED <<flag, at, page, effects, may, must>>
  BY DEF Construct, calls
<1>3. ~flag[p]
  BY <1>2 DEF FlagsKnown
<1>4. Enabled' \subseteq Enabled
  BY <1>1, <1>2, <1>3, EnabledOwned
<1>5. \A c \in Callers : \A q \in must'[c] : flag'[q] /\ Owned(q)'
  BY <1>0, <1>1, <1>2 DEF FlagsKnown, Shape, TypeOK
<1>6. /\ \A q \in Patches \ used' : ~flag'[q]
      /\ "jump" \in Left' => ~flag'[jobFor']
  BY <1>2, <1>3 DEF FlagsKnown
<1> QED BY <1>0, <1>2, <1>4, <1>5, <1>6, FlagsOfCalls

LEMMA FlagsConstructFails ==
  ASSUME WildInv, FlagsKnown, NEW o \in Objects, ConstructFails(o)
  PROVE  FlagsKnown'
<1>0. Shape
  BY DEF WildInv, StandInv
<1>1. /\ job \in ConstructRest /\ jobFor \in Patches /\ Owned(jobFor)
      /\ \A q \in Patches : Owned(q)' <=> Owned(q) /\ q # jobFor
  BY <1>0, ConstructFailsEffect
<1>2. /\ job' = Unwound(Head(job))
      /\ UNCHANGED <<used, flag, at, page, effects, may, must>>
  BY DEF ConstructFails, calls
<1>3. "jump" \in Left /\ ~flag[jobFor]
  BY <1>1, ConstructAdvances DEF FlagsKnown, Left
<1>4. "jump" \notin Left'
  BY <1>1, <1>2, UnwoundFreesMade, UnwindAdvances, Beginnings DEF Left, Frees
<1>5. Enabled' \subseteq Enabled
  BY <1>1, <1>2, EnabledOwned
<1>6. \A c \in Callers : \A q \in must'[c] : flag'[q] /\ Owned(q)'
  BY <1>0, <1>1, <1>2, <1>3 DEF FlagsKnown, Shape, TypeOK
<1>7. \A q \in Patches \ used' : ~flag'[q]
  BY <1>2 DEF FlagsKnown
<1> QED BY <1>0, <1>2, <1>4, <1>5, <1>6, <1>7, FlagsOfCalls

LEMMA FlagsGivesUp ==
  ASSUME WildInv, FlagsKnown, NEW p, GivesUp(p)
  PROVE  FlagsKnown'
<1>0. Shape
  BY DEF WildInv, StandInv
<1>1. /\ job' \in {DestroySteps, AssignSteps}
      /\ must' = [c \in Callers |-> must[c] \ {p}]
      /\ UNCHANGED <<used, flag, at, page, effects, may>>
      /\ \A q \in Patches : Owned(q)' <=> Owned(q) /\ q # p
  BY DEF GivesUp, memory
<1>2. "jump" \notin Left'
  BY <1>1, Beginnings DEF Left, Frees
<1>3. Enabled' \subseteq Enabled
  BY <1>1, EnabledOwned
<1>4. \A c \in Callers : must'[c] = must[c] \ {p} /\ must[c] \subseteq Patches
  BY <1>0, <1>1 DEF Shape, TypeOK
<1>5. \A c \in Callers : \A q \in must'[c] : flag'[q] /\ Owned(q)'
  BY <1>1, <1>4 DEF FlagsKnown
<1>6. \A q \in Patches \ used' : ~flag'[q]
  BY <1>1 DEF FlagsKnown
<1> QED BY <1>0, <1>1, <1>2, <1>3, <1>4, <1>5, <1>6, FlagsOfCalls

LEMMA FlagsRenames ==
  ASSUME WildInv, FlagsKnown, Renames
  PROVE  FlagsKnown'
<1>0. Shape
  BY DEF WildInv, StandInv
<1>1. /\ UNCHANGED <<used, flag, job, jobFor, at, page, effects, may, must>>
      /\ \A q \in Patches : Owned(q)' <=> Owned(q)
  BY DEF Renames, memory, calls
<1>2. Enabled' \subseteq Enabled /\ Left' = Left
  BY <1>1, EnabledOwned DEF Left
<1>3. \A c \in Callers : \A q \in must'[c] : flag'[q] /\ Owned(q)'
  BY <1>0, <1>1 DEF FlagsKnown, Shape, TypeOK
<1>4. /\ \A q \in Patches \ used' : ~flag'[q]
      /\ "jump" \in Left' => ~flag'[jobFor']
  BY <1>1, <1>2 DEF FlagsKnown
<1> QED BY <1>0, <1>1, <1>2, <1>3, <1>4, FlagsOfCalls

(* What is enabled during a call, it may run; what is disabled, it need    *)
(* not.                                                                    *)
LEMMA FlagsSetFlag ==
  ASSUME WildInv, FlagsKnown, NEW o \in Objects, NEW on \in BOOLEAN, SetFlag(o, on)
  PROVE  FlagsKnown'
<1>0. Shape
  BY DEF WildInv, StandInv
<1>1. /\ job = << >> /\ UNCHANGED <<used, owns, job, jobFor, at, page, effects>>
      /\ owns[o] \in Patches \cup {Null}
  BY <1>0 DEF SetFlag, Idle, owner, Shape, TypeOK
<1>2. Left' = {} /\ \A q : Owned(q)' <=> Owned(q)
  BY <1>1, Beginnings DEF Left, Owned
<1>3. CASE owns[o] = Null
  <2>1. UNCHANGED <<flag, must, may>>
    BY <1>3 DEF SetFlag
  <2>2. Enabled' \subseteq Enabled
    BY <1>2, <2>1, EnabledOwned
  <2> QED BY <1>0, <1>1, <1>2, <2>1, <2>2 DEF FlagsKnown
<1>4. CASE owns[o] # Null /\ ~on
  <2>1. /\ flag' = [flag EXCEPT ![owns[o]] = FALSE]
        /\ must' = [c \in Callers |-> must[c] \ {owns[o]}] /\ may' = may
    BY <1>4 DEF SetFlag
  <2>2. \A c \in Callers : must'[c] = must[c] \ {owns[o]} /\ must[c] \subseteq Patches
    BY <1>0, <2>1 DEF Shape, TypeOK
  <2>3. \A q \in Patches : flag'[q] <=> flag[q] /\ q # owns[o]
    BY <1>0, <2>1 DEF Shape, TypeOK
  <2>4. Enabled' \subseteq Enabled
    BY <1>2, <2>3, EnabledOwned
  <2>5. \A c \in Callers : \A q \in must'[c] : flag'[q] /\ Owned(q)'
    BY <1>2, <2>2, <2>3 DEF FlagsKnown
  <2>6. \A q \in Patches \ used' : ~flag'[q]
    BY <1>1, <2>3 DEF FlagsKnown
  <2> QED BY <1>0, <1>1, <1>2, <2>1, <2>2, <2>4, <2>5, <2>6, FlagsOfCalls
<1>5. CASE owns[o] # Null /\ on
  <2>1. /\ flag' = [flag EXCEPT ![owns[o]] = TRUE]
        /\ must' = must /\ may' = [c \in Callers |-> may[c] \cup {owns[o]}]
    BY <1>5 DEF SetFlag
  <2>2. \A q \in Patches : flag'[q] <=> flag[q] \/ q = owns[o]
    BY <1>0, <1>1, <2>1 DEF Shape, TypeOK
  <2>3. \A c \in Callers : may'[c] = may[c] \cup {owns[o]}
    BY <2>1
  <2>4. Enabled' \subseteq Enabled \cup {owns[o]}
    BY <1>2, <2>2, EnabledOwned
  <2>5. owns[o] \in used
    BY <1>0, <1>5 DEF Shape, OneOwner
  <2>6. \A c \in Callers : must[c] \subseteq Patches
    BY <1>0 DEF Shape, TypeOK
  <2>7. \A c \in Callers : \A q \in must'[c] : flag'[q] /\ Owned(q)'
    BY <1>2, <2>1, <2>2, <2>6 DEF FlagsKnown
  <2>8. \A q \in Patches \ used' : ~flag'[q]
    BY <1>1, <2>2, <2>5 DEF FlagsKnown
  <2> QED BY <1>1, <1>2, <2>1, <2>3, <2>4, <2>7, <2>8 DEF FlagsKnown
<1> QED BY <1>3, <1>4, <1>5

LEMMA FlagsCall ==
  ASSUME WildInv, FlagsKnown, NEW c \in Callers, Call(c)
  PROVE  FlagsKnown'
<1>0. Shape
  BY DEF WildInv, StandInv
<1>1. /\ UNCHANGED <<used, flag, owns, job, jobFor>>
      /\ at' = [at EXCEPT ![c] = "head"] /\ page' = [page EXCEPT ![c] = Null]
      /\ effects' = [effects EXCEPT ![c] = {}]
      /\ must' = [must EXCEPT ![c] = Enabled]
      /\ may' = [may EXCEPT ![c] = Enabled]
  BY DEF Call, GoesTo, memory, owner
<1>2. /\ Left' = Left /\ \A q : Owned(q)' <=> Owned(q)
  BY <1>1 DEF Left, Owned
<1>3. Enabled' = Enabled
  BY <1>1, <1>2, EnabledOwned
<1>4. /\ at'[c] = "head" /\ effects'[c] = {} /\ must'[c] = Enabled /\ may'[c] = Enabled
      /\ \A e \in Callers \ {c} :
           /\ at'[e] = at[e] /\ page'[e] = page[e]
           /\ effects'[e] = effects[e] /\ must'[e] = must[e] /\ may'[e] = may[e]
  BY <1>0, <1>1 DEF Shape, TypeOK
<1> QED BY <1>1, <1>2, <1>3, <1>4, EnabledOwned DEF FlagsKnown
-----------------------------------------------------------------------------
(* The stack of the patches, and the way of a call down along it.          *)

LEMMA StackInit ==
  ASSUME Init
  PROVE  StackInv
<1>1. Left = {}
  BY Beginnings DEF Init, Left
<1>2. PICK st : st = << >>
  OBVIOUS
<1>3. st \in Seq(Patches) /\ Len(st) = 0
  BY <1>2
<1>4. \A p \in Patches : ~Owned(p)
  BY PatchAssumption DEF Init, Owned
<1>5. Stacked(st)
  BY <1>1, <1>3, <1>4 DEF Init, Stacked, Beneath
<1>6. \A c \in Callers : OnItsWay(c, st)
  BY DEF Init, OnItsWay, Inside
<1> QED BY <1>3, <1>5, <1>6 DEF StackInv

(* What a patch of the stack is.                                           *)
LEMMA StackFacts ==
  ASSUME NEW st, Stacked(st)
  PROVE  /\ st \in Seq(Patches) /\ Len(st) \in Nat
         /\ \A i \in 1 .. Len(st) : st[i] \in Patches /\ Owned(st[i])
         /\ \A i \in 1 .. Len(st) : ~(st[i] = jobFor /\ "jump" \in Left)
BY DEF Stacked

(* A step of an operation finds the stack as it is, but for the jmp, which *)
(* puts the new patch onto it.                                             *)
LEMMA StackOwnerStep ==
  ASSUME WildInv, NEW st, Stacked(st), OwnerStep
  PROVE  \E st2 \in Seq(Patches) : Stacked(st2)'
<1>0. Shape
  BY DEF WildInv, StandInv
<1>1. /\ job \in Releasing \cup Keeping /\ jobFor \in Patches
      /\ Head(job) \in Left /\ Left' = Left \ {Head(job)}
      /\ Effect(Head(job), jobFor)
      /\ UNCHANGED <<used, alive, owns, jobFor>>
      /\ \A q : Owned(q)' <=> Owned(q)
      /\ Head(job) \in StepNames
  BY <1>0, OwnerStepEffect, JobAdvances
<1>2. /\ saved \in [Patches -> Patches \cup {Pristine, Torn}]
      /\ st \in Seq(Patches) /\ Len(st) \in Nat
      /\ \A i \in 1 .. Len(st) : st[i] \in Patches
  BY <1>0, StackFacts DEF Shape, TypeOK
<1>3. /\ {"newFlag", "newCode", "newTrampoline", "jump"} \cap Left # {}
           => "jump" \in Left /\ Left \cap (Frees \cup {"restore"}) = {}
      /\ "newCode" \in Left => "tear" \in Left
      /\ Head(job) = "jump" => Left = {"jump"}
      /\ Head(job) = "newTrampoline" => {"tear", "jump"} \subseteq Left /\ "newCode" \notin Left
  <2>1. job \in ConstructRest =>
          /\ "jump" \in Left /\ Left \cap (Frees \cup {"restore"}) = {}
          /\ "newCode" \in Left => "tear" \in Left
          /\ Head(job) = "jump" => Left = {"jump"}
    BY <1>1, ConstructAdvances, JobAdvances, Beginnings DEF Left
  <2>2. {"newFlag", "newCode", "newTrampoline", "jump"} \cap Left # {} => job \in ConstructRest
    BY <1>1, JobAdvances DEF Left
  <2>3. job \in ConstructRest /\ Head(job) = "newTrampoline" =>
          "tear" \in Left /\ "newCode" \notin Left
    BY ConstructOrder DEF Left
  <2> QED BY <1>1, <2>1, <2>2, <2>3
<1>4. ASSUME UNCHANGED <<head, saved>>,
             Head(job) \notin {"tear", "jump", "restore", "newCode"}
      PROVE  Stacked(st)'
  BY <1>1, <1>3, <1>4 DEF Stacked, Beneath
<1>5. CASE Head(job) \in {"newFlag", "newTrampoline"} \cup Frees
  BY <1>1, <1>2, <1>4, <1>5 DEF Effect, Frees
<1>6. CASE Head(job) = "newCode"
  <2>1. head' = head /\ saved' = [saved EXCEPT ![jobFor] = head]
    BY <1>1, <1>6 DEF Effect
  <2>2. {"tear", "jump"} \subseteq Left /\ "restore" \notin Left
    BY <1>1, <1>3, <1>6
  <2>3. saved'[jobFor] = head /\ \A i \in 1 .. Len(st) : saved'[st[i]] = saved[st[i]]
    BY <1>1, <1>2, <2>1, <2>2, StackFacts
  <2>4. Stacked(st)'
    <3>1. {"tear", "jump"} \subseteq Left' /\ "newCode" \notin Left' /\ "restore" \notin Left'
      BY <1>1, <1>6, <2>2
    <3>2. head = Beneath(st, 0)
      BY <2>2 DEF Stacked
    <3> QED BY <1>1, <2>1, <2>2, <2>3, <3>1, <3>2 DEF Stacked, Beneath
  <2> QED BY <1>2, <2>4
<1>7. CASE Head(job) = "tear"
  <2>1. saved' = saved
    BY <1>1, <1>7 DEF Effect
  <2>2. "newCode" \notin Left
    BY <1>1, <1>7, JobAdvances, ConstructOrder DEF Left
  <2>3. "jump" \in Left' \/ "restore" \in Left'
    <3>1. job' = Tail(job) /\ job' \in (Releasing \cup Keeping) \cup {<< >>}
      BY <1>1, JobAdvances DEF OwnerStep
    <3>2. job' # << >> /\ Head(job') \in {"jump", "restore"}
      BY <1>1, <1>7, <3>1, JobAdvances
    <3>3. Left' = Steps(job')
      BY DEF Left
    <3>4. Head(job') \in Steps(job')
      <4>1. job' \in Releasing \cup Keeping
        BY <3>1, <3>2
      <4>2. Steps(job') = {Head(job')} \cup Steps(Tail(job'))
        BY <4>1, JobAdvances
      <4> QED BY <4>2
    <3> QED BY <3>2, <3>3, <3>4
  <2>4. Stacked(st)'
    BY <1>1, <1>7, <2>1, <2>2, <2>3 DEF Stacked, Beneath
  <2> QED BY <1>2, <2>4
<1>8. CASE Head(job) = "restore"
  <2>1. head' = saved[jobFor] /\ saved' = saved
    BY <1>1, <1>8 DEF Effect
  <2>2. "jump" \notin Left /\ "restore" \in Left
    BY <1>1, <1>3, <1>8
  <2>3. Stacked(st)'
    BY <1>1, <1>8, <2>1, <2>2 DEF Stacked, Beneath
  <2> QED BY <1>2, <2>3
<1>9. CASE Head(job) = "jump"
  <2>1. head' = jobFor /\ saved' = saved /\ Left = {"jump"} /\ Left' = {}
    BY <1>1, <1>3, <1>9 DEF Effect
  <2>2. saved[jobFor] = Beneath(st, 0) /\ Owned(jobFor)
    <3>1. job \in ConstructRest
      BY <1>1, <2>1, JobAdvances DEF Left
    <3> QED BY <1>0, <2>1, <3>1 DEF Stacked, Shape, JobShape, Keeping
  <2>3. PICK st2 : st2 = <<jobFor>> \o st
    OBVIOUS
  <2>4. /\ st2 \in Seq(Patches) /\ Len(st2) = Len(st) + 1
        /\ st2[1] = jobFor /\ \A i \in 1 .. Len(st) : st2[i + 1] = st[i]
    BY <1>1, <1>2, <2>3
  <2>5. \A i \in 1 .. Len(st2) : i = 1 \/ (i - 1 \in 1 .. Len(st) /\ st2[i] = st[i - 1])
    BY <1>2, <2>4
  <2>6. \A i \in 1 .. Len(st) : st[i] # jobFor
    BY <2>1, StackFacts
  <2>7. \A i, k \in 1 .. Len(st2) : st2[i] = st2[k] => i = k
    <3>1. \A i, k \in 1 .. Len(st) : st[i] = st[k] => i = k
      BY DEF Stacked
    <3> SUFFICES ASSUME NEW i \in 1 .. Len(st2), NEW k \in 1 .. Len(st2), st2[i] = st2[k]
                 PROVE  i = k
      OBVIOUS
    <3>2. i \in Nat /\ k \in Nat
      BY <1>2, <2>4
    <3>3. CASE i = 1 \/ k = 1
      BY <2>4, <2>5, <2>6, <3>3
    <3>4. CASE i # 1 /\ k # 1
      <4>1. /\ i - 1 \in 1 .. Len(st) /\ k - 1 \in 1 .. Len(st)
            /\ st[i - 1] = st[k - 1]
        BY <2>5, <3>4
      <4>2. i - 1 = k - 1
        BY <3>1, <4>1
      <4> QED BY <3>2, <4>2
    <3> QED BY <3>3, <3>4
  <2>8. \A p \in Patches : (\E i \in 1 .. Len(st2) : st2[i] = p) <=> Owned(p)
    <3>1. \A p \in Patches : (\E i \in 1 .. Len(st) : st[i] = p) <=> Owned(p) /\ p # jobFor
      BY <2>1 DEF Stacked
    <3>2. 1 \in 1 .. Len(st2) /\ \A i \in 1 .. Len(st) : i + 1 \in 1 .. Len(st2)
      BY <1>2, <2>4
    <3> SUFFICES ASSUME NEW p \in Patches
                 PROVE  (\E i \in 1 .. Len(st2) : st2[i] = p) <=> Owned(p)
      OBVIOUS
    <3>3. ASSUME NEW i \in 1 .. Len(st2), st2[i] = p
          PROVE  Owned(p)
      BY <2>2, <2>4, <2>5, <3>1, <3>3
    <3>4. ASSUME Owned(p), p # jobFor
          PROVE  \E i \in 1 .. Len(st2) : st2[i] = p
      <4>1. PICK i \in 1 .. Len(st) : st[i] = p
        BY <3>1, <3>4
      <4>2. i + 1 \in 1 .. Len(st2) /\ st2[i + 1] = p
        BY <2>4, <3>2, <4>1
      <4> QED BY <4>2
    <3>5. p = jobFor => \E i \in 1 .. Len(st2) : st2[i] = p
      BY <2>4, <3>2
    <3> QED BY <3>3, <3>4, <3>5
  <2>9. \A i \in 1 .. Len(st2) : saved[st2[i]] = Beneath(st2, i)
    <3> SUFFICES ASSUME NEW i \in 1 .. Len(st2)
                 PROVE  saved[st2[i]] = Beneath(st2, i)
      OBVIOUS
    <3>1. CASE i = 1
      BY <1>2, <2>2, <2>4, <3>1 DEF Beneath
    <3>2. CASE i # 1
      <4>1. i - 1 \in 1 .. Len(st) /\ st2[i] = st[i - 1]
        BY <2>5, <3>2
      <4>2. saved[st[i - 1]] = Beneath(st, i - 1)
        BY <4>1 DEF Stacked
      <4>3. Beneath(st, i - 1) = Beneath(st2, i)
        BY <1>2, <2>4, <4>1 DEF Beneath
      <4> QED BY <4>1, <4>2, <4>3
    <3> QED BY <3>1, <3>2
  <2>10. Beneath(st2, 0) = jobFor
    BY <1>2, <2>4 DEF Beneath
  <2>11. Stacked(st2)'
    BY <1>1, <2>1, <2>4, <2>7, <2>8, <2>9, <2>10 DEF Stacked, Beneath
  <2> QED BY <2>4, <2>11
<1> QED BY <1>1, <1>5, <1>6, <1>7, <1>8, <1>9 DEF StepNames

(* A patch being made is not in the stack yet.                             *)
LEMMA StackConstruct ==
  ASSUME WildInv, NEW st, Stacked(st), NEW o \in Objects, NEW p \in Patches, Construct(o, p)
  PROVE  Stacked(st)'
<1>0. Shape
  BY DEF WildInv, StandInv
<1>1. ~Owned(p) /\ \A q \in Patches : Owned(q)' <=> Owned(q) \/ q = p
  BY <1>0, ConstructEffect
<1>2. /\ job = << >> /\ job' = ConstructSteps /\ jobFor' = p
      /\ UNCHANGED <<head, saved>>
  BY DEF Construct, Idle
<1>3. Left = {} /\ Left' = {"newFlag", "newCode", "newTrampoline", "tear", "jump"}
  BY <1>2, Beginnings DEF Left
<1> QED BY <1>1, <1>2, <1>3 DEF Stacked, Beneath

LEMMA StackConstructFails ==
  ASSUME WildInv, NEW st, Stacked(st), NEW o \in Objects, ConstructFails(o), "jump" \notin Failing
  PROVE  Stacked(st)'
<1>0. Shape
  BY DEF WildInv, StandInv
<1>1. /\ job \in ConstructRest /\ jobFor \in Patches /\ Owned(jobFor)
      /\ \A q \in Patches : Owned(q)' <=> Owned(q) /\ q # jobFor
  BY <1>0, ConstructFailsEffect
<1>2. /\ Head(job) # "jump" /\ head' = head
      /\ job' = Unwound(Head(job)) /\ jobFor' = jobFor
      /\ UNCHANGED saved
  BY DEF ConstructFails
<1>3. {"tear", "jump"} \subseteq Left
  BY <1>1, <1>2, ConstructOrder, ConstructAdvances DEF Left
<1>4. Left' \subseteq Frees
  BY <1>1, <1>2, UnwoundFreesMade, UnwindAdvances, Beginnings DEF Left
<1> QED BY <1>1, <1>2, <1>3, <1>4 DEF Stacked, Beneath, Frees

(* What is released is the top of the stack.                               *)
LEMMA StackGivesUp ==
  ASSUME WildInv, NEW st, Stacked(st), NEW p, GivesUp(p), "nested" \in ClientRules
  PROVE  \E st2 \in Seq(Patches) : Stacked(st2)'
<1>1. /\ p \in Patches /\ Owned(p) /\ job = << >>
      /\ job' \in {DestroySteps, AssignSteps} /\ jobFor' = p
      /\ UNCHANGED <<head, saved>>
      /\ \A q \in Patches : Owned(q)' <=> Owned(q) /\ q # p
      /\ \A q \in Patches : Owned(q) => saved[q] # p
  BY NothingAbove DEF GivesUp, Idle, memory, WildInv
<1>2. Left = {} /\ Left' = {"tear", "restore"} \cup Frees
  BY <1>1, Beginnings DEF Left
<1>3. /\ st \in Seq(Patches) /\ Len(st) \in Nat
      /\ \A i \in 1 .. Len(st) : st[i] \in Patches /\ Owned(st[i])
  BY StackFacts
<1>4. PICK i \in 1 .. Len(st) : st[i] = p
  BY <1>1, <1>2 DEF Stacked
<1>5. i = 1
  <2> SUFFICES ASSUME i # 1 PROVE FALSE
    OBVIOUS
  <2>1. i - 1 \in 1 .. Len(st) /\ (i - 1) + 1 = i
    BY <1>3, <1>4
  <2>2. saved[st[i - 1]] = Beneath(st, i - 1)
    BY <2>1 DEF Stacked
  <2>3. Beneath(st, i - 1) = p
    BY <1>3, <1>4, <2>1 DEF Beneath
  <2> QED BY <1>1, <1>3, <2>1, <2>2, <2>3
<1>6. Len(st) >= 1 /\ st[1] = p
  BY <1>3, <1>4, <1>5
<1>7. PICK st2 : st2 = Tail(st)
  OBVIOUS
<1>8. /\ st2 \in Seq(Patches) /\ Len(st2) = Len(st) - 1
      /\ \A k \in 1 .. Len(st2) : st2[k] = st[k + 1] /\ k + 1 \in 1 .. Len(st)
  BY <1>3, <1>6, <1>7
<1>9. \A k \in 1 .. Len(st) : k = 1 \/ (k - 1 \in 1 .. Len(st2) /\ st2[k - 1] = st[k])
  BY <1>3, <1>8
<1>10. \A j, k \in 1 .. Len(st2) : st2[j] = st2[k] => j = k
  BY <1>3, <1>8 DEF Stacked
<1>11. \A q \in Patches : (\E k \in 1 .. Len(st2) : st2[k] = q) <=> Owned(q) /\ q # p
  <2>1. \A q \in Patches : (\E k \in 1 .. Len(st) : st[k] = q) <=> Owned(q)
    BY <1>2 DEF Stacked
  <2>2. \A k \in 1 .. Len(st2) : st2[k] # p
    BY <1>3, <1>6, <1>8 DEF Stacked
  <2> SUFFICES ASSUME NEW q \in Patches
               PROVE  (\E k \in 1 .. Len(st2) : st2[k] = q) <=> Owned(q) /\ q # p
    OBVIOUS
  <2>3. ASSUME NEW k \in 1 .. Len(st2), st2[k] = q
        PROVE  Owned(q) /\ q # p
    BY <1>8, <2>1, <2>2, <2>3
  <2>4. ASSUME Owned(q), q # p
        PROVE  \E k \in 1 .. Len(st2) : st2[k] = q
    <3>1. PICK k \in 1 .. Len(st) : st[k] = q
      BY <2>1, <2>4
    <3>2. k # 1
      BY <1>6, <2>4, <3>1
    <3>3. k - 1 \in 1 .. Len(st2) /\ st2[k - 1] = q
      BY <1>9, <3>1, <3>2
    <3> QED BY <3>3
  <2> QED BY <2>3, <2>4
<1>12. \A k \in 0 .. Len(st2) : Beneath(st2, k) = Beneath(st, k + 1)
  BY <1>3, <1>6, <1>8 DEF Beneath
<1>13. \A k \in 1 .. Len(st2) : saved[st2[k]] = Beneath(st2, k)
  <2> SUFFICES ASSUME NEW k \in 1 .. Len(st2)
               PROVE  saved[st2[k]] = Beneath(st2, k)
    OBVIOUS
  <2>1. saved[st[k + 1]] = Beneath(st, k + 1)
    BY <1>8 DEF Stacked
  <2>2. Beneath(st2, k) = Beneath(st, k + 1)
    BY <1>3, <1>8, <1>12
  <2> QED BY <1>8, <2>1, <2>2
<1>14. saved[p] = Beneath(st2, 0)
  <2>1. saved[st[1]] = Beneath(st, 1)
    BY <1>4, <1>5 DEF Stacked
  <2>2. Beneath(st2, 0) = Beneath(st, 1)
    BY <1>8, <1>12, <1>6, <1>3
  <2> QED BY <1>6, <2>1, <2>2
<1>15. Stacked(st2)'
  BY <1>1, <1>2, <1>8, <1>10, <1>11, <1>13, <1>14 DEF Stacked, Beneath, Frees
<1> QED BY <1>8, <1>15

LEMMA StackElse ==
  ASSUME NEW st, Stacked(st), UNCHANGED <<head, saved, job, jobFor>>,
         \A q \in Patches : Owned(q)' <=> Owned(q)
  PROVE  Stacked(st)'
<1>1. Left' = Left
  BY DEF Left
<1> QED BY <1>1 DEF Stacked, Beneath
(* A step of a call leads down the stack, and passes no patch that it must *)
(* run without running it.                                                 *)
LEMMA CallStepWay ==
  ASSUME WildInv, FlagsKnown, NEW st, Stacked(st), NEW c \in Callers, OnItsWay(c, st),
         CallStep(c), job = << >>
  PROVE  /\ OnItsWay(c, st)'
         /\ effects'[c] \subseteq may[c]
         /\ at'[c] = "patch" => page'[c] \in may[c]
         /\ at'[c] = "body" => must[c] \subseteq effects'[c]
<1>1. /\ Shape /\ Standing(head) /\ empty = {} /\ Left = {}
      /\ at[c] \in Inside => page[c] \in Patches /\ Owned(page[c])
  BY IdleHeadStands, Beginnings DEF WildInv, StandInv, CallersSafe, Left
<1>2. at[c] \in Inside => Live({"trampoline"}, page[c]) /\ Live({"code", "flag"}, page[c])
                          /\ Live({"code"}, page[c])
  BY <1>1, OwnedIsLive DEF Kinds
<1>3. /\ st \in Seq(Patches) /\ Len(st) \in Nat
      /\ \A i \in 1 .. Len(st) : st[i] \in Patches /\ Owned(st[i])
      /\ \A p \in Patches : Owned(p) => \E i \in 1 .. Len(st) : st[i] = p
      /\ \A i \in 1 .. Len(st) : saved[st[i]] = Beneath(st, i)
      /\ head = Beneath(st, 0)
  <2>1. st \in Seq(Patches) /\ Len(st) \in Nat
        /\ \A i \in 1 .. Len(st) : st[i] \in Patches /\ Owned(st[i])
    BY StackFacts
  <2> QED BY <1>1, <2>1 DEF Stacked
<1>4. /\ \A f \in {at} : \A v : [f EXCEPT ![c] = v][c] = v
      /\ \A f \in {page} : \A v : [f EXCEPT ![c] = v][c] = v
      /\ \A v : [effects EXCEPT ![c] = v][c] = v
  BY <1>1 DEF Shape, TypeOK
<1>5. must' = must /\ UNCHANGED <<flag, may>>
  BY DEF CallStep, memory
<1>6. /\ must[c] \subseteq Patches
      /\ \A p \in must[c] : flag[p] /\ Owned(p)
      /\ Enabled \subseteq may[c] /\ effects[c] \subseteq may[c]
      /\ at[c] = "patch" => page[c] \in may[c]
  BY <1>1 DEF FlagsKnown, Shape, TypeOK
<1>7. at[c] \in Inside =>
        \E i \in 1 .. Len(st) : /\ st[i] = page[c]
                                /\ HasRun(c, st, IF at[c] = "relocated" THEN i ELSE i - 1)
  BY DEF OnItsWay
<1>8. CASE ExecHead(c)
  <2>1. effects' = effects /\ at[c] = "head"
    BY <1>8 DEF ExecHead
  <2>2. CASE head = Pristine
    <3>1. at'[c] = "displaced"
      BY <1>4, <1>8, <2>2, PatchAssumption DEF ExecHead, GoesTo
    <3> QED BY <1>6, <2>1, <3>1 DEF OnItsWay, Inside
  <2>3. CASE head # Pristine
    <3>1. head \in Patches /\ head # Torn
      BY <1>1, <2>3, PatchAssumption DEF Standing
    <3>2. at'[c] = "trampoline" /\ page'[c] = head
      BY <1>4, <1>8, <2>3, <3>1 DEF ExecHead, GoesTo
    <3>3. 1 \in 1 .. Len(st) /\ st[1] = head
      BY <1>3, <2>3 DEF Beneath
    <3>4. HasRun(c, st, 1 - 1)'
      BY DEF HasRun
    <3>5. OnItsWay(c, st)'
      BY <3>2, <3>3, <3>4 DEF OnItsWay
    <3> QED BY <1>6, <2>1, <3>2, <3>5
  <2> QED BY <2>2, <2>3
<1>9. CASE ExecDisplaced(c)
  <2>1. head = Pristine /\ at[c] = "displaced" /\ effects' = effects
    BY <1>9 DEF ExecDisplaced, WildInv, CallersSafe
  <2>2. at'[c] = "body"
    BY <1>4, <1>9, <2>1 DEF ExecDisplaced, GoesTo
  <2>3. Len(st) = 0
    BY <1>3, <2>1, PatchAssumption DEF Beneath
  <2>4. must[c] = {}
    BY <1>3, <1>6, <2>3
  <2> QED BY <1>6, <2>1, <2>2, <2>4 DEF OnItsWay, Inside
<1>10. CASE ExecTrampoline(c)
  <2>1. at[c] = "trampoline" /\ effects' = effects
    BY <1>10 DEF ExecTrampoline
  <2>2. at'[c] = "check" /\ page'[c] = page[c]
    BY <1>2, <1>4, <1>10, <2>1 DEF ExecTrampoline, GoesTo, Inside
  <2>3. PICK i \in 1 .. Len(st) : st[i] = page[c] /\ HasRun(c, st, i - 1)
    BY <1>7, <2>1 DEF Inside
  <2>4. HasRun(c, st, i - 1)'
    BY <1>5, <2>1, <2>3 DEF HasRun
  <2>5. OnItsWay(c, st)'
    BY <2>2, <2>3, <2>4 DEF OnItsWay
  <2> QED BY <1>6, <2>1, <2>2, <2>5
<1>11. CASE ExecCheck(c)
  <2>1. at[c] = "check" /\ effects' = effects
    BY <1>11 DEF ExecCheck
  <2>2. /\ at'[c] = (IF flag[page[c]] THEN "patch" ELSE "relocated")
        /\ page'[c] = page[c]
    BY <1>1, <1>2, <1>4, <1>11, <2>1 DEF ExecCheck, GoesTo, Inside
  <2>3. PICK i \in 1 .. Len(st) : st[i] = page[c] /\ HasRun(c, st, i - 1)
    BY <1>7, <2>1 DEF Inside
  <2>4. CASE flag[page[c]]
    <3>1. HasRun(c, st, i - 1)'
      BY <1>5, <2>1, <2>3 DEF HasRun
    <3>2. OnItsWay(c, st)'
      BY <2>2, <2>3, <2>4, <3>1 DEF OnItsWay
    <3>3. page[c] \in may[c]
      BY <1>1, <1>6, <2>1, <2>4, EnabledOwned DEF Inside
    <3> QED BY <1>6, <2>1, <2>2, <2>4, <3>2, <3>3
  <2>5. CASE ~flag[page[c]]
    <3>1. st[i] \notin must[c]
      BY <1>6, <2>3, <2>5
    <3>2. HasRun(c, st, i)'
      <4> SUFFICES ASSUME NEW k \in 1 .. i, st[k] \in must[c] PROVE st[k] \in effects[c]
        BY <1>5, <2>1 DEF HasRun
      <4>1. k \in 1 .. i - 1
        BY <3>1
      <4> QED BY <2>3, <4>1 DEF HasRun
    <3>3. OnItsWay(c, st)'
      BY <2>2, <2>3, <2>5, <3>2 DEF OnItsWay
    <3> QED BY <1>6, <2>1, <2>2, <2>5, <3>3
  <2> QED BY <2>4, <2>5
<1>12. CASE ExecPatch(c)
  <2>1. at[c] = "patch" /\ Live({"code"}, page[c])
    BY <1>2, <1>12 DEF ExecPatch, Inside
  <2>2. /\ effects' = [effects EXCEPT ![c] = effects[c] \cup {page[c]}]
        /\ at' = [at EXCEPT ![c] = "relocated"] /\ page' = [page EXCEPT ![c] = page[c]]
    BY <1>12, <2>1 DEF ExecPatch, GoesTo
  <2>3. /\ effects'[c] = effects[c] \cup {page[c]}
        /\ at'[c] = "relocated" /\ page'[c] = page[c]
    BY <1>4, <2>2
  <2>4. PICK i \in 1 .. Len(st) : st[i] = page[c] /\ HasRun(c, st, i - 1)
    BY <1>7, <2>1 DEF Inside
  <2>5. HasRun(c, st, i)'
    <3> SUFFICES ASSUME NEW k \in 1 .. i, st[k] \in must[c] PROVE st[k] \in effects'[c]
      BY <1>5 DEF HasRun
    <3>1. CASE k = i
      BY <2>3, <2>4, <3>1
    <3>2. CASE k # i
      <4>1. k \in 1 .. i - 1
        BY <3>2
      <4> QED BY <2>3, <2>4, <4>1 DEF HasRun
    <3> QED BY <3>1, <3>2
  <2>6. OnItsWay(c, st)'
    BY <2>3, <2>4, <2>5 DEF OnItsWay
  <2> QED BY <1>6, <2>1, <2>3, <2>6
<1>13. CASE ExecRelocated(c)
  <2>1. at[c] = "relocated" /\ effects' = effects /\ Live({"code"}, page[c])
    BY <1>2, <1>13 DEF ExecRelocated, Inside
  <2>2. PICK i \in 1 .. Len(st) : st[i] = page[c] /\ HasRun(c, st, i)
    BY <1>7, <2>1 DEF Inside
  <2>3. saved[page[c]] = Beneath(st, i)
    BY <1>3, <2>2
  <2>4. CASE i < Len(st)
    <3>1. i + 1 \in 1 .. Len(st) /\ saved[page[c]] = st[i + 1] /\ (i + 1) - 1 = i
      BY <1>3, <2>3, <2>4 DEF Beneath
    <3>2. saved[page[c]] \in Patches
      BY <1>3, <3>1
    <3>3. at'[c] = "trampoline" /\ page'[c] = st[i + 1]
      BY <1>4, <1>13, <2>1, <3>1, <3>2 DEF ExecRelocated, GoesTo
    <3>4. HasRun(c, st, (i + 1) - 1)'
      BY <1>5, <2>1, <2>2, <3>1 DEF HasRun
    <3>5. OnItsWay(c, st)'
      BY <3>1, <3>3, <3>4 DEF OnItsWay
    <3> QED BY <1>6, <2>1, <3>3, <3>5
  <2>5. CASE ~(i < Len(st))
    <3>1. i = Len(st) /\ saved[page[c]] \notin Patches
      BY <1>3, <2>3, <2>5, PatchAssumption DEF Beneath
    <3>2. at'[c] = "body"
      BY <1>4, <1>13, <2>1, <3>1 DEF ExecRelocated, GoesTo, ReturnPoint
    <3>3. must[c] \subseteq effects[c]
      BY <1>3, <1>6, <2>2, <3>1 DEF HasRun
    <3> QED BY <1>6, <2>1, <3>2, <3>3 DEF OnItsWay, Inside
  <2> QED BY <2>4, <2>5
<1>14. CASE Return(c)
  <2>1. at'[c] = "out" /\ effects' = effects
    BY <1>4, <1>14 DEF Return, GoesTo
  <2> QED BY <1>6, <2>1 DEF OnItsWay, Inside
<1> QED BY <1>8, <1>9, <1>10, <1>11, <1>12, <1>13, <1>14 DEF CallStep

(* The other calls and the patches are where they were.                    *)
LEMMA EnabledCallStep ==
  ASSUME EnabledInv, NEW c \in Callers, CallStep(c), "suspended" \in ClientRules
  PROVE  FlagsKnown' /\ StackInv'
<1>1. /\ WildInv /\ FlagsKnown /\ Shape
      /\ job = << >>
      /\ UNCHANGED <<head, saved, used, flag, owns, job, jobFor, must, may>>
  BY DEF EnabledInv, WildInv, StandInv, CallStep, Runs, Idle, memory, owner
<1>2. PICK st \in Seq(Patches) : Stacked(st) /\ \A e \in Callers : OnItsWay(e, st)
  BY DEF EnabledInv, StackInv
<1>3. /\ \A q : Owned(q)' <=> Owned(q)
      /\ Left' = Left
  BY <1>1 DEF Owned, Left
<1>4. /\ OnItsWay(c, st)'
      /\ effects'[c] \subseteq may[c]
      /\ at'[c] = "patch" => page'[c] \in may[c]
      /\ at'[c] = "body" => must[c] \subseteq effects'[c]
  BY <1>1, <1>2, CallStepWay
<1>5. \A e \in Callers \ {c} : at'[e] = at[e] /\ page'[e] = page[e] /\ effects'[e] = effects[e]
  <2>1. PICK place \in Places, q \in Patches \cup {Null} :
          /\ at' = [at EXCEPT ![c] = place] /\ page' = [page EXCEPT ![c] = q]
          /\ \/ effects' = effects
             \/ effects' = [effects EXCEPT ![c] = @ \cup {q}]
    BY <1>1, CallStepEffect
  <2> QED BY <1>1, <2>1 DEF Shape, TypeOK
<1>6. \A e \in Callers \ {c} : OnItsWay(e, st)'
  <2> SUFFICES ASSUME NEW e \in Callers \ {c} PROVE OnItsWay(e, st)'
    OBVIOUS
  <2>1. OnItsWay(e, st)
    BY <1>2
  <2> QED BY <1>1, <1>5, <2>1 DEF OnItsWay, HasRun
<1>7. Stacked(st)'
  BY <1>1, <1>2, <1>3, StackElse
<1>8. Enabled' = Enabled
  BY <1>1, <1>3, EnabledOwned
<1>9. FlagsKnown'
  BY <1>1, <1>3, <1>4, <1>5, <1>8 DEF FlagsKnown
<1> QED BY <1>2, <1>4, <1>6, <1>7, <1>9 DEF StackInv

(* While nobody is inside, any stack does for the calls.                   *)
LEMMA NobodyInside ==
  ASSUME UNCHANGED at, \A c \in Callers : at[c] \in {"out", "head", "body"}, NEW st
  PROVE  \A c \in Callers : OnItsWay(c, st)'
BY DEF OnItsWay, Inside

(* Flags and moves leave the stack and the ways along it as they are: a    *)
(* call has no more to run than before.                                    *)
LEMMA StackKept ==
  ASSUME StackInv, UNCHANGED <<head, saved, job, jobFor, at, page, effects>>,
         \A q \in Patches : Owned(q)' <=> Owned(q),
         \A c \in Callers : must'[c] \subseteq must[c]
  PROVE  StackInv'
<1>1. PICK st \in Seq(Patches) : Stacked(st) /\ \A c \in Callers : OnItsWay(c, st)
  BY DEF StackInv
<1>2. Stacked(st)'
  BY <1>1, StackElse
<1>3. ASSUME NEW c \in Callers
      PROVE  OnItsWay(c, st)'
  <2>1. OnItsWay(c, st)
    BY <1>1
  <2> QED BY <2>1 DEF OnItsWay, HasRun
<1> QED BY <1>2, <1>3 DEF StackInv

LEMMA EnabledStep ==
  ASSUME EnabledInv, [Next]_pvars,
         {"suspended", "nested", "fits_page", "no_self_move"} \subseteq ClientRules,
         "jump" \notin Failing
  PROVE  EnabledInv'
<1>1. WildInv /\ FlagsKnown /\ StackInv /\ StandInv /\ Shape /\ WildInv'
  BY WildStep DEF EnabledInv, WildInv, StandInv
<1> SUFFICES FlagsKnown' /\ StackInv'
  BY <1>1 DEF EnabledInv
<1>2. PICK st \in Seq(Patches) : Stacked(st) /\ \A c \in Callers : OnItsWay(c, st)
  BY <1>1 DEF StackInv
<1>3. Quiet \/ job # << >> => \A c \in Callers : at[c] \in {"out", "head", "body"}
  BY <1>1 DEF Quiet, WildInv, CallersSafe
<1>4. ASSUME UNCHANGED at, Quiet \/ job # << >>, \E st2 \in Seq(Patches) : Stacked(st2)'
      PROVE  StackInv'
  BY <1>3, <1>4, NobodyInside DEF StackInv
<1>5. CASE OwnerStep
  <2>1. job # << >> /\ UNCHANGED at
    BY <1>5 DEF OwnerStep, calls
  <2> QED BY <1>1, <1>2, <1>4, <1>5, <2>1, FlagsOwnerStep, StackOwnerStep
<1>6. ASSUME NEW o \in Objects, NEW p \in Patches, Construct(o, p)
      PROVE  FlagsKnown' /\ StackInv'
  <2>1. Quiet /\ UNCHANGED at
    BY <1>6 DEF Construct, calls
  <2>2. Stacked(st)'
    BY <1>1, <1>2, <1>6, StackConstruct
  <2> QED BY <1>1, <1>2, <1>4, <1>6, <2>1, <2>2, FlagsConstruct
<1>7. ASSUME NEW o \in Objects, ConstructFails(o)
      PROVE  FlagsKnown' /\ StackInv'
  <2>1. job # << >> /\ UNCHANGED at
    BY <1>7 DEF ConstructFails, Constructing, calls
  <2>2. Stacked(st)'
    BY <1>1, <1>2, <1>7, StackConstructFails
  <2> QED BY <1>1, <1>2, <1>4, <1>7, <2>1, <2>2, FlagsConstructFails
<1>8. ASSUME NEW p, GivesUp(p)
      PROVE  FlagsKnown' /\ StackInv'
  <2>1. Quiet /\ UNCHANGED at
    BY <1>8 DEF GivesUp
  <2>2. \E st2 \in Seq(Patches) : Stacked(st2)'
    BY <1>1, <1>2, <1>8, StackGivesUp
  <2> QED BY <1>1, <1>4, <1>8, <2>1, <2>2, FlagsGivesUp
<1>9. ASSUME Renames
      PROVE  FlagsKnown' /\ StackInv'
  <2>1. /\ UNCHANGED <<head, saved, job, jobFor, at, page, effects, must>>
        /\ \A q \in Patches : Owned(q)' <=> Owned(q)
    BY <1>9 DEF Renames, memory, calls
  <2> QED BY <1>1, <1>9, <2>1, FlagsRenames, StackKept
<1>10. ASSUME NEW o \in Objects, Destroy(o)
       PROVE  FlagsKnown' /\ StackInv'
  BY <1>1, <1>8, <1>9, <1>10, DestroyEffect
<1>11. ASSUME NEW d \in Objects, NEW s \in Objects, MoveConstruct(d, s)
       PROVE  FlagsKnown' /\ StackInv'
  BY <1>1, <1>9, <1>11, MoveConstructEffect
<1>12. ASSUME NEW d \in Objects, NEW s \in Objects, MoveAssign(d, s)
       PROVE  FlagsKnown' /\ StackInv'
  <2>1. d # s \/ d \in callbacks
    BY <1>12 DEF MoveAssign
  <2> QED BY <1>1, <1>8, <1>9, <1>12, <2>1, MoveAssignEffect
<1>13. ASSUME NEW o \in Objects, NEW on \in BOOLEAN, SetFlag(o, on)
       PROVE  FlagsKnown' /\ StackInv'
  <2>1. /\ UNCHANGED <<head, saved, owns, job, jobFor, at, page, effects>>
        /\ \A c \in Callers : must'[c] \subseteq must[c]
    BY <1>13 DEF SetFlag, owner
  <2>2. \A q \in Patches : Owned(q)' <=> Owned(q)
    BY <2>1 DEF Owned
  <2> QED BY <1>1, <1>13, <2>1, <2>2, FlagsSetFlag, StackKept
<1>14. ASSUME NEW c \in Callers, Call(c)
       PROVE  FlagsKnown' /\ StackInv'
  <2>1. /\ UNCHANGED <<head, saved, owns, job, jobFor>>
        /\ at' = [at EXCEPT ![c] = "head"] /\ page' = [page EXCEPT ![c] = Null]
        /\ effects' = [effects EXCEPT ![c] = {}]
        /\ must' = [must EXCEPT ![c] = Enabled]
    BY <1>14 DEF Call, GoesTo, memory, owner
  <2>2. /\ at'[c] = "head"
        /\ \A e \in Callers \ {c} : /\ at'[e] = at[e] /\ page'[e] = page[e]
                                    /\ effects'[e] = effects[e] /\ must'[e] = must[e]
    BY <1>1, <2>1 DEF Shape, TypeOK
  <2>3. \A e \in Callers : OnItsWay(e, st)'
    BY <1>2, <2>2 DEF OnItsWay, HasRun, Inside
  <2>4. \A q \in Patches : Owned(q)' <=> Owned(q)
    BY <2>1 DEF Owned
  <2>5. Stacked(st)'
    BY <1>2, <2>1, <2>4, StackElse
  <2> QED BY <1>1, <1>2, <1>14, <2>3, <2>5, FlagsCall DEF StackInv
<1>15. ASSUME NEW c \in Callers, CallStep(c)
       PROVE  FlagsKnown' /\ StackInv'
  BY <1>15, EnabledCallStep
<1>16. CASE UNCHANGED pvars
  <2>1. UNCHANGED <<callbacks, head, mapped, flag, saved, empty, used, alive, owns, job, jobFor,
                    at, page, ran, effects, must, may, crashed>>
    BY <1>16 DEF pvars, memory, owner, calls
  <2>2. Renames
    BY <2>1 DEF Renames, memory, calls, Owned
  <2> QED BY <1>9, <2>2
<1> QED BY <1>5, <1>6, <1>7, <1>10, <1>11, <1>12, <1>13, <1>14, <1>15, <1>16 DEF Next

(* A call runs the code of every patch that is enabled from its beginning  *)
(* to its end, and of no patch that is never enabled meanwhile, through    *)
(* patches stacked to any depth, moved, enabled and disabled while it      *)
(* runs (the flag check of the generated code, enable and disable), if no  *)
(* patch is assigned to itself and calls are in no danger otherwise.       *)
THEOREM EnabledPatchesRunAlways ==
  ASSUME {"suspended", "nested", "fits_page", "no_self_move"} \subseteq ClientRules,
         "jump" \notin Failing
  PROVE  Spec => []EnabledPatchesRun
<1>1. Init => EnabledInv
  BY WildInit, FlagsInit, StackInit DEF EnabledInv
<1>2. EnabledInv /\ [Next]_pvars => EnabledInv'
  BY EnabledStep
<1>3. EnabledInv => EnabledPatchesRun
  BY DEF EnabledInv, FlagsKnown, EnabledPatchesRun
<1> QED BY <1>1, <1>2, <1>3, PTL DEF Spec
=============================================================================
