---------------------------- MODULE InlinePatch ----------------------------
(***************************************************************************)
(* InlinePatch (include/B3L/InlinePatch.h, src/InlinePatch.cpp), and with  *)
(* it InlineCallback: a function's first instructions are replaced by a    *)
(* jmp to a trampoline, which leads to generated code: look at a flag, run *)
(* the client's code if it is set, run the displaced instructions, jump    *)
(* back.  One thread owns the patches; others call the function meanwhile. *)
(* Patches may be stacked: the code of one then relocates the jmp of the   *)
(* one below.                                                              *)
(***************************************************************************)
EXTENDS Naturals, Sequences

CONSTANTS Objects,    (* storage in which patch objects live               *)
          Classes,    (* which sets of them may be of class                *)
                      (* InlineCallback, which holds its InlinePatch       *)
                      (* through a pointer                                 *)
          Patches,    (* bound: the patches ever made; each stands for its *)
                      (* flag, its code page and its trampoline            *)
          Callers,    (* threads that call the function                    *)
          Pristine,   (* the instructions the function came with           *)
          Torn,       (* a first instruction of which only part is written *)
          Null,
          Failing,    (* the steps of a constructor that may fail          *)
          ClientRules (* what the client promises, see below               *)

ASSUME PatchAssumption ==
  /\ Classes \subseteq SUBSET Objects
  /\ Null \notin Patches
  /\ Pristine \notin Patches
  /\ Torn \notin Patches \cup {Pristine}
  /\ Failing \subseteq {"newFlag", "newCode", "newTrampoline", "tear", "jump"}

(***************************************************************************)
(* The promises a client may make:                                         *)
(*   "suspended": it makes, assigns and destroys patches only while no     *)
(*       caller is inside displaced instructions or generated code, and    *)
(*       no caller runs until that is done (the TODOs of InlineDetour.cpp  *)
(*       leave this to the client);                                        *)
(*   "nested": it releases no patch that another one was stacked on;       *)
(*   "no_self_move": it never assigns an InlinePatch to itself;            *)
(*   "call_owning": it enables and disables only patches not moved from;   *)
(*   "fits_page": the code it patches in, with the instructions displaced, *)
(*       takes no more than a page.                                        *)
(***************************************************************************)
VARIABLES callbacks, (* the objects of class InlineCallback; the others    *)
                     (* are of class InlinePatch                           *)
          head,    (* what the function starts with                        *)
          mapped,  (* the memory that is allocated                         *)
          flag,    (* *enabled of each patch                               *)
          saved,   (* the instructions each patch displaced                *)
          empty,   (* the patches to whose page no code was written        *)
          used,    (* history: patches made so far                         *)
          alive,   (* storage that holds an object                         *)
          owns,    (* the patch of each object, Null if it was moved from  *)
          job,     (* the steps left of the owner's constructor,           *)
                   (* destructor or assignment                             *)
          jobFor,  (* and the patch they are about                         *)
          at,      (* where each caller is                                 *)
          page,    (* the patch in whose memory it is                      *)
          ran,     (* how often its call ran the displaced instructions    *)
          effects, (* the patches whose client code its call ran           *)
          must,    (* history: patches enabled for the whole call so far   *)
          may,     (* history: patches enabled at some time in the call    *)
          crashed  (* whether the owner used a null pointer                *)

owner  == <<callbacks, alive, owns, job, jobFor>>
memory == <<head, mapped, flag, saved, empty, used>>
calls  == <<at, page, ran, effects, must, may>>
pvars  == <<memory, owner, calls, crashed>>

Kinds  == {"flag", "code", "trampoline"}

(* Seeded faults: the destructor forgets the function, assignment leaks    *)
(* the flag, the flag starts set, generated code jumps back to the start   *)
(* of the function, a constructor that throws leaves the code's page.      *)
OnlyFrees      == <<"freeCode", "freeFlag", "freeTrampoline">>
StartsEnabled  == TRUE
BackToStart    == "head"
LeaksFlag      == <<"tear", "restore", "freeTrampoline", "freeCode">>
LeavesCode(step) ==
  CASE step = "newFlag"              -> << >>
    [] step \in {"newCode", "newTrampoline"} -> <<"freeFlag">>
    [] OTHER                         -> <<"freeTrampoline", "freeFlag">>

-----------------------------------------------------------------------------
(* The owner's operations, step by step as callers could observe them.     *)

(* The constructor, whose last act is to make an InlineDetour.             *)
ConstructSteps == <<"newFlag", "newCode", "newTrampoline", "tear", "jump">>

(* Members are destroyed in reverse order: code, enabled, detour; the      *)
(* detour restores the function and then frees its trampoline.             *)
DestroySteps == <<"freeCode", "freeFlag", "tear", "restore", "freeTrampoline">>

(* Members are assigned in order: detour, enabled, code.                   *)
AssignSteps == <<"tear", "restore", "freeTrampoline", "freeFlag", "freeCode">>

(* To itself: the detour is restored all the same, the rest stays.         *)
SelfAssignSteps == <<"tear", "restore">>

(* Seeded fault: a callback deletes its own patch without looking whose    *)
(* pointer it takes.                                                       *)
DeletesAnyway(d, s) ==
  IF d \in callbacks THEN DestroySteps ELSE IF d # s THEN AssignSteps ELSE SelfAssignSteps

(* A callback takes over the other's pointer and deletes its own patch; to *)
(* itself it gives the pointer it has.                                     *)
StepsOfAssignment(d, s) ==
  CASE d \in callbacks /\ d # s    -> DestroySteps
    [] d \in callbacks /\ d = s    -> << >>
    [] d \notin callbacks /\ d # s -> AssignSteps
    [] OTHER                       -> SelfAssignSteps

(* A constructor throws out of a step: of what was made before it, the new *)
(* detour's trampoline goes first, then the members in reverse order.      *)
Unwound(step) ==
  CASE step = "newFlag"       -> << >>
    [] step = "newCode"       -> <<"freeFlag">>
    [] step = "newTrampoline" -> <<"freeCode", "freeFlag">>
    [] OTHER                  -> <<"freeTrampoline", "freeCode", "freeFlag">>

InitialFlag == FALSE

(* Where generated code jumps to: behind the displaced instructions.       *)
ReturnPoint == "body"

(* The assembler writes nothing and returns 0 if the code takes more than  *)
(* a page, which the constructor does not look at.                         *)
Written(p) ==
  \/ UNCHANGED empty
  \/ "fits_page" \notin ClientRules /\ empty' = empty \cup {p}

Effect(step, p) ==
  \/ /\ step = "newFlag"
     /\ mapped' = mapped \cup {<<"flag", p>>}
     /\ flag' = [flag EXCEPT ![p] = InitialFlag]
     /\ UNCHANGED <<head, saved, empty>>
  \/ /\ step = "newCode"
     /\ mapped' = mapped \cup {<<"code", p>>}
     /\ saved' = [saved EXCEPT ![p] = head]
     /\ Written(p)
     /\ UNCHANGED <<head, flag>>
  \/ /\ step = "newTrampoline"
     /\ mapped' = mapped \cup {<<"trampoline", p>>}
     /\ UNCHANGED <<head, flag, saved, empty>>
  \/ /\ \/ step = "tear" /\ head' = Torn
        \/ step = "jump" /\ head' = p
        \/ step = "restore" /\ head' = saved[p]
     /\ UNCHANGED <<mapped, flag, saved, empty>>
  \/ /\ \/ step = "freeCode" /\ mapped' = mapped \ {<<"code", p>>}
        \/ step = "freeFlag" /\ mapped' = mapped \ {<<"flag", p>>}
        \/ step = "freeTrampoline" /\ mapped' = mapped \ {<<"trampoline", p>>}
     /\ UNCHANGED <<head, flag, saved, empty>>

OwnerStep ==
  /\ job # << >>
  /\ Effect(Head(job), jobFor)
  /\ job' = Tail(job)
  /\ UNCHANGED <<callbacks, used, alive, owns, jobFor, calls, crashed>>

(* Of the owner's operations only a constructor ends with the jmp.         *)
Constructing == job # << >> /\ job[Len(job)] = "jump"

(* Failing to protect the function again comes after the jmp was written.  *)
ConstructFails(o) ==
  /\ Constructing
  /\ owns[o] = jobFor
  /\ Head(job) \in Failing
  /\ head' = IF Head(job) = "jump" THEN jobFor ELSE head
  /\ job' = Unwound(Head(job))
  /\ alive' = alive \ {o}
  /\ owns' = [owns EXCEPT ![o] = Null]
  /\ UNCHANGED <<callbacks, mapped, flag, saved, empty, used, jobFor, calls, crashed>>

Idle  == job = << >>
Quiet == "suspended" \in ClientRules => \A c \in Callers : at[c] \in {"out", "head", "body"}
Runs(c) == "suspended" \in ClientRules => Idle

Releasable(p) ==
  "nested" \in ClientRules =>
    \A o \in Objects : owns[o] # Null => saved[owns[o]] # p

(* A released patch is not one that a call must run.                       *)
Begin(steps, p) ==
  /\ Quiet
  /\ job' = steps
  /\ jobFor' = p
  /\ must' = [c \in Callers |-> must[c] \ {p}]
  /\ UNCHANGED <<memory, at, page, ran, effects, may, crashed>>

Construct(o, p) ==
  /\ Idle /\ Quiet
  /\ o \notin alive
  /\ p \notin used
  /\ used' = used \cup {p}
  /\ alive' = alive \cup {o}
  /\ owns' = [owns EXCEPT ![o] = p]
  /\ job' = ConstructSteps
  /\ jobFor' = p
  /\ UNCHANGED <<callbacks, head, mapped, flag, saved, empty, calls, crashed>>

Destroy(o) ==
  /\ Idle
  /\ o \in alive
  /\ alive' = alive \ {o}
  /\ owns' = [owns EXCEPT ![o] = Null]
  /\ UNCHANGED callbacks
  /\ IF owns[o] = Null
     THEN UNCHANGED <<memory, job, jobFor, calls, crashed>>
     ELSE Releasable(owns[o]) /\ Begin(DestroySteps, owns[o])

SameClass(d, s) == d \in callbacks <=> s \in callbacks

MoveConstruct(d, s) ==
  /\ Idle
  /\ d \notin alive
  /\ s \in alive
  /\ SameClass(d, s)
  /\ alive' = alive \cup {d}
  /\ owns' = [owns EXCEPT ![d] = owns[s], ![s] = Null]
  /\ UNCHANGED <<callbacks, memory, job, jobFor, calls, crashed>>

MoveAssign(d, s) ==
  /\ Idle
  /\ "no_self_move" \in ClientRules => d # s \/ d \in callbacks
  /\ {d, s} \subseteq alive
  /\ SameClass(d, s)
  /\ owns' = IF d = s THEN owns ELSE [owns EXCEPT ![d] = owns[s], ![s] = Null]
  /\ UNCHANGED <<callbacks, alive>>
  /\ IF owns[d] = Null \/ StepsOfAssignment(d, s) = << >>
     THEN UNCHANGED <<memory, job, jobFor, calls, crashed>>
     ELSE Releasable(owns[d]) /\ Begin(StepsOfAssignment(d, s), owns[d])

(* enable() and disable() only write the flag, while callers run.          *)
SetFlag(o, on) ==
  /\ Idle
  /\ o \in alive
  /\ "call_owning" \in ClientRules => owns[o] # Null
  /\ IF owns[o] = Null
     THEN crashed' = TRUE /\ UNCHANGED <<flag, must, may>>
     ELSE /\ flag' = [flag EXCEPT ![owns[o]] = on]
          /\ must' = IF on THEN must ELSE [c \in Callers |-> must[c] \ {owns[o]}]
          /\ may' = IF on THEN [c \in Callers |-> may[c] \cup {owns[o]}] ELSE may
          /\ UNCHANGED crashed
  /\ UNCHANGED <<head, mapped, saved, empty, used, owner, at, page, ran, effects>>

-----------------------------------------------------------------------------
(* A call, instruction by instruction as far as the owner could disturb it.*)

(* Counted up to 2, enough to tell once from more often.                   *)
RunsDisplaced(c) == ran' = [ran EXCEPT ![c] = IF @ = 2 THEN 2 ELSE @ + 1]

GoesTo(c, place, p) ==
  /\ at' = [at EXCEPT ![c] = place]
  /\ page' = [page EXCEPT ![c] = p]

Live(kinds, p) == \A k \in kinds : <<k, p>> \in mapped

Enabled == {p \in Patches : flag[p] /\ \E o \in Objects : owns[o] = p}

Call(c) ==
  /\ Runs(c)
  /\ at[c] = "out"
  /\ GoesTo(c, "head", Null)
  /\ ran' = [ran EXCEPT ![c] = 0]
  /\ effects' = [effects EXCEPT ![c] = {}]
  /\ must' = [must EXCEPT ![c] = Enabled]
  /\ may' = [may EXCEPT ![c] = Enabled]
  /\ UNCHANGED <<memory, owner, crashed>>

(* The first instruction: of the function itself, of some patch's jmp, or  *)
(* part of each.                                                           *)
ExecHead(c) ==
  /\ at[c] = "head"
  /\ GoesTo(c, CASE head = Pristine -> "displaced"
                 [] head = Torn -> "wild"
                 [] OTHER -> "trampoline",
            IF head \in Patches THEN head ELSE Null)
  /\ UNCHANGED <<ran, effects>>

(* The rest of what a jmp would overwrite, executed in place.              *)
ExecDisplaced(c) ==
  /\ at[c] = "displaced"
  /\ IF head = Pristine THEN RunsDisplaced(c) /\ GoesTo(c, "body", Null)
                        ELSE UNCHANGED ran /\ GoesTo(c, "wild", Null)
  /\ UNCHANGED effects

ExecTrampoline(c) ==
  /\ at[c] = "trampoline"
  /\ GoesTo(c, IF Live({"trampoline"}, page[c]) THEN "check" ELSE "wild", page[c])
  /\ UNCHANGED <<ran, effects>>

ExecCheck(c) ==
  /\ at[c] = "check"
  /\ GoesTo(c, IF ~Live({"code", "flag"}, page[c]) \/ page[c] \in empty THEN "wild"
               ELSE IF flag[page[c]] THEN "patch" ELSE "relocated", page[c])
  /\ UNCHANGED <<ran, effects>>

ExecPatch(c) ==
  /\ at[c] = "patch"
  /\ IF Live({"code"}, page[c])
     THEN /\ effects' = [effects EXCEPT ![c] = @ \cup {page[c]}]
          /\ GoesTo(c, "relocated", page[c])
     ELSE UNCHANGED effects /\ GoesTo(c, "wild", page[c])
  /\ UNCHANGED ran

ExecRelocated(c) ==
  /\ at[c] = "relocated"
  /\ LET p == page[c] IN
     IF ~Live({"code"}, p) THEN GoesTo(c, "wild", p) /\ UNCHANGED ran
     ELSE IF saved[p] \in Patches THEN GoesTo(c, "trampoline", saved[p]) /\ UNCHANGED ran
     ELSE GoesTo(c, ReturnPoint, Null) /\ RunsDisplaced(c)
  /\ UNCHANGED effects

Return(c) ==
  /\ at[c] = "body"
  /\ GoesTo(c, "out", Null)
  /\ UNCHANGED <<ran, effects>>

CallStep(c) ==
  /\ Runs(c)
  /\ \/ ExecHead(c) \/ ExecDisplaced(c) \/ ExecTrampoline(c) \/ ExecCheck(c)
     \/ ExecPatch(c) \/ ExecRelocated(c) \/ Return(c)
  /\ UNCHANGED <<memory, owner, must, may, crashed>>

Init ==
  /\ callbacks \in Classes
  /\ head = Pristine
  /\ mapped = {}
  /\ flag = [p \in Patches |-> FALSE]
  /\ saved = [p \in Patches |-> Pristine]
  /\ empty = {}
  /\ used = {}
  /\ alive = {}
  /\ owns = [o \in Objects |-> Null]
  /\ job = << >>
  /\ jobFor = Null
  /\ at = [c \in Callers |-> "out"]
  /\ page = [c \in Callers |-> Null]
  /\ ran = [c \in Callers |-> 0]
  /\ effects = [c \in Callers |-> {}]
  /\ must = [c \in Callers |-> {}]
  /\ may = [c \in Callers |-> {}]
  /\ crashed = FALSE

Next ==
  /\ ~crashed
  /\ \/ OwnerStep
     \/ \E o \in Objects, p \in Patches : Construct(o, p)
     \/ \E o \in Objects : ConstructFails(o) \/ Destroy(o) \/ SetFlag(o, TRUE) \/ SetFlag(o, FALSE)
     \/ \E d, s \in Objects : MoveConstruct(d, s) \/ MoveAssign(d, s)
     \/ \E c \in Callers : Call(c) \/ CallStep(c)

Spec == Init /\ [][Next]_pvars

(* A constructor, destructor or assignment that has begun goes on, and so  *)
(* does every call that may run: both are threads the system schedules.    *)
FairSpec == Spec /\ WF_pvars(OwnerStep) /\ \A c \in Callers : WF_pvars(~crashed /\ CallStep(c))

-----------------------------------------------------------------------------
TypeOK ==
  /\ callbacks \in Classes
  /\ head \in Patches \cup {Pristine, Torn}
  /\ mapped \subseteq Kinds \X Patches
  /\ flag \in [Patches -> BOOLEAN]
  /\ saved \in [Patches -> Patches \cup {Pristine, Torn}]
  /\ empty \cup used \subseteq Patches
  /\ alive \subseteq Objects
  /\ owns \in [Objects -> Patches \cup {Null}]
  /\ jobFor \in Patches \cup {Null}
  /\ at \in [Callers -> {"out", "head", "displaced", "trampoline", "check", "patch",
                        "relocated", "body", "wild"}]
  /\ page \in [Callers -> Patches \cup {Null}]
  /\ ran \in [Callers -> 0 .. 2]
  /\ {effects, must, may} \subseteq [Callers -> SUBSET Patches]
  /\ crashed \in BOOLEAN

(* No caller executes memory that was freed, a half written jmp, or the    *)
(* inside of a jmp, however calls, flag changes, stacking, moves, releases *)
(* and constructors that throw are interleaved (constructor, destructor,   *)
(* operator=).                                                             *)
NoWildExecution == \A c \in Callers : at[c] # "wild"

(* Every call runs the displaced instructions exactly once, patched or     *)
(* not, enabled or not (the "return:" part of the generated code).         *)
DisplacedRunOnce ==
  \A c \in Callers : /\ ran[c] <= 1
                     /\ at[c] = "body" => ran[c] = 1

(* A call runs the code of every patch that is enabled from its beginning  *)
(* to its end, and of no patch that is never enabled meanwhile, also when  *)
(* patches are stacked or moved (the flag check of the generated code).    *)
EnabledPatchesRun ==
  \A c \in Callers : at[c] = "body" => must[c] \subseteq effects[c] /\ effects[c] \subseteq may[c]

(* Every call returns.                                                     *)
CallsReturn == \A c \in Callers : at[c] # "out" ~> at[c] = "out"

(* Memory is freed exactly when its patch has no owner: neither moves nor  *)
(* constructors that throw leak or share it (the unique_ptr members).      *)
MemoryFollowsOwners ==
  Idle => mapped = Kinds \X {owns[o] : o \in {p \in Objects : owns[p] # Null}}

(* Whatever the function starts with leads to live memory only.            *)
EntrypointReachesLiveMemory == head \in Patches => Live(Kinds, head)
=============================================================================
