----------------------------- MODULE PrologHook -----------------------------
(***************************************************************************)
(* PrologHook (include/B3L/PrologHook.h, src/PrologHook.cpp): an           *)
(* InlineDetour that leads to the client's hook procedure, and a thunk     *)
(* through which the procedure invokes what the function was before.       *)
(* Threads call the function meanwhile.  Hooks cannot be moved.            *)
(***************************************************************************)
EXTENDS Naturals

CONSTANTS Hooks,      (* storage in which hook objects live; each stands   *)
                      (* for its procedure, trampoline and thunk           *)
          Code,       (* what else the function may start with             *)
          Pristine,   (* the instructions it came with                     *)
          Null,
          Callers,    (* threads that call the function                    *)
          Shapes,     (* the first instructions the function may have      *)
          MayFail,    (* whether assembling a thunk may fail               *)
          ClientRules (* what the client promises, see below               *)

ASSUME PrologAssumption ==
  /\ Pristine \in Code
  /\ Code \cap Hooks = {}
  /\ Null \notin Code \cup Hooks
  /\ Shapes \subseteq {"plain", "jmp", "jmp_rip", "jmp_mem"}

(***************************************************************************)
(* The promises a client may make:                                         *)
(*   "suspended": it makes and destroys hooks only while no thread is in a *)
(*       call, and none calls until that is done (the TODOs of             *)
(*       InlineDetour.cpp leave this to the client);                       *)
(*   "nested": it destroys no hook whose jmp another one displaced;        *)
(*   "jump_entries": it hooks only functions that start with one jmp to an *)
(*       address or through memory relative to rip.                        *)
(***************************************************************************)
VARIABLES head,   (* what the function starts with: code, or the jmp of a  *)
                  (* hook, named by it                                     *)
          shape,  (* what Pristine is, as far as the thunk's author looks  *)
          stage,  (* "none", "jumping", "live" or "dying" for each hook    *)
          saved,  (* the instructions each hook displaced                  *)
          at,     (* where each caller is                                  *)
          via,    (* the hook it is in                                     *)
          ran     (* how often its call ran the code at the bottom         *)

objects == <<stage, saved>>
calls   == <<at, via, ran>>
kvars   == <<head, shape, objects, calls>>

FollowsJmp(c) == c \in Hooks \cup {Pristine} /\ (c = Pristine => shape \in {"jmp", "jmp_rip"})

(* Seeded faults: the thunk goes behind a jmp through memory instead of    *)
(* following it; the destructor leaves the jmp.                            *)
FollowsOnlyDirect(c) == c = Pristine /\ shape = "jmp"
LeavesJmp(h)         == head

-----------------------------------------------------------------------------
Quiet ==
  /\ \A h \in Hooks : stage[h] \notin {"jumping", "dying"}
  /\ "suspended" \in ClientRules => \A c \in Callers : at[c] = "out"

Runs == "suspended" \in ClientRules => \A h \in Hooks : stage[h] \in {"none", "live"}

(* Where the thunk of a hook that displaced c goes, and whether what c     *)
(* does was done by then.  Only a single jmp is looked at: to an address,  *)
(* through memory relative to rip (of any other jmp through memory the     *)
(* displacement is misread).  Other instructions are left out.             *)
Exit(c) ==
  CASE c \in Hooks                -> "hook"
    [] c = Pristine /\ shape = "jmp_mem" -> "wild"
    [] OTHER                      -> "rest"

Done(c) == c = Pristine /\ FollowsJmp(c)

(* restoreEntrypoint().                                                    *)
Restored(h) == saved[h]

Init ==
  /\ head = Pristine
  /\ shape \in Shapes
  /\ stage = [h \in Hooks |-> "none"]
  /\ saved = [h \in Hooks |-> Null]
  /\ at = [c \in Callers |-> "out"]
  /\ via = [c \in Callers |-> Null]
  /\ ran = [c \in Callers |-> 0]

(* The base class is constructed: the function leads to the procedure.     *)
Construct(h) ==
  /\ Quiet
  /\ "jump_entries" \in ClientRules => FollowsJmp(head)
  /\ stage[h] = "none"
  /\ stage' = [stage EXCEPT ![h] = "jumping"]
  /\ saved' = [saved EXCEPT ![h] = head]
  /\ head' = h
  /\ UNCHANGED <<shape, calls>>

BuildOriginalEntryPointThunk(h) ==
  /\ stage[h] = "jumping"
  /\ stage' = [stage EXCEPT ![h] = "live"]
  /\ UNCHANGED <<head, shape, saved, calls>>

(* If assembling fails the constructor throws, and the base class          *)
(* restores; allocate() does not fail, it goes on searching.               *)
BuildFails(h) ==
  /\ MayFail
  /\ stage[h] = "jumping"
  /\ stage' = [stage EXCEPT ![h] = "dying"]
  /\ UNCHANGED <<head, shape, saved, calls>>

(* The destructor frees the thunk first, then the base class restores.     *)
Destroy(h) ==
  /\ Quiet
  /\ stage[h] = "live"
  /\ "nested" \in ClientRules => \A g \in Hooks : saved[g] # h
  /\ stage' = [stage EXCEPT ![h] = "dying"]
  /\ UNCHANGED <<head, shape, saved, calls>>

Restore(h) ==
  /\ stage[h] = "dying"
  /\ stage' = [stage EXCEPT ![h] = "none"]
  /\ saved' = [saved EXCEPT ![h] = Null]
  /\ head' = Restored(h)
  /\ UNCHANGED <<shape, calls>>

-----------------------------------------------------------------------------
GoesTo(c, place, h) ==
  /\ at' = [at EXCEPT ![c] = place]
  /\ via' = [via EXCEPT ![c] = h]

Counts(c, yes) == ran' = [ran EXCEPT ![c] = IF yes /\ @ < 2 THEN @ + 1 ELSE @]

Call(c) ==
  /\ Runs
  /\ at[c] = "out"
  /\ GoesTo(c, "head", Null)
  /\ ran' = [ran EXCEPT ![c] = 0]

ExecHead(c) ==
  /\ at[c] = "head"
  /\ IF head \in Code THEN GoesTo(c, "rest", Null) /\ Counts(c, TRUE)
     ELSE GoesTo(c, IF stage[head] = "none" THEN "wild" ELSE "hook", head) /\ Counts(c, FALSE)

(* The procedure returns without more ado.                                 *)
HookReturns(c) ==
  /\ at[c] = "hook"
  /\ GoesTo(c, "out", Null)
  /\ Counts(c, FALSE)

(* invokeOriginal() through the thunk, if there is one.                    *)
InvokeOriginal(c) ==
  /\ at[c] = "hook"
  /\ IF stage[via[c]] # "live" THEN GoesTo(c, "wild", via[c]) /\ Counts(c, FALSE)
     ELSE LET d == saved[via[c]] IN
          /\ GoesTo(c, Exit(d), IF d \in Hooks THEN d ELSE Null)
          /\ Counts(c, Done(d))

Return(c) ==
  /\ at[c] = "rest"
  /\ GoesTo(c, "out", Null)
  /\ Counts(c, FALSE)

CallStep(c) == ExecHead(c) \/ HookReturns(c) \/ InvokeOriginal(c) \/ Return(c)

Next ==
  \/ \E h \in Hooks : \/ Construct(h) \/ BuildOriginalEntryPointThunk(h) \/ BuildFails(h)
                      \/ Destroy(h) \/ Restore(h)
  \/ \E c \in Callers : (Call(c) \/ CallStep(c)) /\ UNCHANGED <<head, shape, objects>>
=============================================================================
