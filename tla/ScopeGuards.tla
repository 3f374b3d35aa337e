----------------------------- MODULE ScopeGuards -----------------------------
(***************************************************************************)
(* include/B3L/ScopeExit.h: guards that run a callable when the scope they *)
(* are in is left: always, if it is left normally, or by an exception.     *)
(* What decides is whether an exception is in flight anywhere in the       *)
(* thread, as std::uncaught_exceptions() tells: while a callable runs      *)
(* during unwinding, one is, in whatever scope it enters.                  *)
(***************************************************************************)
EXTENDS Integers, SequencesExt

CONSTANTS MaxDepth,    (* bound: nested scopes                             *)
          MaxGuards,   (* bound: guards made in one scope                  *)
          ClientRules  (* what the client promises, see below              *)

(* The promise a client may make: "quiet_callables": its callables let no  *)
(* exception out.                                                          *)
VARIABLES scopes,     (* the scopes the thread is in, the innermost last   *)
          flying,     (* exceptions in flight                              *)
          terminated  (* std::terminate was called                         *)

vars == <<scopes, flying, terminated>>

(* A seeded fault: a guard asks for the one exception of its own scope.    *)
RunsForOne(kind) ==
  \/ kind = "exit"
  \/ kind = "success" /\ flying = 0
  \/ kind = "failure" /\ flying = 1

-----------------------------------------------------------------------------
Kinds == {"exit", "success", "failure"}

(* A scope: the guards made in it and those still there, whose callables   *)
(* were run, whether it is being left and how, whether it catches what is  *)
(* thrown in it, whether it is the body of a callable, and whether an      *)
(* exception was in flight already when it was entered.                    *)
Scope(catches, callable, unwinding) ==
  [made |-> << >>, live |-> << >>, ran |-> << >>, leaves |-> "no",
   catches |-> catches, callable |-> callable, unwinding |-> unwinding]

Inner == Last(scopes)

Init ==
  /\ scopes = <<Scope(TRUE, FALSE, FALSE)>>
  /\ flying = 0
  /\ terminated = FALSE

(* std::uncaught_exceptions() is not asked by a guard that always runs.    *)
Runs(kind) ==
  \/ kind = "exit"
  \/ kind = "success" /\ flying = 0
  \/ kind = "failure" /\ flying > 0

-----------------------------------------------------------------------------
InScope == ~terminated /\ scopes # << >> /\ Inner.leaves = "no"

Enter(catches) ==
  /\ InScope /\ Len(scopes) < MaxDepth
  /\ scopes' = Append(scopes, Scope(catches, FALSE, flying > 0))
  /\ UNCHANGED <<flying, terminated>>

(* SCOPE_EXIT, SCOPE_SUCCESS, SCOPE_FAILURE.                               *)
MakeGuard(kind) ==
  /\ InScope /\ Len(Inner.made) < MaxGuards /\ Len(scopes) < MaxDepth
  /\ scopes' = [scopes EXCEPT ![Len(scopes)].made = Append(@, kind),
                              ![Len(scopes)].live = Append(@, kind)]
  /\ UNCHANGED <<flying, terminated>>

Return ==
  /\ InScope
  /\ scopes' = [scopes EXCEPT ![Len(scopes)].leaves = "normally"]
  /\ UNCHANGED <<flying, terminated>>

(* The scope that decides what becomes of an exception.                    *)
Stopper == CHOOSE i \in DOMAIN scopes :
             /\ scopes[i].catches \/ scopes[i].callable
             /\ \A j \in i + 1 .. Len(scopes) : ~scopes[j].catches /\ ~scopes[j].callable

Throw ==
  /\ InScope
  /\ "quiet_callables" \in ClientRules => scopes[Stopper].catches
  /\ scopes' = [scopes EXCEPT ![Len(scopes)].leaves = "thrown"]
  /\ flying' = flying + 1
  /\ UNCHANGED terminated

(* ~ScopeExit of the guard made last: the callable is a scope of its own.  *)
Destroy ==
  /\ ~terminated /\ scopes # << >> /\ Inner.leaves # "no" /\ Inner.live # << >>
  /\ LET kind == Last(Inner.live)
         left == [Inner EXCEPT !.live = Front(@), !.ran = IF Runs(kind) THEN Append(@, kind) ELSE @]
     IN \E catches \in BOOLEAN :
          scopes' = Front(scopes) \o <<left>> \o IF Runs(kind) THEN <<Scope(catches, TRUE, flying > 0)>> ELSE << >>
  /\ UNCHANGED <<flying, terminated>>

(* The scope is gone: control goes on outside, or behind its handler, or   *)
(* the exception leaves the next scope, but not a destructor.              *)
Leave ==
  /\ ~terminated /\ scopes # << >> /\ Inner.leaves # "no" /\ Inner.live = << >>
  /\ LET thrown  == Inner.leaves = "thrown"
         escapes == thrown /\ ~Inner.catches
         outside == Front(scopes)
     IN /\ terminated' = (escapes /\ Inner.callable)
        /\ flying' = flying - (IF thrown /\ Inner.catches THEN 1 ELSE 0)
        /\ scopes' = IF escapes /\ ~Inner.callable
                     THEN [outside EXCEPT ![Len(outside)].leaves = "thrown"] ELSE outside

Next ==
  \/ \E catches \in BOOLEAN : Enter(catches)
  \/ \E kind \in Kinds : MakeGuard(kind)
  \/ Return \/ Throw \/ Destroy \/ Leave

Spec == Init /\ [][Next]_vars

-----------------------------------------------------------------------------
(* Those of the guards made that are of these kinds, the last first.       *)
LastFirst(made, kinds) ==
  LET chosen[k \in 0 .. Len(made)] ==
        IF k = 0 THEN << >>
        ELSE IF made[k] \in kinds THEN <<made[k]>> \o chosen[k - 1] ELSE chosen[k - 1]
  IN chosen[Len(made)]

(* The kinds of guards that are to run where scope s is left: where an     *)
(* exception was in flight already it counts as left by one.               *)
Due(s) == {"exit", IF s.leaves = "thrown" \/ s.unwinding THEN "failure" ELSE "success"}

(* How a scope is left decides which guards ran, in the reverse order of   *)
(* their making, whatever was thrown and caught meanwhile.  No guard ends  *)
(* the process.                                                            *)
GuardsFollowExit ==
  /\ ~terminated
  /\ \A i \in DOMAIN scopes : LET s == scopes[i] IN
       s.leaves # "no" /\ s.live = << >> => s.ran = LastFirst(s.made, Due(s))
=============================================================================
