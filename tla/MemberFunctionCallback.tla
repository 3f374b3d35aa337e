----------------------- MODULE MemberFunctionCallback -----------------------
(***************************************************************************)
(* bindInstance (include/B3L/MemberFunctionCalllback.h): an instance is    *)
(* bound, for good, to the static delegate of an ID; the free function it  *)
(* returns calls whatever is bound there.                                  *)
(***************************************************************************)
CONSTANTS Ids, Instances, Threads, Null,
          ClientRules  (* "one_binder": no two threads bind at once;       *)
                       (* "outlives": a bound instance is not destroyed    *)

VARIABLES func,   (* the instance each delegate calls                      *)
          alive,  (* instances that exist                                  *)
          asks,   (* <<id, instance>> that a thread found free, or Null    *)
          bound,  (* history: <<id, instance>> for which bindInstance      *)
                  (* returned a callback                                   *)
          called  (* the instance the last callback reached, or Null       *)

vars == <<func, alive, asks, bound, called>>

(* A seeded fault: nobody looks whether the delegate is bound.             *)
AlwaysFree(id) == TRUE

-----------------------------------------------------------------------------
IsFree(id) == func[id] = Null

Init ==
  /\ func = [id \in Ids |-> Null]
  /\ alive = Instances
  /\ asks = [t \in Threads |-> Null]
  /\ bound = {}
  /\ called = Null

(* bindInstance() up to the check; it throws if the delegate is bound.     *)
Check(t, id, i) ==
  /\ asks[t] = Null
  /\ "one_binder" \in ClientRules => \A u \in Threads : asks[u] = Null
  /\ i \in alive
  /\ asks' = [asks EXCEPT ![t] = IF IsFree(id) THEN <<id, i>> ELSE Null]
  /\ UNCHANGED <<func, alive, bound, called>>

Bind(t) ==
  /\ asks[t] # Null
  /\ func' = [func EXCEPT ![asks[t][1]] = asks[t][2]]
  /\ bound' = bound \cup {asks[t]}
  /\ asks' = [asks EXCEPT ![t] = Null]
  /\ UNCHANGED <<alive, called>>

(* A client calls what it got; callback() runs func on its instance.       *)
Callback(id, i) ==
  /\ <<id, i>> \in bound
  /\ called' = func[id]
  /\ UNCHANGED <<func, alive, asks, bound>>

DestroyInstance(i) ==
  /\ i \in alive
  /\ "outlives" \in ClientRules => /\ \A id \in Ids : <<id, i>> \notin bound
                                   /\ \A t \in Threads : asks[t] # Null => asks[t][2] # i
  /\ alive' = alive \ {i}
  /\ called' = Null
  /\ UNCHANGED <<func, asks, bound>>

Next ==
  \/ \E t \in Threads, id \in Ids, i \in Instances : Check(t, id, i)
  \/ \E t \in Threads : Bind(t)
  \/ \E id \in Ids, i \in Instances : Callback(id, i)
  \/ \E i \in Instances : DestroyInstance(i)

Spec == Init /\ [][Next]_vars

-----------------------------------------------------------------------------
(* A callback reaches the instance it was bound to, and that one exists,   *)
(* whoever else tried to bind to the same delegate (bindInstance's check). *)
CallbackReachesBound ==
  [][\A id \in Ids, i \in Instances : Callback(id, i) => called' = i /\ i \in alive]_vars
=============================================================================
