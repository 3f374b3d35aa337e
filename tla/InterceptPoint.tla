--------------------------- MODULE InterceptPoint ---------------------------
(***************************************************************************)
(* What every interception class of B3L promises its client, said without  *)
(* pages, bytes or objects.  A point (an import table entry, a vtable      *)
(* entry, the first bytes of a function) leads either to a handler some    *)
(* live object answers for, or to code outside the library.  Attaching,    *)
(* switching and detaching keep it that way, and detaching one handler     *)
(* never diverts a point that leads somewhere else.                        *)
(***************************************************************************)
CONSTANTS Points,    (* what can be intercepted                            *)
          Handlers,  (* where an interception may lead                     *)
          Outside,   (* code the library does not answer for: no handlers, *)
                     (* and Pristine among it                              *)
          Pristine   (* what a point leads to before anything is attached  *)

VARIABLES target,    (* where each point leads                             *)
          owned      (* the handlers of each point that have a live owner  *)

ivars == <<target, owned>>

Init ==
  /\ target = [p \in Points |-> Pristine]
  /\ owned = [p \in Points |-> {}]

(* A handler gets an owner, and the point may lead to it at once.          *)
Attach(p, h) ==
  /\ owned' = [owned EXCEPT ![p] = @ \cup {h}]
  /\ \/ UNCHANGED target
     \/ target' = [target EXCEPT ![p] = h]

(* The point is led to an owned handler or to outside code.                *)
Switch(p) ==
  /\ UNCHANGED owned
  /\ \E f \in owned[p] \cup Outside : target' = [target EXCEPT ![p] = f]

(* A handler loses its owner; only a point that led to it is diverted.     *)
Detach(p, h) ==
  /\ owned' = [owned EXCEPT ![p] = @ \ {h}]
  /\ IF target[p] = h
     THEN \E f \in (owned[p] \ {h}) \cup Outside : target' = [target EXCEPT ![p] = f]
     ELSE UNCHANGED target

Next == \E p \in Points : \/ Switch(p)
                          \/ \E h \in Handlers : Attach(p, h) \/ Detach(p, h)

Spec == Init /\ [][Next]_ivars
=============================================================================
