------------------------------- MODULE Unique -------------------------------
(***************************************************************************)
(* Unique (include/B3L/Unique.h): a base class whose constructor takes a   *)
(* mutex of the class, or throws; the lock moves with the object.          *)
(***************************************************************************)
CONSTANTS Objects

VARIABLES locked,  (* whether the mutex is taken                           *)
          owns,    (* objects whose lock owns it                           *)
          alive,   (* storage that holds an object                         *)
          hollow   (* history: objects that were moved from, or assigned   *)
                   (* from such an object                                  *)

vars == <<locked, owns, alive, hollow>>

(* A seeded fault: a move leaves the source its lock.                      *)
SourceKeeps(d, s) == IF s \in owns THEN owns \cup {d} ELSE owns \ {d}

-----------------------------------------------------------------------------
(* The locks after that of s was moved to d.                               *)
Moved(d, s) == IF s \in owns THEN (owns \ {s}) \cup {d} ELSE owns \ {d}

Init == locked = FALSE /\ owns = {} /\ alive = {} /\ hollow = {}

(* try_lock(); if it fails the constructor throws and the lock, which owns *)
(* nothing, releases nothing.                                              *)
Construct(o) ==
  /\ o \notin alive
  /\ ~locked
  /\ locked' = TRUE
  /\ owns' = owns \cup {o}
  /\ alive' = alive \cup {o}
  /\ UNCHANGED hollow

Destroy(o) ==
  /\ o \in alive
  /\ locked' = (locked /\ o \notin owns)
  /\ owns' = owns \ {o}
  /\ alive' = alive \ {o}
  /\ hollow' = hollow \ {o}

MoveConstruct(d, s) ==
  /\ d \notin alive
  /\ s \in alive
  /\ owns' = Moved(d, s)
  /\ alive' = alive \cup {d}
  /\ hollow' = hollow \cup {s} \cup (IF s \in hollow THEN {d} ELSE {})
  /\ UNCHANGED locked

(* The target's own lock is given up first.  Assigned to itself a lock     *)
(* stays as it is (MSVC's unique_lock).                                    *)
MoveAssign(d, s) ==
  /\ {d, s} \subseteq alive
  /\ IF d = s THEN UNCHANGED vars
     ELSE /\ locked' = (locked /\ d \notin owns)
          /\ owns' = Moved(d, s)
          /\ hollow' = (hollow \ {d}) \cup {s} \cup (IF s \in hollow THEN {d} ELSE {})
          /\ UNCHANGED alive

Next ==
  \/ \E o \in Objects : Construct(o) \/ Destroy(o)
  \/ \E d, s \in Objects : MoveConstruct(d, s) \/ MoveAssign(d, s)

Spec == Init /\ [][Next]_vars

-----------------------------------------------------------------------------
(* Of all objects that are alive at most one has not been moved from, and  *)
(* the mutex is held exactly as long as there is one: after the last is    *)
(* gone another can be made, through whatever chain of moves.              *)
OneInstance ==
  /\ \A a, b \in alive \ hollow : a = b
  /\ locked <=> alive \ hollow # {}
=============================================================================
