-------------------------------- MODULE Thunk --------------------------------
(***************************************************************************)
(* Thunk and MemberFunctionCallThunk (include/B3L/Thunk.h): a page of      *)
(* machine code that calls a member function of one instance.  Thunks can  *)
(* be copied, moved and assigned.                                          *)
(***************************************************************************)
CONSTANTS Objects, Pages, Instances,
          Zeros,       (* what a fresh page holds                          *)
          Null,
          MayFail,     (* whether VirtualProtect may fail                  *)
          ClientRules  (* "no_self_copy": no thunk is assigned to itself  *)

VARIABLES page,    (* the page of each object                              *)
          content, (* the instance the code of each page calls             *)
          mapped,  (* pages that are allocated                             *)
          alive,   (* storage that holds an object                         *)
          means,   (* history: the instance each object should call        *)
          faulted  (* whether a null page was read                         *)

vars == <<page, content, mapped, alive, means, faulted>>

(* Seeded faults: the old page is leaked; every copy is of the fresh page. *)
LeavesOldPage(d)  == mapped
CopiesBlank(d, s) == Zeros

-----------------------------------------------------------------------------
(* What a copy puts on its new page: of itself, the fresh page.            *)
Copied(d, s) == IF d = s THEN Zeros ELSE content[page[s]]

PagesAfterReset(d) == mapped \ {page[d]}

Init ==
  /\ page = [o \in Objects |-> Null]
  /\ content = [p \in Pages |-> Zeros]
  /\ mapped = {}
  /\ alive = {}
  /\ means = [o \in Objects |-> Null]
  /\ faulted = FALSE

DefaultConstruct(o) ==
  /\ o \notin alive
  /\ alive' = alive \cup {o}
  /\ UNCHANGED <<page, content, mapped, means, faulted>>

(* A constructor whose last step, setPageProtection, fails frees the page. *)
Construct(o, i, p) ==
  /\ o \notin alive
  /\ p \notin mapped
  /\ content' = [content EXCEPT ![p] = i]
  /\ \/ /\ page' = [page EXCEPT ![o] = p]
        /\ mapped' = mapped \cup {p}
        /\ alive' = alive \cup {o}
        /\ means' = [means EXCEPT ![o] = i]
     \/ MayFail /\ UNCHANGED <<page, mapped, alive, means>>
  /\ UNCHANGED faulted

(* operator=(const Thunk&), and the copy constructor, which calls it: the  *)
(* page is replaced before the other thunk is read.                        *)
Copy(d, s, p, fails) ==
  /\ s \in alive
  /\ p \notin mapped
  /\ "no_self_copy" \in ClientRules => d # s
  /\ fails => MayFail
  /\ IF page[s] = Null /\ d # s
     THEN faulted' = TRUE /\ UNCHANGED <<page, content, mapped, alive, means>>
     ELSE /\ content' = [content EXCEPT ![p] = Copied(d, s)]
          /\ IF fails /\ d \notin alive
             THEN UNCHANGED <<page, mapped, alive, means>>
             ELSE /\ page' = [page EXCEPT ![d] = p]
                  /\ mapped' = PagesAfterReset(d) \cup {p}
                  /\ alive' = alive \cup {d}
                  /\ means' = [means EXCEPT ![d] = means[s]]
          /\ UNCHANGED faulted

(* Both moves: unique_ptr gives up the target's page and takes the other.  *)
Move(d, s) ==
  /\ s \in alive
  /\ d # s
  /\ page' = [page EXCEPT ![d] = page[s], ![s] = Null]
  /\ mapped' = PagesAfterReset(d)
  /\ alive' = alive \cup {d}
  /\ means' = [means EXCEPT ![d] = means[s], ![s] = Null]
  /\ UNCHANGED <<content, faulted>>

Destroy(o) ==
  /\ o \in alive
  /\ page' = [page EXCEPT ![o] = Null]
  /\ mapped' = PagesAfterReset(o)
  /\ alive' = alive \ {o}
  /\ means' = [means EXCEPT ![o] = Null]
  /\ UNCHANGED <<content, faulted>>

Next ==
  /\ ~faulted
  /\ \/ \E o \in Objects : DefaultConstruct(o) \/ Destroy(o)
     \/ \E o \in Objects, i \in Instances, p \in Pages : Construct(o, i, p)
     \/ \E d, s \in Objects : \/ Move(d, s)
                              \/ \E p \in Pages, fails \in BOOLEAN : Copy(d, s, p, fails)

Spec == Init /\ [][Next]_vars

-----------------------------------------------------------------------------
(* A thunk calls the instance it was made or copied for, from a page that  *)
(* is its own, through all copies, moves and failures.                     *)
ThunkCallsItsOwn ==
  \A o \in Objects : means[o] # Null =>
    /\ page[o] \in mapped
    /\ content[page[o]] = means[o]
    /\ \A q \in Objects \ {o} : page[q] # page[o]

(* No page is leaked.                                                      *)
NoPageLeaked == \A p \in mapped : \E o \in Objects : page[o] = p
=============================================================================
