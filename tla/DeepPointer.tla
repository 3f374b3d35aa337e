----------------------------- MODULE DeepPointer -----------------------------
(***************************************************************************)
(* DeepPointer (include/B3L/DeepPointer.h): a base address and offsets,    *)
(* followed through memory the program does not control.  Other threads    *)
(* change pointers and page rights between any two reads.                  *)
(***************************************************************************)
EXTENDS Integers, Sequences

CONSTANTS MaxAddress,  (* addresses 1 .. MaxAddress are the application's  *)
          OffsetLists, (* the lists of offsets a pointer is made with      *)
          ClientRules  (* what the client promises, see below              *)

(***************************************************************************)
(* The promises a client may make about the memory it follows:             *)
(*   "one_link": while a call runs, no more than one cell on the way       *)
(*       changes, and the way passes it once;                              *)
(*   "no_guards": no page on the way is a guard page.                      *)
(***************************************************************************)
VARIABLES base,     (* the base address                                    *)
          offsets,  (* the offsets; none in a default constructed pointer  *)
          cell,     (* what each address holds                             *)
          right,    (* what may be done where the walk is now              *)
          walk,     (* "idle", "walking", "access" or how the call ended   *)
          addr,     (* the address reached                                 *)
          link,     (* the index of the offset added last                  *)
          targets,  (* history: where the chain led during the call        *)
          changed   (* history: cells that changed during the call         *)

memory == <<cell, right>>
vars   == <<base, offsets, memory, walk, addr, link, targets, changed>>

Addresses == 1 .. MaxAddress
Rights    == {"none", "read", "write", "guard"}
Values    == 0 .. MaxAddress
Running   == walk \in {"walking", "access"}

(* Seeded faults: the first offset is added at every link; the handlers    *)
(* take the wrong exception.                                               *)
RepeatsFirst(i)  == offsets[1]
TakesGuards      == {"guard"}

-----------------------------------------------------------------------------
(* What getAddress() adds at link i.                                       *)
OffsetAt(i) == offsets[i]

InRange(a) == a \in Addresses

(* The exceptions the handlers of get(), set() and getAddress() take.      *)
Handled == {"violation"}

(* What a read or a write raises.                                          *)
Raises(kind) ==
  IF right = "guard" THEN "guard"
  ELSE IF right = "none" \/ (right = "read" /\ kind = "write") THEN "violation"
  ELSE "nothing"

(* The end of the chain if it were followed at once; 0 if it has none.     *)
Reached[i \in 1 .. Len(offsets)] ==
  IF i = 1 THEN base + offsets[1]
  ELSE IF InRange(Reached[i - 1]) THEN cell[Reached[i - 1]] + offsets[i] ELSE 0

(* The way reads cell a at most once.                                      *)
PassedOnce(a) ==
  \A i, j \in 1 .. Len(offsets) - 1 : Reached[i] = a /\ Reached[j] = a => i = j

(* isValidState().                                                         *)
Valid(b, list) == InRange(b) /\ list # << >>

Init ==
  /\ \/ \E b \in Addresses, list \in OffsetLists : Valid(b, list) /\ base = b /\ offsets = list
     \/ base = 0 /\ offsets = << >>
  /\ cell \in [Addresses -> Values]
  /\ right = "write"
  /\ walk = "idle"
  /\ addr = 0
  /\ link = 0
  /\ targets = {}
  /\ changed = {}

(* operator= from null, and from a pointer; that one throws if the pointer *)
(* is not valid, and changes nothing.                                      *)
Assign(p) ==
  /\ ~Running
  /\ IF p = 0 THEN base' = 0 /\ offsets' = << >>
     ELSE base' = p /\ offsets' = <<0>>
  /\ UNCHANGED <<memory, walk, addr, link, targets, changed>>

(* get(), getOr() and set() begin with getAddress().                       *)
Begin ==
  /\ ~Running
  /\ IF offsets = << >> THEN walk' = "nothing" /\ UNCHANGED <<addr, link>>
     ELSE walk' = "walking" /\ addr' = base + OffsetAt(1) /\ link' = 1
  /\ targets' = IF offsets = << >> THEN {} ELSE {Reached[Len(offsets)]}
  /\ changed' = {}
  /\ UNCHANGED <<base, offsets, memory>>

Stops(how) == walk' = how /\ UNCHANGED <<addr, link>>

(* Comparisons, and the conversion to bool, need no more than the address. *)
Inspected == Stops("done")

(* One turn of the loop, and the last range check, after which the address *)
(* is returned or used.                                                    *)
Follow ==
  /\ walk = "walking"
  /\ IF ~InRange(addr) THEN Stops("nothing")
     ELSE IF link = Len(offsets) THEN Stops("access") \/ Inspected
     ELSE IF Raises("read") = "nothing"
          THEN /\ addr' = cell[addr] + OffsetAt(link + 1)
               /\ link' = link + 1
               /\ UNCHANGED walk
     ELSE Stops(IF Raises("read") \in Handled THEN "nothing" ELSE "terminated")
  /\ UNCHANGED <<base, offsets, memory, targets, changed>>

(* The read of get() or the write of set().                                *)
Access(kind) ==
  /\ walk = "access"
  /\ LET raised == Raises(kind) IN
     /\ Stops(IF raised = "nothing" THEN "done"
              ELSE IF raised \in Handled THEN "nothing" ELSE "terminated")
     /\ IF kind = "write" /\ raised = "nothing"
        THEN \E v \in Values : cell' = [cell EXCEPT ![addr] = v]
        ELSE UNCHANGED cell
  /\ UNCHANGED <<base, offsets, right, targets, changed>>

(* Another thread stores a pointer, or changes the right of a page.        *)
OtherStores(a, v) ==
  /\ walk = "walking"
  /\ UNCHANGED <<base, offsets, right, walk, addr, link>>
  /\ cell' = [cell EXCEPT ![a] = v]
  /\ "one_link" \in ClientRules => changed \subseteq {a} /\ PassedOnce(a) /\ PassedOnce(a)'
  /\ targets' = targets \cup {Reached[Len(offsets)]'}
  /\ changed' = changed \cup {a}

OtherProtects(r) ==
  /\ Running
  /\ "no_guards" \in ClientRules => r # "guard"
  /\ right' = r
  /\ UNCHANGED <<base, offsets, cell, walk, addr, link, targets, changed>>

Next ==
  \/ \E p \in Values : Assign(p)
  \/ Begin \/ Follow
  \/ \E kind \in {"read", "write"} : Access(kind)
  \/ \E a \in Addresses, v \in Values : OtherStores(a, v)
  \/ \E r \in Rights : OtherProtects(r)

Spec == Init /\ [][Next]_vars

-----------------------------------------------------------------------------
(* get() and set() touch, and getAddress() returns, only an address the    *)
(* chain led to at some moment of the call.                                *)
NoTornChain == walk \in {"access", "done"} => addr \in targets

(* A failing access makes get() or set() return, it does not end the       *)
(* process, although the rights change behind the range checks (the        *)
(* handlers of get, set and getAddress).                                   *)
NeverTerminates == walk # "terminated"
=============================================================================
