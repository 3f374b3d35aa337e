--------------------------- MODULE NearAllocator ---------------------------
(***************************************************************************)
(* VirtualAllocAllocator (include/B3L/Allocator.h): to get a page within   *)
(* jmp distance of a function, allocate() asks VirtualAlloc for the        *)
(* address itself, one granule above, one below, two above ... until one   *)
(* of the calls succeeds.  Other threads take and release memory between   *)
(* the calls.  Addresses are counted in allocation granules; an allocation *)
(* of the library fits into one.                                           *)
(***************************************************************************)
EXTENDS Integers

CONSTANTS GranuleCount, (* granules 1 .. GranuleCount can be allocated     *)
          Threads       (* threads that allocate                           *)

ASSUME AllocatorAssumption == GranuleCount \in Nat

VARIABLES busy,  (* granules that are taken, by whomever                   *)
          pc,    (* "idle", "probing" or "done"                            *)
          hint,  (* the granule of the hint; 0 is the one nothing is in    *)
          exact, (* whether the hint is the very start of its granule      *)
          disp,  (* the displacement of the next probe                     *)
          got,   (* the granule allocate() returned                        *)
          kept   (* history: granules free ever since the call began       *)

avars == <<busy, pc, hint, exact, disp, got, kept>>

Granules  == 1 .. GranuleCount
Abs(d)    == IF d < 0 THEN -d ELSE d
Dist(t, g) == Abs(g - hint[t])

(* Seeded faults: only addresses above the hint are tried; the sign flips  *)
(* but the displacement never grows.                                       *)
OnlyUpward(d) == d + 1
OnlyFlips(d)  == -d

-----------------------------------------------------------------------------
(* disp = -disp; if(disp >= 0) disp += granularity;                        *)
NextDisp(d) == IF -d >= 0 THEN -d + 1 ELSE -d

(* Displacements at which every probe lies outside of the address range.   *)
Beyond == GranuleCount + 1

Address(t) == hint[t] + disp[t]

(* A null address leaves the choice to the system.                         *)
IsNull(t) == Address(t) = 0 /\ exact[t]

(* What VirtualAlloc may return for the next probe.                        *)
Grants(t) ==
  IF IsNull(t) THEN Granules \ busy ELSE {g \in Granules \ busy : g = Address(t)}

Init ==
  /\ busy \in SUBSET Granules
  /\ pc = [t \in Threads |-> "idle"]
  /\ hint = [t \in Threads |-> 0]
  /\ exact = [t \in Threads |-> TRUE]
  /\ disp = [t \in Threads |-> 0]
  /\ got = [t \in Threads |-> 0]
  /\ kept = [t \in Threads |-> {}]

(* allocate(n, hint); without a hint it is a null pointer.                 *)
Allocate(t, h, e) ==
  /\ pc[t] = "idle"
  /\ h = 0 => e
  /\ pc' = [pc EXCEPT ![t] = "probing"]
  /\ hint' = [hint EXCEPT ![t] = h]
  /\ exact' = [exact EXCEPT ![t] = e]
  /\ disp' = [disp EXCEPT ![t] = 0]
  /\ kept' = [kept EXCEPT ![t] = Granules \ busy]
  /\ UNCHANGED <<busy, got>>

(* Memory g is no longer free, for any call.                               *)
Taken(g) ==
  /\ busy' = busy \cup {g}
  /\ kept' = [t \in Threads |-> IF pc[t] = "probing" THEN kept[t] \ {g} ELSE kept[t]]

(* One turn of the loop succeeds.                                          *)
ProbeHits(t) ==
  /\ pc[t] = "probing"
  /\ \E g \in Grants(t) :
       /\ got' = [got EXCEPT ![t] = g]
       /\ busy' = busy \cup {g}
       /\ kept' = [u \in Threads |-> IF pc[u] = "probing" /\ u # t THEN kept[u] \ {g} ELSE kept[u]]
  /\ pc' = [pc EXCEPT ![t] = "done"]
  /\ UNCHANGED <<hint, exact, disp>>

(* One turn of the loop fails; out there, all further ones do.             *)
ProbeMisses(t) ==
  /\ pc[t] = "probing"
  /\ Grants(t) = {}
  /\ Abs(disp[t]) <= Beyond
  /\ disp' = [disp EXCEPT ![t] = NextDisp(@)]
  /\ UNCHANGED <<busy, pc, hint, exact, got, kept>>

(* The deleter gives the memory back.                                      *)
Deallocate(t) ==
  /\ pc[t] = "done"
  /\ busy' = busy \ {got[t]}
  /\ pc' = [pc EXCEPT ![t] = "idle"]
  /\ UNCHANGED <<hint, exact, disp, got, kept>>

(* Other code of the process takes memory, or releases what is its own.    *)
OtherTakes(g) ==
  /\ g \notin busy
  /\ Taken(g)
  /\ UNCHANGED <<pc, hint, exact, disp, got>>

OtherReleases(g) ==
  /\ g \in busy
  /\ \A t \in Threads : pc[t] = "done" => got[t] # g
  /\ busy' = busy \ {g}
  /\ UNCHANGED <<pc, hint, exact, disp, got, kept>>

Next ==
  \/ \E t \in Threads : \/ \E h \in Granules \cup {0}, e \in BOOLEAN : Allocate(t, h, e)
                        \/ ProbeHits(t) \/ ProbeMisses(t) \/ Deallocate(t)
  \/ \E g \in Granules : OtherTakes(g) \/ OtherReleases(g)

Spec == Init /\ [][Next]_avars

(* A thread in allocate() keeps running.                                   *)
FairSpec == Spec /\ \A t \in Threads : WF_avars(ProbeHits(t) \/ ProbeMisses(t))

-----------------------------------------------------------------------------
TypeOK ==
  /\ busy \subseteq Granules
  /\ pc \in [Threads -> {"idle", "probing", "done"}]
  /\ hint \in [Threads -> Granules \cup {0}]
  /\ exact \in [Threads -> BOOLEAN]
  /\ disp \in [Threads -> Int]
  /\ got \in [Threads -> Granules \cup {0}]
  /\ kept \in [Threads -> SUBSET Granules]

(* allocate() returns a granule as near to the hint as any that was free   *)
(* during the whole call, whatever other threads take and release between  *)
(* the probes; unless the search passed address zero, where the system     *)
(* chooses, and then nothing nearer than that was free.                    *)
NearestFree ==
  \A t \in Threads : pc[t] = "done" =>
    \A g \in kept[t] : \/ Dist(t, got[t]) <= Dist(t, g)
                       \/ exact[t] /\ Dist(t, g) > hint[t]
                       \/ hint[t] = 0

(* As long as some granule stays free, allocate() returns.                 *)
AllocateReturns ==
  \A t \in Threads :
    pc[t] = "probing" /\ kept[t] # {} ~> pc[t] = "done" \/ kept[t] = {}

(* The order of the probes, and the inductive invariant: nothing that was  *)
(* free all the time lies where the loop has already looked.               *)
Rank(d) == IF d > 0 THEN 2 * d - 1 ELSE -(2 * d)

SearchedInv ==
  \A t \in Threads : pc[t] = "probing" =>
    \A g \in kept[t] : g \notin busy /\ Rank(g - hint[t]) >= Rank(disp[t])
=============================================================================
