-------------------------- MODULE ProtectedMemory --------------------------
(***************************************************************************)
(* Memory::writeProtectedMemory (include/B3L/Memory.h) and the same three  *)
(* steps written out in BinaryPatch and InlineDetour: make the pages of a  *)
(* region writable, copy, give the pages their protection back.  Several   *)
(* threads may be writing; nothing locks the pages between the steps.      *)
(***************************************************************************)
EXTENDS Naturals

CONSTANTS PageCount,   (* pages 1 .. PageCount                             *)
          Threads,     (* threads that write protected memory              *)
          MaxSpan,     (* bound on the pages of one region                 *)
          MayFail,     (* whether VirtualProtect may fail                  *)
          ClientRules  (* what the client promises, see below              *)

ASSUME MemoryAssumption ==
  /\ PageCount \in Nat
  /\ MaxSpan \in Nat
  /\ MayFail \in BOOLEAN

(***************************************************************************)
(* A client may promise "uniform": all pages of a region started with the  *)
(* same protection.                                                        *)
(***************************************************************************)
VARIABLES home,      (* the protection each page started with              *)
          prot,      (* its protection now                                 *)
          pc,        (* what each thread does next                         *)
          region,    (* the first and last page each thread writes         *)
          old,       (* what its first setPageProtection returned          *)
          next,      (* the page its copy has reached                      *)
          disturbed  (* history: pages that two threads wrote at once, or  *)
                     (* whose protection could not be given back, and the  *)
                     (* pages written together with such a page            *)

mvars == <<home, prot, pc, region, old, next, disturbed>>

Pages       == 1 .. PageCount
Protections == {"R", "RW", "RX", "RWX"}
Writable    == {"RW", "RWX"}
PagesOf(r)  == r.lo .. r.hi
Regions     == {r \in [lo : Pages, hi : Pages] : r.lo <= r.hi /\ r.hi < r.lo + MaxSpan}
Active(t)   == pc[t] \in {"copy", "reprotect"}

(* Seeded faults: the wrong flag for the writable window, or the wrong     *)
(* pages given back.                                                       *)
ReadOnlyWindow  == "RX"
NoExecuteWindow == "RW"
FirstPageOf(r)  == {r.lo}

-----------------------------------------------------------------------------
(* The PAGE_EXECUTE_READWRITE every writer asks for.                       *)
WindowProtection == "RWX"

(* VirtualProtect reports the previous protection of the first page only.  *)
ReportedProtection(r) == prot[r.lo]

(* The pages the second setPageProtection names.                           *)
PagesToRestore(r) == PagesOf(r)

(* VirtualProtect on whole pages: all of them change, or none.             *)
SetPageProtection(ps, p) == prot' = [q \in Pages |-> IF q \in ps THEN p ELSE prot[q]]

Init ==
  /\ home \in [Pages -> Protections]
  /\ prot = home
  /\ pc = [t \in Threads |-> "idle"]
  /\ region = [t \in Threads |-> [lo |-> 1, hi |-> 1]]
  /\ old = [t \in Threads |-> "R"]
  /\ next = [t \in Threads |-> 1]
  /\ disturbed = {}

Uniform(r) == \A p \in PagesOf(r) : home[p] = home[r.lo]

(* The active writers that share a page with r.                            *)
Rivals(r) == {u \in Threads : Active(u) /\ PagesOf(region[u]) \cap PagesOf(r) # {}}

(* The pages that a new writer of r disturbs.                              *)
Clash(r) ==
  IF Rivals(r) = {} /\ PagesOf(r) \cap disturbed = {} THEN {}
  ELSE PagesOf(r) \cup UNION {PagesOf(region[u]) : u \in Rivals(r)}

(* The call and its first setPageProtection; if that fails it throws.      *)
Unprotect(t, r) ==
  /\ pc[t] = "idle"
  /\ "uniform" \in ClientRules => Uniform(r)
  /\ old' = [old EXCEPT ![t] = ReportedProtection(r)]
  /\ SetPageProtection(PagesOf(r), WindowProtection)
  /\ region' = [region EXCEPT ![t] = r]
  /\ next' = [next EXCEPT ![t] = r.lo]
  /\ pc' = [pc EXCEPT ![t] = "copy"]
  /\ disturbed' = disturbed \cup Clash(r)
  /\ UNCHANGED home

(* std::copy_n reaches the next page of the region.                        *)
Copy(t) ==
  /\ pc[t] = "copy"
  /\ IF prot[next[t]] \in Writable
     THEN /\ next' = [next EXCEPT ![t] = @ + 1]
          /\ pc' = [pc EXCEPT ![t] = IF next[t] = region[t].hi THEN "reprotect" ELSE "copy"]
     ELSE /\ pc' = [pc EXCEPT ![t] = "faulted"]
          /\ UNCHANGED next
  /\ UNCHANGED <<home, prot, region, old, disturbed>>

(* The second setPageProtection; if it fails the pages stay as they are    *)
(* and the call throws.                                                    *)
Reprotect(t) ==
  /\ pc[t] = "reprotect"
  /\ \/ /\ SetPageProtection(PagesToRestore(region[t]), old[t])
        /\ UNCHANGED disturbed
     \/ /\ MayFail
        /\ UNCHANGED prot
        /\ disturbed' = disturbed \cup PagesOf(region[t])
  /\ pc' = [pc EXCEPT ![t] = "idle"]
  /\ UNCHANGED <<home, region, old, next>>

Next == \E t \in Threads : \/ \E r \in Regions : Unprotect(t, r)
                           \/ Copy(t)
                           \/ Reprotect(t)

Spec == Init /\ [][Next]_mvars

(* A thread that has made pages writable is scheduled again.               *)
FairSpec == Spec /\ \A t \in Threads : WF_mvars(Copy(t) \/ Reprotect(t))

-----------------------------------------------------------------------------
TypeOK ==
  /\ home \in [Pages -> Protections]
  /\ prot \in [Pages -> Protections]
  /\ pc \in [Threads -> {"idle", "copy", "reprotect", "faulted"}]
  /\ region \in [Threads -> [lo : Nat, hi : Nat]]
  /\ old \in [Threads -> Protections]
  /\ next \in [Threads -> Nat]
  /\ disturbed \subseteq Pages

Busy(p) == \E t \in Threads : Active(t) /\ p \in PagesOf(region[t])

(* A copy faults only where writers got into each other's way: no writer   *)
(* that has its pages to itself finds them protected when it writes        *)
(* (writeProtectedMemory between its two setPageProtection calls).         *)
CopyNeverFaults == \A t \in Threads : pc[t] = "faulted" => PagesOf(region[t]) \subseteq disturbed

(* A page nobody is writing has the protection it started with, however    *)
(* many writers came and went, unless they got into each other's way       *)
(* (writeProtectedMemory, restoreEntrypoint and BinaryPatch give back what *)
(* they found).                                                            *)
ProtectionRestored == \A p \in Pages : ~Busy(p) /\ p \notin disturbed => prot[p] = home[p]

(* Writers that share pages, or fail half way, may leave a page writable,  *)
(* but they never take a right away from it: code stays executable while   *)
(* and after it is written.                                                *)
OnlyLoosened == \A p \in Pages : prot[p] \in {home[p], "RWX"}

(* A page that was made writable gets its protection back.                 *)
WindowCloses ==
  \A p \in Pages : prot[p] # home[p] ~> prot[p] = home[p] \/ p \in disturbed

(* The inductive invariants behind the safety properties: an undisturbed   *)
(* region is open, has one writer, who knows how to close it.              *)
WriterInv ==
  \A t \in Threads : Active(t) =>
    /\ region[t] \in Regions
    /\ pc[t] = "copy" => next[t] \in PagesOf(region[t])

WindowInv ==
  \A t \in Threads : Active(t) =>
    \/ PagesOf(region[t]) \subseteq disturbed
    \/ /\ PagesOf(region[t]) \cap disturbed = {}
       /\ \A p \in PagesOf(region[t]) : prot[p] = "RWX"
       /\ \A u \in Threads \ {t} : Active(u) => PagesOf(region[u]) \cap PagesOf(region[t]) = {}

SavedInv ==
  \A t \in Threads : Active(t) =>
    \A p \in PagesOf(region[t]) : p \in disturbed \/ old[t] = home[p]

LoosenedInv ==
  \A t \in Threads : Active(t) => \A p \in PagesOf(region[t]) : old[t] \in {home[p], "RWX"}
=============================================================================
