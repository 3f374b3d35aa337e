----------------------- MODULE ProtectedMemoryProofs -----------------------
(***************************************************************************)
(* Proofs about writeProtectedMemory for any number of pages and threads   *)
(* and regions of any size.                                                *)
(***************************************************************************)
EXTENDS ProtectedMemory, TLAPS

USE DEF Active

(* The pages of a region are pages, the first one among them.              *)
LEMMA RegionFact ==
  ASSUME NEW r \in Regions
  PROVE  /\ r \in [lo : Nat, hi : Nat] /\ r.lo \in Nat
         /\ r.lo \in PagesOf(r)
         /\ PagesOf(r) \subseteq Pages
  BY MemoryAssumption DEF Regions, PagesOf, Pages

LEMMA TypeInit == Init => TypeOK
<1> SUFFICES ASSUME Init PROVE TypeOK
  OBVIOUS
<1>1. [lo |-> 1, hi |-> 1] \in [lo : Nat, hi : Nat]
  OBVIOUS
<1> QED BY <1>1 DEF Init, TypeOK, Protections

(* What a new writer disturbs are pages, and r or nothing.                 *)
LEMMA ClashFact ==
  ASSUME TypeOK, WriterInv, NEW r \in Regions
  PROVE  /\ Clash(r) \subseteq Pages
         /\ \/ /\ Clash(r) = {}
               /\ PagesOf(r) \cap disturbed = {}
               /\ \A u \in Threads : Active(u) => PagesOf(region[u]) \cap PagesOf(r) = {}
            \/ /\ PagesOf(r) \subseteq Clash(r)
               /\ \A u \in Threads : Active(u) /\ PagesOf(region[u]) \cap PagesOf(r) # {}
                                       => PagesOf(region[u]) \subseteq Clash(r)
         /\ \A p \in Clash(r) \ PagesOf(r) :
               \E u \in Threads : /\ Active(u) /\ PagesOf(region[u]) \cap PagesOf(r) # {}
                                  /\ p \in PagesOf(region[u])
  BY RegionFact DEF Clash, Rivals, WriterInv

LEMMA TypeStep == TypeOK /\ WriterInv /\ [Next]_mvars => TypeOK'
<1> SUFFICES ASSUME TypeOK, WriterInv, [Next]_mvars PROVE TypeOK'
  OBVIOUS
<1> USE DEF TypeOK, Protections
<1>1. ASSUME NEW t \in Threads, NEW r \in Regions, Unprotect(t, r)
      PROVE  TypeOK'
  <2>1. r.lo \in Pages /\ r \in [lo : Nat, hi : Nat] /\ r.lo \in Nat
    BY RegionFact
  <2>2. old' \in [Threads -> Protections] /\ prot' \in [Pages -> Protections]
    BY <1>1, <2>1 DEF Unprotect, SetPageProtection, ReportedProtection, WindowProtection
  <2>3. region' \in [Threads -> [lo : Nat, hi : Nat]] /\ next' \in [Threads -> Nat]
    BY <1>1, <2>1 DEF Unprotect
  <2>4. disturbed' \subseteq Pages
    BY <1>1, ClashFact DEF Unprotect
  <2> QED BY <1>1, <2>2, <2>3, <2>4 DEF Unprotect
<1>2. ASSUME NEW t \in Threads, Copy(t)
      PROVE  TypeOK'
  <2>1. pc' \in [Threads -> {"idle", "copy", "reprotect", "faulted"}]
    BY <1>2 DEF Copy
  <2>2. next' \in [Threads -> Nat]
    <3>1. next[t] + 1 \in Nat
      OBVIOUS
    <3>2. next' = next \/ next' = [next EXCEPT ![t] = next[t] + 1]
      BY <1>2 DEF Copy
    <3> QED BY <3>1, <3>2
  <2> QED BY <1>2, <2>1, <2>2 DEF Copy
<1>3. ASSUME NEW t \in Threads, Reprotect(t)
      PROVE  TypeOK'
  <2>1. PagesOf(region[t]) \subseteq Pages
    BY <1>3, RegionFact DEF Reprotect, WriterInv
  <2> QED BY <1>3, <2>1 DEF Reprotect, SetPageProtection
<1>4. CASE UNCHANGED mvars
  BY <1>4 DEF mvars
<1> QED BY <1>1, <1>2, <1>3, <1>4 DEF Next

-----------------------------------------------------------------------------
(* What the three steps do to the writers.                                 *)

LEMMA UnprotectEffect ==
  ASSUME TypeOK, NEW t \in Threads, NEW r \in Regions, Unprotect(t, r)
  PROVE  /\ ~Active(t)
         /\ \A u \in Threads : pc'[u] = IF u = t THEN "copy" ELSE pc[u]
         /\ \A u \in Threads : region'[u] = IF u = t THEN r ELSE region[u]
         /\ \A u \in Threads : old'[u] = IF u = t THEN prot[r.lo] ELSE old[u]
         /\ \A u \in Threads : next'[u] = IF u = t THEN r.lo ELSE next[u]
         /\ \A p \in Pages : prot'[p] = IF p \in PagesOf(r) THEN "RWX" ELSE prot[p]
         /\ disturbed' = disturbed \cup Clash(r)
         /\ home' = home
  BY DEF Unprotect, SetPageProtection, WindowProtection, ReportedProtection, TypeOK

LEMMA CopyEffect ==
  ASSUME TypeOK, NEW t \in Threads, Copy(t)
  PROVE  /\ Active(t)
         /\ \A u \in Threads : Active(u)' => Active(u)
         /\ \A u \in Threads \ {t} : pc'[u] = pc[u] /\ next'[u] = next[u]
         /\ \/ /\ prot[next[t]] \in Writable
               /\ pc'[t] \in {"copy", "reprotect"}
               /\ pc'[t] = "copy" => next[t] # region[t].hi
               /\ next'[t] = next[t] + 1
            \/ prot[next[t]] \notin Writable /\ pc'[t] = "faulted"
         /\ UNCHANGED <<home, prot, region, old, disturbed>>
  BY DEF Copy, TypeOK

LEMMA ReprotectEffect ==
  ASSUME TypeOK, NEW t \in Threads, Reprotect(t)
  PROVE  /\ Active(t)
         /\ \A u \in Threads : pc'[u] = IF u = t THEN "idle" ELSE pc[u]
         /\ \/ /\ \A p \in Pages : prot'[p] = IF p \in PagesOf(region[t]) THEN old[t] ELSE prot[p]
               /\ disturbed' = disturbed
            \/ MayFail /\ prot' = prot /\ disturbed' = disturbed \cup PagesOf(region[t])
         /\ UNCHANGED <<home, region, old, next>>
  BY DEF Reprotect, SetPageProtection, PagesToRestore, TypeOK

-----------------------------------------------------------------------------
(* Writers that keep out of each other's way.                              *)

OpenInv == TypeOK /\ WriterInv /\ WindowInv /\ CopyNeverFaults

LEMMA OpenInit == Init => OpenInv
  BY TypeInit DEF Init, OpenInv, WriterInv, WindowInv, CopyNeverFaults

LEMMA OpenStep ==
  ASSUME OpenInv, [Next]_mvars
  PROVE  OpenInv'
<1> USE DEF OpenInv
<1>0. TypeOK'
  BY TypeStep
<1>1. ASSUME NEW t \in Threads, NEW r \in Regions, Unprotect(t, r)
      PROVE  (WriterInv /\ WindowInv /\ CopyNeverFaults)'
  <2>1. WriterInv'
    BY <1>1, UnprotectEffect, RegionFact DEF WriterInv
  <2>2. CopyNeverFaults'
    BY <1>1, UnprotectEffect DEF CopyNeverFaults
  <2>3. ASSUME NEW u \in Threads, Active(u)',
               ~(PagesOf(region'[u]) \subseteq disturbed')
        PROVE  /\ PagesOf(region'[u]) \cap disturbed' = {}
               /\ \A p \in PagesOf(region'[u]) : prot'[p] = "RWX"
               /\ \A v \in Threads \ {u} : Active(v)' => PagesOf(region'[v]) \cap PagesOf(region'[u]) = {}
    <3>1. CASE u = t
      <4>1. region'[u] = r /\ Clash(r) = {} /\ PagesOf(r) \cap disturbed = {}
        BY <1>1, <2>3, <3>1, UnprotectEffect, ClashFact
      <4>2. \A v \in Threads : Active(v) => PagesOf(region[v]) \cap PagesOf(r) = {}
        BY <1>1, <2>3, <3>1, UnprotectEffect, ClashFact
      <4> QED BY <1>1, <3>1, <4>1, <4>2, UnprotectEffect, RegionFact
    <3>2. CASE u # t
      <4>1. Active(u) /\ region'[u] = region[u] /\ region[u] \in Regions
        BY <1>1, <2>3, <3>2, UnprotectEffect DEF WriterInv
      <4>2. /\ PagesOf(region[u]) \cap disturbed = {}
            /\ \A p \in PagesOf(region[u]) : prot[p] = "RWX"
            /\ \A v \in Threads \ {u} : Active(v) => PagesOf(region[v]) \cap PagesOf(region[u]) = {}
        BY <1>1, <2>3, <4>1, UnprotectEffect DEF WindowInv
      <4>3. PagesOf(region[u]) \cap PagesOf(r) = {}
        BY <1>1, <2>3, <4>1, UnprotectEffect, ClashFact
      <4>4. PagesOf(region[u]) \cap Clash(r) = {}
        BY <4>1, <4>2, <4>3, ClashFact
      <4>5. PagesOf(region[u]) \cap disturbed' = {}
        BY <1>1, <4>2, <4>4, UnprotectEffect
      <4>6. \A p \in PagesOf(region[u]) : prot'[p] = "RWX"
        BY <1>1, <4>1, <4>2, UnprotectEffect, RegionFact
      <4>7. \A v \in Threads \ {u} : Active(v)' => PagesOf(region'[v]) \cap PagesOf(region[u]) = {}
        BY <1>1, <4>2, <4>3, UnprotectEffect
      <4> QED BY <4>1, <4>5, <4>6, <4>7
    <3> QED BY <3>1, <3>2
  <2>4. WindowInv'
    BY <2>3 DEF WindowInv
  <2> QED BY <2>1, <2>2, <2>4
<1>2. ASSUME NEW t \in Threads, Copy(t)
      PROVE  (WriterInv /\ WindowInv /\ CopyNeverFaults)'
  <2>1. region[t] \in Regions /\ next[t] \in PagesOf(region[t])
    BY <1>2 DEF Copy, WriterInv
  <2>2. next[t] # region[t].hi => next[t] + 1 \in PagesOf(region[t])
    BY <2>1 DEF PagesOf, Regions, Pages
  <2>3. WriterInv'
    BY <1>2, <2>1, <2>2, CopyEffect DEF WriterInv
  <2>4. WindowInv'
    BY <1>2, CopyEffect DEF WindowInv
  <2>5. prot[next[t]] \notin Writable => PagesOf(region[t]) \subseteq disturbed
    BY <1>2, <2>1, CopyEffect DEF WindowInv, Writable
  <2>6. CopyNeverFaults'
    BY <1>2, <2>5, CopyEffect DEF CopyNeverFaults
  <2> QED BY <2>3, <2>4, <2>6
<1>3. ASSUME NEW t \in Threads, Reprotect(t)
      PROVE  (WriterInv /\ WindowInv /\ CopyNeverFaults)'
  <2>1. WriterInv'
    BY <1>3, ReprotectEffect DEF WriterInv
  <2>2. ASSUME NEW u \in Threads, Active(u)',
               ~(PagesOf(region'[u]) \subseteq disturbed')
        PROVE  /\ PagesOf(region'[u]) \cap disturbed' = {}
               /\ \A p \in PagesOf(region'[u]) : prot'[p] = "RWX"
               /\ \A v \in Threads \ {u} : Active(v)' => PagesOf(region'[v]) \cap PagesOf(region'[u]) = {}
    <3>1. Active(u) /\ u # t /\ region' = region /\ region[u] \in Regions
      BY <1>3, <2>2, ReprotectEffect DEF WriterInv
    <3>2. /\ PagesOf(region[u]) \cap disturbed = {}
          /\ \A p \in PagesOf(region[u]) : prot[p] = "RWX"
          /\ \A v \in Threads \ {u} : Active(v) => PagesOf(region[v]) \cap PagesOf(region[u]) = {}
      BY <1>3, <2>2, <3>1, ReprotectEffect DEF WindowInv
    <3>3. PagesOf(region[t]) \cap PagesOf(region[u]) = {}
      BY <1>3, <3>1, <3>2, ReprotectEffect
    <3>4. PagesOf(region[u]) \cap disturbed' = {}
      BY <1>3, <3>2, <3>3, ReprotectEffect
    <3>5. \A p \in PagesOf(region[u]) : prot'[p] = "RWX"
      BY <1>3, <3>1, <3>2, <3>3, ReprotectEffect, RegionFact
    <3>6. \A v \in Threads : Active(v)' => Active(v)
      BY <1>3, ReprotectEffect
    <3> QED BY <3>1, <3>2, <3>4, <3>5, <3>6
  <2>3. WindowInv'
    BY <2>2 DEF WindowInv
  <2>4. CopyNeverFaults'
    BY <1>3, ReprotectEffect DEF CopyNeverFaults
  <2> QED BY <2>1, <2>3, <2>4
<1>4. CASE UNCHANGED mvars
  <2>1. UNCHANGED <<home, prot, pc, region, old, next, disturbed>>
    BY <1>4 DEF mvars
  <2>2. WriterInv'
    BY <2>1 DEF WriterInv
  <2>3. WindowInv'
    BY <2>1 DEF WindowInv
  <2>4. CopyNeverFaults'
    BY <2>1 DEF CopyNeverFaults
  <2> QED BY <1>0, <2>2, <2>3, <2>4
<1> QED BY <1>0, <1>1, <1>2, <1>3, <1>4 DEF Next

(* TypeOK holds whatever the writers do.                                   *)
THEOREM MemoryTypeCorrect == Spec => []TypeOK
<1>1. OpenInv /\ [Next]_mvars => OpenInv'
  BY OpenStep
<1>2. OpenInv => TypeOK
  BY DEF OpenInv
<1> QED BY OpenInit, <1>1, <1>2, PTL DEF Spec

(* A writer hits a protected page only where writers overlapped, or wrote  *)
(* a page that could not be given back.                                    *)
THEOREM CopyNeverFaultsHolds == Spec => []CopyNeverFaults
<1>1. OpenInv /\ [Next]_mvars => OpenInv'
  BY OpenStep
<1>2. OpenInv => CopyNeverFaults
  BY DEF OpenInv
<1> QED BY OpenInit, <1>1, <1>2, PTL DEF Spec

-----------------------------------------------------------------------------
(* Giving the protection back.                                             *)

RestoreInv == OpenInv /\ SavedInv /\ ProtectionRestored

LEMMA RestoreStep ==
  ASSUME "uniform" \in ClientRules, RestoreInv, [Next]_mvars
  PROVE  RestoreInv'
<1> USE DEF RestoreInv, OpenInv
<1>0. OpenInv'
  BY OpenStep
<1>1. ASSUME NEW t \in Threads, NEW r \in Regions, Unprotect(t, r)
      PROVE  (SavedInv /\ ProtectionRestored)'
  <2>1. r.lo \in PagesOf(r) /\ r.lo \in Pages /\ PagesOf(r) \subseteq Pages
    BY RegionFact
  <2>2. \/ PagesOf(r) \subseteq disturbed'
        \/ \A p \in PagesOf(r) : prot[r.lo] = home[p]
    <3>1. CASE Clash(r) = {}
      <4>1. ~Busy(r.lo) /\ r.lo \notin disturbed
        BY <2>1, <3>1, ClashFact DEF Busy
      <4> QED BY <1>1, <2>1, <4>1 DEF Unprotect, Uniform, ProtectionRestored
    <3>2. CASE Clash(r) # {}
      BY <1>1, <3>2, UnprotectEffect, ClashFact
    <3> QED BY <3>1, <3>2
  <2>3. SavedInv'
    BY <1>1, <2>2, UnprotectEffect DEF SavedInv
  <2>4. \A p \in Pages : ~Busy(p)' => ~Busy(p) /\ p \notin PagesOf(r)
    BY <1>1, UnprotectEffect DEF Busy
  <2>5. ProtectionRestored'
    BY <1>1, <2>4, UnprotectEffect DEF ProtectionRestored
  <2> QED BY <2>3, <2>5
<1>2. ASSUME NEW t \in Threads, Copy(t)
      PROVE  (SavedInv /\ ProtectionRestored)'
  <2>1. SavedInv'
    BY <1>2, CopyEffect DEF SavedInv
  <2>2. \A p \in Pages : Busy(p) /\ ~Busy(p)' => p \in disturbed
    <3>1. \A u \in Threads : Active(u) /\ ~Active(u)'
                               => PagesOf(region[u]) \subseteq disturbed
      BY <1>0, <1>2, CopyEffect DEF CopyNeverFaults
    <3> QED BY <1>2, <3>1, CopyEffect DEF Busy
  <2>3. ProtectionRestored'
    BY <1>2, <2>2, CopyEffect DEF ProtectionRestored
  <2> QED BY <2>1, <2>3
<1>3. ASSUME NEW t \in Threads, Reprotect(t)
      PROVE  (SavedInv /\ ProtectionRestored)'
  <2>1. SavedInv'
    BY <1>3, ReprotectEffect DEF SavedInv
  <2>2. \A p \in Pages : ~Busy(p)' => ~Busy(p) \/ p \in PagesOf(region[t])
    BY <1>3, ReprotectEffect DEF Busy
  <2>3. \A p \in PagesOf(region[t]) : p \in disturbed \/ old[t] = home[p]
    BY <1>3, ReprotectEffect DEF SavedInv
  <2>4. ProtectionRestored'
    BY <1>3, <2>2, <2>3, ReprotectEffect DEF ProtectionRestored
  <2> QED BY <2>1, <2>4
<1>4. CASE UNCHANGED mvars
  <2>1. UNCHANGED <<home, prot, pc, region, old, next, disturbed>>
    BY <1>4 DEF mvars
  <2>2. SavedInv'
    BY <2>1 DEF SavedInv
  <2>3. ProtectionRestored'
    BY <2>1 DEF ProtectionRestored, Busy
  <2> QED BY <1>0, <2>2, <2>3
<1> QED BY <1>0, <1>1, <1>2, <1>3, <1>4 DEF Next

(* Writers of uniform regions leave every page with the protection it      *)
(* started with, except where they overlapped or VirtualProtect failed.    *)
THEOREM ProtectionRestoredHolds ==
  ASSUME "uniform" \in ClientRules PROVE Spec => []ProtectionRestored
<1>1. Init => RestoreInv
  BY OpenInit DEF Init, RestoreInv, SavedInv, ProtectionRestored
<1>2. RestoreInv /\ [Next]_mvars => RestoreInv'
  BY RestoreStep
<1>3. RestoreInv => ProtectionRestored
  BY DEF RestoreInv
<1> QED BY <1>1, <1>2, <1>3, PTL DEF Spec

-----------------------------------------------------------------------------
(* Writers that share pages.                                               *)

SharedInv == OpenInv /\ LoosenedInv /\ OnlyLoosened

LEMMA SharedStep ==
  ASSUME "uniform" \in ClientRules, SharedInv, [Next]_mvars
  PROVE  SharedInv'
<1> USE DEF SharedInv, OpenInv
<1>0. OpenInv'
  BY OpenStep
<1>1. ASSUME NEW t \in Threads, NEW r \in Regions, Unprotect(t, r)
      PROVE  (LoosenedInv /\ OnlyLoosened)'
  <2>1. \A p \in PagesOf(r) : prot[r.lo] \in {home[p], "RWX"}
    BY <1>1, RegionFact DEF Unprotect, Uniform, OnlyLoosened
  <2>2. LoosenedInv'
    BY <1>1, <2>1, UnprotectEffect DEF LoosenedInv
  <2>3. OnlyLoosened'
    BY <1>1, UnprotectEffect DEF OnlyLoosened
  <2> QED BY <2>2, <2>3
<1>2. ASSUME NEW t \in Threads, Copy(t)
      PROVE  (LoosenedInv /\ OnlyLoosened)'
  BY <1>2, CopyEffect DEF LoosenedInv, OnlyLoosened
<1>3. ASSUME NEW t \in Threads, Reprotect(t)
      PROVE  (LoosenedInv /\ OnlyLoosened)'
  <2>1. LoosenedInv'
    BY <1>3, ReprotectEffect DEF LoosenedInv
  <2>2. OnlyLoosened'
    BY <1>3, ReprotectEffect DEF LoosenedInv, OnlyLoosened
  <2> QED BY <2>1, <2>2
<1>4. CASE UNCHANGED mvars
  <2>1. UNCHANGED <<home, prot, pc, region, old, next, disturbed>>
    BY <1>4 DEF mvars
  <2>2. LoosenedInv'
    BY <2>1 DEF LoosenedInv
  <2>3. OnlyLoosened'
    BY <2>1 DEF OnlyLoosened
  <2> QED BY <1>0, <2>2, <2>3
<1> QED BY <1>0, <1>1, <1>2, <1>3, <1>4 DEF Next

(* Writers of uniform regions never take a right away from a page, also    *)
(* when they share pages and when VirtualProtect fails.                    *)
THEOREM OnlyLoosenedHolds ==
  ASSUME "uniform" \in ClientRules PROVE Spec => []OnlyLoosened
<1>1. Init => SharedInv
  BY OpenInit DEF Init, SharedInv, LoosenedInv, OnlyLoosened
<1>2. SharedInv /\ [Next]_mvars => SharedInv'
  BY SharedStep
<1>3. SharedInv => OnlyLoosened
  BY DEF SharedInv
<1> QED BY <1>1, <1>2, <1>3, PTL DEF Spec
=============================================================================
