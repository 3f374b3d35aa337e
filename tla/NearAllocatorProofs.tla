------------------------- MODULE NearAllocatorProofs -------------------------
(***************************************************************************)
(* Proofs about allocate() for any number of granules and threads.         *)
(***************************************************************************)
EXTENDS NearAllocator, TLAPS

USE AllocatorAssumption

(* The probes go on in the order of Rank, and leave out none.              *)
LEMMA ProbeOrder ==
  ASSUME NEW d \in Int
  PROVE  /\ NextDisp(d) \in Int
         /\ Rank(NextDisp(d)) = Rank(d) + 1
         /\ Rank(d) \in Int
  BY DEF NextDisp, Rank

(* Two displacements of one rank are the same.                             *)
LEMMA RankInjective ==
  ASSUME NEW d \in Int, NEW e \in Int, Rank(d) = Rank(e)
  PROVE  d = e
  BY DEF Rank

(* What comes later in the order is not nearer.                            *)
LEMMA RankDistance ==
  ASSUME NEW d \in Int, NEW e \in Int, Rank(d) <= Rank(e)
  PROVE  Abs(d) <= Abs(e)
  BY DEF Rank, Abs

LEMMA TypeInit == Init => TypeOK
  BY DEF Init, TypeOK

LEMMA TypeStep == TypeOK /\ [Next]_avars => TypeOK'
<1> SUFFICES ASSUME TypeOK, [Next]_avars PROVE TypeOK'
  OBVIOUS
<1> USE DEF TypeOK
<1>1. ASSUME NEW t \in Threads, NEW h \in Granules \cup {0}, NEW e \in BOOLEAN, Allocate(t, h, e)
      PROVE  TypeOK'
  BY <1>1 DEF Allocate
<1>2. ASSUME NEW t \in Threads, ProbeHits(t)
      PROVE  TypeOK'
  BY <1>2 DEF ProbeHits, Grants
<1>3. ASSUME NEW t \in Threads, ProbeMisses(t)
      PROVE  TypeOK'
  BY <1>3, ProbeOrder DEF ProbeMisses
<1>4. ASSUME NEW t \in Threads, Deallocate(t)
      PROVE  TypeOK'
  BY <1>4 DEF Deallocate
<1>5. ASSUME NEW g \in Granules, OtherTakes(g)
      PROVE  TypeOK'
  BY <1>5 DEF OtherTakes, Taken
<1>6. ASSUME NEW g \in Granules, OtherReleases(g)
      PROVE  TypeOK'
  BY <1>6 DEF OtherReleases
<1>7. CASE UNCHANGED avars
  BY <1>7 DEF avars
<1> QED BY <1>1, <1>2, <1>3, <1>4, <1>5, <1>6, <1>7 DEF Next

AllocatorInv == TypeOK /\ SearchedInv /\ NearestFree

LEMMA AllocatorStep ==
  ASSUME AllocatorInv, [Next]_avars
  PROVE  AllocatorInv'
<1> USE DEF AllocatorInv
<1>0. TypeOK'
  BY TypeStep
<1>1. ASSUME NEW t \in Threads, NEW h \in Granules \cup {0}, NEW e \in BOOLEAN, Allocate(t, h, e)
      PROVE  (SearchedInv /\ NearestFree)'
  <2>1. \A d \in Int : Rank(d) >= Rank(0)
    BY DEF Rank
  <2>2. \A g \in Granules : g - h \in Int
    BY DEF Granules
  <2>3. SearchedInv'
    BY <1>1, <2>1, <2>2 DEF Allocate, SearchedInv, TypeOK
  <2>4. NearestFree'
    BY <1>1 DEF Allocate, NearestFree, TypeOK, Dist
  <2> QED BY <2>3, <2>4
<1>2. ASSUME NEW t \in Threads, ProbeHits(t)
      PROVE  (SearchedInv /\ NearestFree)'
  <2>1. PICK g \in Grants(t) :
          /\ got' = [got EXCEPT ![t] = g]
          /\ busy' = busy \cup {g}
          /\ kept' = [u \in Threads |-> IF pc[u] = "probing" /\ u # t THEN kept[u] \ {g} ELSE kept[u]]
    BY <1>2 DEF ProbeHits
  <2>2. pc' = [pc EXCEPT ![t] = "done"] /\ UNCHANGED <<hint, exact, disp>> /\ pc[t] = "probing"
    BY <1>2 DEF ProbeHits
  <2>3. g \in Granules /\ (IsNull(t) \/ g = Address(t))
    BY DEF Grants
  <2>4. SearchedInv'
    BY <2>1, <2>2 DEF SearchedInv, TypeOK
  <2>5. ASSUME NEW k \in kept[t]
        PROVE  \/ Dist(t, g) <= Dist(t, k)
               \/ exact[t] /\ Dist(t, k) > hint[t]
               \/ hint[t] = 0
    <3>1. k \in Granules /\ hint[t] \in Granules \cup {0} /\ disp[t] \in Int
      BY DEF TypeOK
    <3>2. k - hint[t] \in Int /\ g - hint[t] \in Int
      BY <2>3, <3>1 DEF Granules
    <3>3. Rank(k - hint[t]) >= Rank(disp[t])
      BY <2>2 DEF SearchedInv
    <3>4. Abs(disp[t]) <= Abs(k - hint[t])
      BY <3>1, <3>2, <3>3, RankDistance, ProbeOrder
    <3>5. CASE g = Address(t)
      <4>1. g - hint[t] = disp[t]
        BY <3>1, <3>5 DEF Address, Granules
      <4> QED BY <3>4, <4>1 DEF Dist
    <3>6. CASE IsNull(t) /\ hint[t] # 0
      <4>1. disp[t] = -hint[t] /\ exact[t]
        BY <3>1, <3>6 DEF IsNull, Address, Granules
      <4>2. Rank(disp[t]) = 2 * hint[t]
        BY <3>1, <3>6, <4>1 DEF Rank, Granules
      <4>3. Abs(k - hint[t]) >= hint[t]
        BY <3>1, <3>4, <4>1 DEF Abs, Granules
      <4>4. Abs(k - hint[t]) # hint[t]
        <5>1. SUFFICES ASSUME Abs(k - hint[t]) = hint[t] PROVE FALSE
          OBVIOUS
        <5>2. k - hint[t] = hint[t]
          BY <3>1, <5>1 DEF Abs, Granules
        <5>3. Rank(k - hint[t]) = 2 * hint[t] - 1
          BY <3>1, <3>6, <5>2 DEF Rank, Granules
        <5> QED BY <3>1, <3>3, <4>2, <5>3 DEF Granules
      <4> QED BY <3>1, <3>2, <4>1, <4>3, <4>4 DEF Dist, Abs, Granules
    <3> QED BY <2>3, <3>5, <3>6
  <2>6. ASSUME NEW u \in Threads, pc'[u] = "done", NEW k \in kept'[u]
        PROVE  \/ Dist(u, got[u])' <= Dist(u, k)'
               \/ exact'[u] /\ Dist(u, k)' > hint'[u]
               \/ hint'[u] = 0
    <3>1. CASE u = t
      BY <2>1, <2>2, <2>5, <2>6, <3>1 DEF TypeOK, Dist
    <3>2. CASE u # t
      BY <2>1, <2>2, <2>6, <3>2 DEF TypeOK, Dist, NearestFree
    <3> QED BY <3>1, <3>2
  <2>7. NearestFree'
    BY <2>6 DEF NearestFree
  <2> QED BY <2>4, <2>7
<1>3. ASSUME NEW t \in Threads, ProbeMisses(t)
      PROVE  (SearchedInv /\ NearestFree)'
  <2>1. /\ pc[t] = "probing" /\ Grants(t) = {}
        /\ disp' = [disp EXCEPT ![t] = NextDisp(disp[t])]
        /\ UNCHANGED <<busy, pc, hint, exact, got, kept>>
    BY <1>3 DEF ProbeMisses
  <2>2. ASSUME NEW k \in kept[t]
        PROVE  Rank(k - hint[t]) >= Rank(NextDisp(disp[t]))
    <3>1. k \in Granules \ busy /\ hint[t] \in Granules \cup {0} /\ disp[t] \in Int
      BY <2>1 DEF TypeOK, SearchedInv
    <3>2. k - hint[t] \in Int
      BY <3>1 DEF Granules
    <3>3. k - hint[t] # disp[t]
      <4>1. SUFFICES ASSUME k - hint[t] = disp[t] PROVE FALSE
        OBVIOUS
      <4>2. k = Address(t)
        BY <3>1, <4>1 DEF Address, Granules
      <4> QED BY <2>1, <3>1, <4>2 DEF Grants
    <3>4. Rank(k - hint[t]) >= Rank(disp[t])
      BY <2>1 DEF SearchedInv
    <3>5. Rank(k - hint[t]) # Rank(disp[t])
      BY <3>1, <3>2, <3>3, RankInjective
    <3>6. Rank(NextDisp(disp[t])) = Rank(disp[t]) + 1 /\ Rank(disp[t]) \in Int /\ Rank(k - hint[t]) \in Int
      BY <3>1, <3>2, ProbeOrder
    <3> QED BY <3>4, <3>5, <3>6
  <2>3. SearchedInv'
    BY <2>1, <2>2 DEF SearchedInv, TypeOK
  <2>4. NearestFree'
    BY <2>1 DEF NearestFree, Dist
  <2> QED BY <2>3, <2>4
<1>4. ASSUME NEW t \in Threads, Deallocate(t)
      PROVE  (SearchedInv /\ NearestFree)'
  <2>1. SearchedInv'
    BY <1>4 DEF Deallocate, SearchedInv, TypeOK
  <2>2. NearestFree'
    BY <1>4 DEF Deallocate, NearestFree, Dist, TypeOK
  <2> QED BY <2>1, <2>2
<1>5. ASSUME NEW g \in Granules, OtherTakes(g)
      PROVE  (SearchedInv /\ NearestFree)'
  <2>1. SearchedInv'
    BY <1>5 DEF OtherTakes, Taken, SearchedInv, TypeOK
  <2>2. NearestFree'
    BY <1>5 DEF OtherTakes, Taken, NearestFree, Dist, TypeOK
  <2> QED BY <2>1, <2>2
<1>6. ASSUME NEW g \in Granules, OtherReleases(g)
      PROVE  (SearchedInv /\ NearestFree)'
  <2>1. SearchedInv'
    BY <1>6 DEF OtherReleases, SearchedInv
  <2>2. NearestFree'
    BY <1>6 DEF OtherReleases, NearestFree, Dist
  <2> QED BY <2>1, <2>2
<1>7. CASE UNCHANGED avars
  <2>1. UNCHANGED <<busy, pc, hint, exact, disp, got, kept>>
    BY <1>7 DEF avars
  <2>2. SearchedInv'
    BY <2>1 DEF SearchedInv
  <2>3. NearestFree'
    BY <2>1 DEF NearestFree, Dist
  <2> QED BY <1>0, <2>2, <2>3
<1> QED BY <1>0, <1>1, <1>2, <1>3, <1>4, <1>5, <1>6, <1>7 DEF Next

(* However memory is taken and released meanwhile, allocate() returns a    *)
(* granule as near to the hint as any that was free all the time.          *)
THEOREM NearestFreeHolds == Spec => []NearestFree
<1>1. Init => AllocatorInv
  BY TypeInit DEF Init, AllocatorInv, SearchedInv, NearestFree
<1>2. AllocatorInv /\ [Next]_avars => AllocatorInv'
  BY AllocatorStep
<1>3. AllocatorInv => NearestFree
  BY DEF AllocatorInv
<1> QED BY <1>1, <1>2, <1>3, PTL DEF Spec
=============================================================================
