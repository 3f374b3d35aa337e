------------------------------ MODULE InductionProofs -------------------------
(***************************************************************************)
(* Proofs about the parts of the library whose models contain recursive    *)
(* functions or talk about sequences: the chain of a deep pointer, the     *)
(* block of instructions a disassembler finds, the regions an image's      *)
(* section is in, its imports, the callables of a scope and the strings    *)
(* patterns are made of, all of them of any length.                        *)
(***************************************************************************)
EXTENDS ToolsProofs, FiniteSetTheorems, WellFoundedInduction

(* Induction, for provers that cannot choose a predicate: the least number *)
(* that is not in a set is a counterexample to its closure.                *)
LEMMA LeastNatural ==
  ASSUME NEW T, T \subseteq Nat, T # {}
  PROVE  \E m \in T : \A k \in T : m <= k
<1>1. PICK m \in T : \A k \in T : <<k, m>> \notin OpToRel(<, Nat)
  BY WFMin, NatLessThanWellFounded
<1>2. \A k \in T : k \in Nat /\ m \in Nat /\ ~ (k < m)
  BY <1>1 DEF OpToRel
<1> QED BY <1>2

LEMMA Induction ==
  ASSUME NEW T, 0 \in T, \A n \in Nat : n \in T => n + 1 \in T
  PROVE  Nat \subseteq T
<1> SUFFICES ASSUME Nat \ T # {} PROVE FALSE
  OBVIOUS
<1>1. PICK m \in Nat \ T : \A k \in Nat \ T : m <= k
  BY LeastNatural
<1>2. m # 0 /\ m - 1 \in Nat /\ m - 1 \in T
  BY <1>1
<1> QED BY <1>1, <1>2

(* A function defined by a first value and a step exists.                  *)
IsStep(step, n, S) == \A s \in S, i \in 1 .. n : step[s][i] \in S

Iterates(f, first, step, n, S) ==
  f \in [0 .. n -> S] /\ f[0] = first /\ \A i \in 1 .. n : f[i] = step[f[i - 1]][i]

LEMMA Recursion ==
  ASSUME NEW S, NEW first \in S, NEW n \in Nat, NEW step, IsStep(step, n, S)
  PROVE  \E f : Iterates(f, first, step, n, S)
<1> USE DEF IsStep
<1> DEFINE IsUpTo(f, k) == f \in [0 .. k -> S] /\ f[0] = first /\ \A i \in 1 .. k : f[i] = step[f[i - 1]][i]
           T == {k \in Nat : k <= n => \E f : IsUpTo(f, k)}
<1>1. 0 \in T
  <2> DEFINE g == [i \in 0 .. 0 |-> first]
  <2>1. g \in [0 .. 0 -> S] /\ g[0] = first /\ 1 .. 0 = {}
    OBVIOUS
  <2>2. IsUpTo(g, 0)
    BY <2>1
  <2> QED BY <2>2
<1>2. ASSUME NEW k \in Nat, k \in T
      PROVE  k + 1 \in T
  <2>0. k + 1 \in Nat
    OBVIOUS
  <2> SUFFICES ASSUME k + 1 <= n PROVE \E f : IsUpTo(f, k + 1)
    BY <2>0
  <2>1. PICK f : IsUpTo(f, k)
    BY <1>2
  <2> DEFINE g == [i \in 0 .. k + 1 |-> IF i <= k THEN f[i] ELSE step[f[k]][k + 1]]
  <2>2. \A i \in 0 .. k : i \in 0 .. k + 1 /\ g[i] = f[i] /\ f[i] \in S
    BY <2>1
  <2>3. g[k + 1] = step[f[k]][k + 1] /\ k + 1 \in 1 .. n /\ k \in 0 .. k
    OBVIOUS
  <2>4. g \in [0 .. k + 1 -> S]
    <3>1. f[k] \in S
      BY <2>1
    <3>2. step[f[k]][k + 1] \in S
      BY <3>1
    <3> QED BY <2>1, <3>2
  <2>5. ASSUME NEW i \in 1 .. k + 1
        PROVE  g[i] = step[g[i - 1]][i]
    <3>1. i - 1 \in 0 .. k /\ g[i - 1] = f[i - 1]
      BY <2>2
    <3>2. CASE i <= k
      BY <2>1, <2>2, <3>1, <3>2
    <3>3. CASE i = k + 1
      BY <2>3, <3>1, <3>3
    <3> QED BY <3>2, <3>3
  <2>6. g[0] = first
    BY <2>1, <2>2
  <2>7. IsUpTo(g, k + 1)
    BY <2>4, <2>5, <2>6
  <2> QED BY <2>7
<1> HIDE DEF T
<1>3. n \in T
  BY <1>1, <1>2, Induction
<1> QED BY <1>3 DEF T, Iterates

-----------------------------------------------------------------------------
(* Deep pointers: where memory c leads a pointer to, link by link.         *)
Links(f, b, list, c) ==
  f = [i \in 1 .. Len(list) |->
         IF i = 1 THEN b + list[1]
         ELSE IF f[i - 1] \in Pointers!Addresses THEN c[f[i - 1]] + list[i] ELSE 0]

Chain(b, list, c) == CHOOSE f : Links(f, b, list, c)

(* The chain of a pointer is what its recursive definition says.           *)
LEMMA ChainLinks ==
  ASSUME NEW b \in Int, NEW list \in Seq(Int), NEW c \in [Pointers!Addresses -> Pointers!Values]
  PROVE  Links(Chain(b, list, c), b, list, c)
<1> DEFINE n == Len(list)
           OnTo(a, i) == IF a \in Pointers!Addresses THEN c[a] + list[i] ELSE 0
           Link(a, i) == IF i = 1 THEN b + list[1] ELSE OnTo(a, i)
           step == [a \in Int |-> [i \in 1 .. n |-> Link(a, i)]]
<1>0. n \in Nat /\ \A i \in 1 .. n : list[i] \in Int
  BY LenProperties, ElementOfSeq
<1>1. \A a \in Int, i \in 1 .. n : Link(a, i) \in Int
  BY <1>0 DEF Pointers!Values
<1> HIDE DEF n, Link
<1>2. \A a \in Int, i \in 1 .. n : step[a][i] = Link(a, i)
  OBVIOUS
<1>3. PICK f : Iterates(f, 0, step, n, Int)
  <2>1. IsStep(step, n, Int) /\ n \in Nat /\ 0 \in Int
    BY <1>0, <1>1, <1>2 DEF IsStep
  <2> HIDE DEF step
  <2> QED BY <2>1, Recursion
<1> HIDE DEF step
<1>4. ASSUME NEW i \in 1 .. n
      PROVE  f[i] = Link(f[i - 1], i)
  <2>1. i - 1 \in 0 .. n /\ f[i - 1] \in Int
    <3>1. n \in Nat /\ f \in [0 .. n -> Int]
      BY <1>0, <1>3 DEF Iterates
    <3> QED BY <3>1
  <2> QED BY <1>2, <1>3, <2>1 DEF Iterates
<1> DEFINE g == [i \in 1 .. n |-> f[i]]
<1>5. ASSUME NEW i \in 1 .. n
      PROVE  g[i] = Link(g[i - 1], i)
  <2>1. CASE i = 1
    BY <1>4, <2>1 DEF Link
  <2>2. CASE i # 1
    <3>1. i - 1 \in 1 .. n
      BY <1>0, <2>2
    <3> QED BY <1>4, <3>1
  <2> QED BY <2>1, <2>2
<1>6. g = [i \in 1 .. n |-> Link(g[i - 1], i)]
  BY <1>5
<1>7. Links(g, b, list, c)
  BY <1>6 DEF Links, Link, n
<1> QED BY <1>7 DEF Chain

(* Link i of the chain of the pointer.                                     *)
OnTo(c, a, i) == IF a \in Pointers!Addresses THEN c[a] + offsets[i] ELSE 0

PointerTypes ==
  /\ base \in Int
  /\ offsets \in Seq(Int)
  /\ cell \in [Pointers!Addresses -> Pointers!Values]

LEMMA ReachedIs ==
  ASSUME PointerTypes
  PROVE  /\ Pointers!Reached = Chain(base, offsets, cell)
         /\ \A i \in 1 .. Len(offsets) :
              Pointers!Reached[i] = IF i = 1 THEN base + offsets[1]
                                    ELSE OnTo(cell, Pointers!Reached[i - 1], i)
<1>1. Pointers!Reached = Chain(base, offsets, cell)
  BY DEF Pointers!Reached, Pointers!InRange, Chain, Links
<1>2. Links(Pointers!Reached, base, offsets, cell)
  BY <1>1, ChainLinks DEF PointerTypes
<1>3. ASSUME NEW f, Links(f, base, offsets, cell), NEW i \in 1 .. Len(offsets)
      PROVE  f[i] = IF i = 1 THEN base + offsets[1] ELSE OnTo(cell, f[i - 1], i)
  BY <1>3 DEF Links, OnTo
<1> QED BY <1>1, <1>2, <1>3

Stored(c, a, v) == [c EXCEPT ![a] = v]

AvoidsUpTo(f, n, a) == \A j \in 1 .. n - 1 : f[j] # a

(* A store into a cell the chain does not pass in front of link n leaves   *)
(* it as it is up to there.                                                *)
LEMMA StoredBehind ==
  ASSUME NEW b \in Int, NEW list \in Seq(Int), NEW c \in [Pointers!Addresses -> Pointers!Values],
         NEW a \in Pointers!Addresses, NEW v \in Pointers!Values, NEW n \in 1 .. Len(list),
         AvoidsUpTo(Chain(b, list, c), n, a)
  PROVE  Chain(b, list, Stored(c, a, v))[n] = Chain(b, list, c)[n]
<1> DEFINE d == Stored(c, a, v)
           f == Chain(b, list, c)
           g == Chain(b, list, d)
           T == {k \in Nat : k \in 1 .. n => g[k] = f[k]}
<1>0. Len(list) \in Nat
  BY LenProperties
<1>1. /\ d \in [Pointers!Addresses -> Pointers!Values]
      /\ \A e \in Pointers!Addresses \ {a} : d[e] = c[e]
  BY DEF Stored
<1>2. Links(f, b, list, c) /\ Links(g, b, list, d)
  <2> HIDE DEF d
  <2> QED BY <1>1, ChainLinks
<1> HIDE DEF f, g, d
<1>3. ASSUME NEW k \in 1 .. Len(list)
      PROVE  /\ f[k] = IF k = 1 THEN b + list[1]
                       ELSE IF f[k - 1] \in Pointers!Addresses THEN c[f[k - 1]] + list[k] ELSE 0
             /\ g[k] = IF k = 1 THEN b + list[1]
                       ELSE IF g[k - 1] \in Pointers!Addresses THEN d[g[k - 1]] + list[k] ELSE 0
  BY <1>2 DEF Links
<1>4. 0 \in T
  OBVIOUS
<1>5. ASSUME NEW k \in Nat, k \in T
      PROVE  k + 1 \in T
  <2>0. k + 1 \in Nat
    OBVIOUS
  <2> SUFFICES ASSUME k + 1 \in 1 .. n PROVE g[k + 1] = f[k + 1]
    BY <2>0
  <2>1. k + 1 \in 1 .. Len(list) /\ (k + 1) - 1 = k
    BY <1>0
  <2>2. CASE k = 0
    BY <1>3, <2>1, <2>2
  <2>3. CASE k # 0
    <3>1. g[k] = f[k] /\ f[k] # a
      BY <1>5, <2>3 DEF f, AvoidsUpTo
    <3>2. /\ f[k + 1] = IF f[k] \in Pointers!Addresses THEN c[f[k]] + list[k + 1] ELSE 0
          /\ g[k + 1] = IF g[k] \in Pointers!Addresses THEN d[g[k]] + list[k + 1] ELSE 0
      BY <1>3, <2>1, <2>3
    <3> QED BY <1>1, <3>1, <3>2
  <2> QED BY <2>2, <2>3
<1> HIDE DEF T
<1>6. Nat \subseteq T
  BY <1>4, <1>5, Induction
<1>7. n \in Nat /\ n \in 1 .. n
  BY <1>0
<1> QED BY <1>6, <1>7 DEF T, f, g, d

(* The way to the address where a walk is, and from there to the end, that *)
(* it had when a cell behind it changed: it does not come to that cell.    *)
OldWay(p) ==
  /\ changed # {}
  /\ p[link] = addr /\ p[Len(offsets)] \in targets
  /\ \A i \in link .. Len(offsets) - 1 :
       p[i] \notin changed /\ p[i + 1] = OnTo(cell, p[i], i + 1)

(* A walk is where the chain leads now, or on a way that it once led.      *)
WalkInv ==
  /\ PointerTypes
  /\ walk \in {"access", "done"} => addr \in targets
  /\ walk = "walking" =>
       /\ link \in 1 .. Len(offsets)
       /\ \/ addr = Pointers!Reached[link] /\ Pointers!Reached[Len(offsets)] \in targets
          \/ \E p : OldWay(p)

(* A call begins at the first link, with the end the chain has.            *)
LEMMA BeginWalks ==
  ASSUME WalkInv, Pointers!Begin
  PROVE  WalkInv'
<1>1. CASE offsets = << >>
  BY <1>1 DEF WalkInv, PointerTypes, Pointers!Begin, Pointers!memory
<1>2. CASE offsets # << >>
  <2>1. /\ walk' = "walking" /\ addr' = base + offsets[1] /\ link' = 1
        /\ targets' = {Pointers!Reached[Len(offsets)]}
        /\ UNCHANGED <<base, offsets, cell>>
    BY <1>2 DEF Pointers!Begin, Pointers!OffsetAt, Pointers!memory
  <2>2. 1 \in 1 .. Len(offsets)
    BY <1>2, EmptySeq DEF WalkInv, PointerTypes
  <2>3. PointerTypes' /\ Pointers!Reached' = Pointers!Reached
    BY <2>1 DEF WalkInv, PointerTypes, Pointers!Reached, Pointers!InRange
  <2>4. Pointers!Reached[1] = base + offsets[1]
    BY <2>2, ReachedIs DEF WalkInv
  <2> QED BY <2>1, <2>2, <2>3, <2>4 DEF WalkInv
<1> QED BY <1>1, <1>2

(* A turn of the loop stays on the way, and ends at its end.               *)
LEMMA FollowWalks ==
  ASSUME WalkInv, Pointers!Follow
  PROVE  WalkInv'
<1>1. /\ walk = "walking" /\ link \in 1 .. Len(offsets) /\ Len(offsets) \in Nat
      /\ UNCHANGED <<base, offsets, cell, targets, changed>>
  BY LenProperties DEF WalkInv, PointerTypes, Pointers!Follow, Pointers!memory
<1>2. PointerTypes' /\ Pointers!Reached' = Pointers!Reached
  BY <1>1 DEF WalkInv, PointerTypes, Pointers!Reached, Pointers!InRange
<1>3. CASE walk' = "walking"
  <2>1. /\ addr \in Pointers!Addresses /\ link # Len(offsets)
        /\ addr' = cell[addr] + offsets[link + 1] /\ link' = link + 1
    BY <1>1, <1>3 DEF Pointers!Follow, Pointers!InRange, Pointers!Stops, Pointers!Inspected,
                      Pointers!OffsetAt, Pointers!Handled
  <2>2. addr' = OnTo(cell, addr, link + 1) /\ link + 1 \in 1 .. Len(offsets)
    BY <1>1, <2>1 DEF OnTo
  <2>3. CASE addr = Pointers!Reached[link] /\ Pointers!Reached[Len(offsets)] \in targets
    <3>1. Pointers!Reached[link + 1] = OnTo(cell, Pointers!Reached[link], link + 1)
      BY <1>1, <2>2, ReachedIs DEF WalkInv
    <3> QED BY <1>1, <1>2, <1>3, <2>1, <2>2, <2>3, <3>1 DEF WalkInv
  <2>4. CASE \E p : OldWay(p)
    <3>1. PICK p : OldWay(p)
      BY <2>4
    <3>2. OldWay(p)'
      BY <1>1, <2>1, <2>2, <3>1 DEF OldWay, OnTo
    <3> QED BY <1>1, <1>2, <1>3, <2>1, <2>2, <3>2 DEF WalkInv
  <2> QED BY <1>1, <2>3, <2>4 DEF WalkInv
<1>4. CASE walk' \in {"access", "done"}
  <2>1. link = Len(offsets) /\ addr' = addr
    BY <1>1, <1>4 DEF Pointers!Follow, Pointers!Stops, Pointers!Inspected, Pointers!Handled
  <2>2. addr \in targets
    BY <1>1, <2>1 DEF WalkInv, OldWay
  <2> QED BY <1>1, <1>2, <1>4, <2>1, <2>2 DEF WalkInv
<1>5. CASE walk' \notin {"walking", "access", "done"}
  BY <1>2, <1>5 DEF WalkInv
<1> QED BY <1>3, <1>4, <1>5

(* A store of another thread: the chain is the same up to the walk, or it  *)
(* was changed behind the walk, which is then on a way without that cell.  *)
LEMMA StoreWalks ==
  ASSUME WalkInv, "one_link" \in ClientRules,
         NEW a \in Pointers!Addresses, NEW v \in Pointers!Values, Pointers!OtherStores(a, v)
  PROVE  WalkInv'
<1> DEFINE R == Pointers!Reached
           n == Len(offsets)
<1>1. /\ walk = "walking" /\ link \in 1 .. n /\ n \in Nat
      /\ UNCHANGED <<base, offsets, walk, addr, link>>
      /\ cell' = [cell EXCEPT ![a] = v]
      /\ changed \subseteq {a} /\ changed' = {a}
      /\ \A i, j \in 1 .. n - 1 : R[i] = a /\ R[j] = a => i = j
      /\ targets' = targets \cup {R[n]'}
  BY LenProperties DEF WalkInv, PointerTypes, Pointers!OtherStores, Pointers!PassedOnce
<1>2. PointerTypes'
  BY <1>1 DEF WalkInv, PointerTypes
<1>3. R = Chain(base, offsets, cell) /\ R' = Chain(base', offsets', cell')
  <2>1. R = Chain(base, offsets, cell)
    BY ReachedIs DEF WalkInv
  <2>2. R' = Chain(base', offsets', cell')
    BY DEF Pointers!Reached, Pointers!InRange, Chain, Links
  <2> QED BY <2>1, <2>2
<1>4. \A i, e : e # a => OnTo(cell, e, i)' = OnTo(cell, e, i)
  BY <1>1 DEF OnTo, WalkInv, PointerTypes
<1>5. CASE \E p : OldWay(p)
  <2>1. PICK p : OldWay(p)
    BY <1>5
  <2>2. changed = {a}
    BY <1>1, <2>1 DEF OldWay
  <2>3. OldWay(p)'
    BY <1>1, <1>4, <2>1, <2>2 DEF OldWay
  <2> QED BY <1>1, <1>2, <2>3 DEF WalkInv
<1>6. CASE addr = R[link] /\ R[n] \in targets /\ \A j \in 1 .. link - 1 : R[j] # a
  <2>1. R'[link] = R[link]
    <3>1. Chain(base, offsets, Stored(cell, a, v))[link] = Chain(base, offsets, cell)[link]
      <4>1. base \in Int /\ offsets \in Seq(Int) /\ cell \in [Pointers!Addresses -> Pointers!Values]
        BY DEF WalkInv, PointerTypes
      <4>2. link \in 1 .. Len(offsets) /\ AvoidsUpTo(Chain(base, offsets, cell), link, a)
        BY <1>1, <1>3, <1>6 DEF AvoidsUpTo
      <4> QED BY <4>1, <4>2, StoredBehind
    <3>2. R' = Chain(base, offsets, Stored(cell, a, v))
      BY <1>1, <1>3 DEF Stored
    <3> QED BY <1>3, <3>1, <3>2
  <2>2. addr' = R'[link'] /\ R'[Len(offsets')] \in targets'
    BY <1>1, <1>6, <2>1
  <2> QED BY <1>1, <1>2, <2>2 DEF WalkInv
<1>7. CASE addr = R[link] /\ R[n] \in targets /\ \E j \in 1 .. link - 1 : R[j] = a
  <2>1. PICK j \in 1 .. link - 1 : R[j] = a
    BY <1>7
  <2>2. ASSUME NEW i \in link .. n - 1
        PROVE  R[i] # a /\ R[i + 1] = OnTo(cell, R[i], i + 1)
    <3>1. i \in 1 .. n - 1 /\ j \in 1 .. n - 1 /\ i # j /\ i + 1 \in 1 .. n
      BY <1>1
    <3> QED BY <1>1, <2>1, <3>1, ReachedIs DEF WalkInv
  <2>3. \E p : OldWay(p)'
    <3>1. PICK p : /\ p[link] = addr /\ p[n] \in targets
                  /\ \A i \in link .. n - 1 : p[i] # a /\ p[i + 1] = OnTo(cell, p[i], i + 1)
      BY <1>7, <2>2
    <3>2. OldWay(p)'
      BY <1>1, <1>4, <3>1 DEF OldWay
    <3> QED BY <3>2
  <2> QED BY <1>1, <1>2, <2>3 DEF WalkInv
<1> QED BY <1>1, <1>5, <1>6, <1>7 DEF WalkInv

LEMMA WalkStep ==
  ASSUME WalkInv, "one_link" \in ClientRules, Pointers!Next \/ UNCHANGED pointerVars
  PROVE  WalkInv'
<1>1. CASE UNCHANGED pointerVars
  <2>1. Pointers!Reached' = Pointers!Reached /\ PointerTypes'
    BY <1>1 DEF pointerVars, WalkInv, PointerTypes, Pointers!Reached, Pointers!InRange
  <2>2. \A p : OldWay(p)' <=> OldWay(p)
    BY <1>1 DEF pointerVars, OldWay, OnTo
  <2> QED BY <1>1, <2>1, <2>2 DEF pointerVars, WalkInv
<1>2. ASSUME NEW p \in Pointers!Values, Pointers!Assign(p)
      PROVE  WalkInv'
  <2>1. /\ walk \notin {"walking", "access"} /\ UNCHANGED <<cell, walk, addr, targets>>
        /\ base' \in {0, p} /\ offsets' \in {<< >>, <<0>>}
    BY <1>2 DEF Pointers!Assign, Pointers!Running, Pointers!memory
  <2>2. 0 \in Int /\ p \in Int /\ << >> \in Seq(Int) /\ <<0>> \in Seq(Int)
    BY EmptySeq DEF Pointers!Values
  <2>3. base' \in Int /\ offsets' \in Seq(Int)
    BY <2>1, <2>2, Zenon
  <2>4. PointerTypes'
    BY <2>1, <2>3 DEF WalkInv, PointerTypes
  <2> QED BY <2>1, <2>4 DEF WalkInv
<1>3. ASSUME NEW kind, Pointers!Access(kind)
      PROVE  WalkInv'
  <2>1. /\ walk = "access" /\ walk' # "walking" /\ walk' # "access"
        /\ UNCHANGED <<base, offsets, targets, addr>>
    BY <1>3 DEF Pointers!Access, Pointers!Stops
  <2>2. cell' \in [Pointers!Addresses -> Pointers!Values]
    BY <1>3 DEF Pointers!Access, WalkInv, PointerTypes
  <2> QED BY <2>1, <2>2 DEF WalkInv, PointerTypes
<1>4. ASSUME NEW r, Pointers!OtherProtects(r)
      PROVE  WalkInv'
  <2>1. UNCHANGED <<base, offsets, cell, walk, addr, link, targets, changed>>
    BY <1>4 DEF Pointers!OtherProtects
  <2>2. Pointers!Reached' = Pointers!Reached /\ PointerTypes'
    BY <2>1 DEF WalkInv, PointerTypes, Pointers!Reached, Pointers!InRange
  <2>3. \A p : OldWay(p)' <=> OldWay(p)
    BY <2>1 DEF OldWay, OnTo
  <2> QED BY <2>1, <2>2, <2>3 DEF WalkInv
<1> QED BY <1>1, <1>2, <1>3, <1>4, BeginWalks, FollowWalks, StoreWalks DEF Pointers!Next

(* get() and set() touch, and getAddress() returns, only an address the    *)
(* chain led to at some moment of the call, if not more than one cell on   *)
(* the way changes and the way passes it once: for pointers of any length. *)
THEOREM NoTornChainAlways ==
  ASSUME "one_link" \in ClientRules
  PROVE  Spec => []NoTornChain
<1>1. Init => WalkInv
  <2> SUFFICES ASSUME Init PROVE WalkInv
    OBVIOUS
  <2>1. Pointers!Init
    BY Zenon DEF Init
  <2>2. walk = "idle" /\ cell \in [Pointers!Addresses -> Pointers!Values]
    BY <2>1 DEF Pointers!Init
  <2>3. base \in Int /\ offsets \in Seq(Int)
    <3>1. << >> \in Seq(Int) /\ \A b \in Pointers!Addresses : b \in Int
      BY EmptySeq DEF Pointers!Addresses
    <3>2. base \in Pointers!Addresses \cup {0} /\ offsets \in OffsetLists \cup {<< >>}
      BY <2>1 DEF Pointers!Init
    <3>3. OffsetLists \subseteq Seq(Int) /\ 0 \in Int
      BY ToolsAssumption
    <3> QED BY <3>1, <3>2, <3>3, Zenon
  <2> QED BY <2>2, <2>3 DEF WalkInv, PointerTypes
<1>2. WalkInv /\ [Next]_vars => WalkInv'
  BY OneToolAtATime, WalkStep
<1>3. WalkInv => NoTornChain
  BY DEF WalkInv, NoTornChain, Pointers!NoTornChain
<1> QED BY <1>1, <1>2, <1>3, PTL DEF Spec

-----------------------------------------------------------------------------
(* Disassembler: instructions that follow each other from place p on, with *)
(* the addresses they are said to have and all details.                    *)
IsRun(r, p) ==
  \A i \in DOMAIN r :
    /\ r[i].at = IF i = 1 THEN p ELSE r[i - 1].at + length[r[i - 1].at]
    /\ r[i].address = Base + r[i].at
    /\ r[i].detail = "detailed"

Decoded == [at : Int, address : Int, detail : {"detailed"}]

(* What cs_disasm makes of what it has found after k - 1 steps.            *)
Find(done, k, p, left, a, n) ==
  LET next == IF done = << >> THEN p ELSE done[k - 1].at + length[done[k - 1].at]
  IN IF Len(done) = k - 1 /\ (n = 0 \/ k <= n) /\ Streams!Decodes(next, left - (next - p))
     THEN Append(done, Streams!Instruction(next, a + (next - p), engine))
     ELSE done

Finds(f, p, left, a, n) ==
  f = [k \in 0 .. CodeSize |-> IF k = 0 THEN << >> ELSE Find(f[k - 1], k, p, left, a, n)]

(* One more instruction goes on where the ones before it end.              *)
LEMMA FindRuns ==
  ASSUME engine = "detailed", NEW p \in Int, NEW left, NEW n, NEW k \in Nat \ {0},
         length \in [Streams!Places -> Lengths \cup {0}],
         NEW done \in Seq(Decoded)
  PROVE  /\ Find(done, k, p, left, Base + p, n) \in Seq(Decoded)
         /\ IsRun(done, p) => IsRun(Find(done, k, p, left, Base + p, n), p)
<1> DEFINE next == IF done = << >> THEN p ELSE done[k - 1].at + length[done[k - 1].at]
           new == Streams!Instruction(next, (Base + p) + (next - p), engine)
<1>1. CASE Len(done) = k - 1 /\ Streams!Decodes(next, left - (next - p))
  <2>0. CodeSize \in Nat /\ Base \in Int
    BY ToolsAssumption
  <2>1. next \in Int
    BY <1>1, <2>0 DEF Streams!Decodes, Streams!Places
  <2>2. (Base + p) + (next - p) = Base + next /\ Base + next \in Int
    BY <2>0, <2>1
  <2>3. new = [at |-> next, address |-> Base + next, detail |-> "detailed"]
    BY <2>2 DEF Streams!Instruction
  <2> HIDE DEF next, new
  <2>4. new \in Decoded
    BY <2>1, <2>2, <2>3 DEF Decoded
  <2>5. /\ Append(done, new) \in Seq(Decoded)
        /\ DOMAIN Append(done, new) = 1 .. k
        /\ Append(done, new)[k] = new
        /\ \A i \in 1 .. k - 1 : Append(done, new)[i] = done[i]
    BY <1>1, <2>4, AppendProperties
  <2>6. ASSUME IsRun(done, p)
        PROVE  IsRun(Append(done, new), p)
    <3>1. DOMAIN done = 1 .. k - 1
      BY <1>1
    <3>2. k = 1 <=> done = << >>
      BY <1>1, EmptySeq
    <3>3. new.at = next /\ new.address = Base + new.at /\ new.detail = "detailed"
      BY <2>3
    <3>4. new.at = IF k = 1 THEN p ELSE done[k - 1].at + length[done[k - 1].at]
      BY <3>2, <3>3 DEF next
    <3>5. ASSUME NEW i \in 1 .. k, i # k
          PROVE  /\ done[i].at = IF i = 1 THEN p ELSE done[i - 1].at + length[done[i - 1].at]
                 /\ done[i].address = Base + done[i].at /\ done[i].detail = "detailed"
                 /\ i \in 1 .. k - 1 /\ (i # 1 => i - 1 \in 1 .. k - 1)
      BY <2>6, <3>1, <3>5 DEF IsRun
    <3>6. k # 1 => k - 1 \in 1 .. k - 1
      OBVIOUS
    <3>7. \A i \in 1 .. k :
            /\ Append(done, new)[i].at =
                 IF i = 1 THEN p
                 ELSE Append(done, new)[i - 1].at + length[Append(done, new)[i - 1].at]
            /\ Append(done, new)[i].address = Base + Append(done, new)[i].at
            /\ Append(done, new)[i].detail = "detailed"
      <4> SUFFICES ASSUME NEW i \in 1 .. k
                   PROVE  /\ Append(done, new)[i].at =
                               IF i = 1 THEN p
                               ELSE Append(done, new)[i - 1].at + length[Append(done, new)[i - 1].at]
                          /\ Append(done, new)[i].address = Base + Append(done, new)[i].at
                          /\ Append(done, new)[i].detail = "detailed"
        OBVIOUS
      <4>1. CASE i = k
        BY <2>5, <3>3, <3>4, <3>6, <4>1
      <4>2. CASE i # k
        BY <2>5, <3>5, <4>2
      <4> QED BY <4>1, <4>2
    <3> QED BY <2>5, <3>7 DEF IsRun
  <2>7. Find(done, k, p, left, Base + p, n) \in {done, Append(done, new)}
    BY DEF Find, next, new
  <2> QED BY <2>5, <2>6, <2>7
<1>2. CASE ~ (Len(done) = k - 1 /\ Streams!Decodes(next, left - (next - p)))
  <2>1. Find(done, k, p, left, Base + p, n) = done
    BY <1>2 DEF Find
  <2> QED BY <2>1
<1> QED BY <1>1, <1>2

(* A block is a run of instructions from where it was asked for.           *)
LEMMA BlockRuns ==
  ASSUME engine = "detailed", NEW p \in Int, NEW left, NEW n,
         length \in [Streams!Places -> Lengths \cup {0}]
  PROVE  IsRun(Streams!Block(p, left, Base + p, n), p)
<1> DEFINE S == {r \in Seq(Decoded) : IsRun(r, p)}
           F(r, k) == Find(r, k, p, left, Base + p, n)
           step == [r \in S |-> [k \in 1 .. CodeSize |-> F(r, k)]]
<1>0. CodeSize \in Nat
  BY ToolsAssumption
<1>1. << >> \in S
  BY EmptySeq DEF IsRun
<1>2. \A r \in S, k \in 1 .. CodeSize : F(r, k) \in S
  BY <1>0, FindRuns
<1> HIDE DEF S, F
<1>3. \A r \in S, k \in 1 .. CodeSize : step[r][k] = F(r, k)
  OBVIOUS
<1>4. PICK f : Iterates(f, << >>, step, CodeSize, S)
  <2>1. IsStep(step, CodeSize, S)
    BY <1>2, <1>3 DEF IsStep
  <2> HIDE DEF step
  <2> QED BY <1>0, <1>1, <2>1, Recursion
<1> HIDE DEF step
<1>5. ASSUME NEW g, g = [k \in 0 .. CodeSize |-> IF k = 0 THEN << >> ELSE F(g[k - 1], k)]
      PROVE  g[CodeSize] \in S
  <2> DEFINE T == {k \in Nat : k <= CodeSize => g[k] \in S}
  <2>1. 0 \in T
    BY <1>0, <1>1, <1>5
  <2>2. ASSUME NEW k \in Nat, k \in T
        PROVE  k + 1 \in T
    <3>0. k + 1 \in Nat
      OBVIOUS
    <3> SUFFICES ASSUME k + 1 <= CodeSize PROVE g[k + 1] \in S
      BY <3>0
    <3>1. k + 1 \in 0 .. CodeSize /\ k + 1 # 0 /\ (k + 1) - 1 = k /\ k + 1 \in 1 .. CodeSize
      BY <1>0
    <3>2. g[k + 1] = F(g[k], k + 1)
      BY <1>5, <3>1
    <3> QED BY <1>0, <1>2, <2>2, <3>1, <3>2
  <2> HIDE DEF T
  <2>3. Nat \subseteq T
    BY <2>1, <2>2, Induction
  <2> QED BY <1>0, <2>3 DEF T
<1>6. \E g : g = [k \in 0 .. CodeSize |-> IF k = 0 THEN << >> ELSE F(g[k - 1], k)]
  <2>1. /\ f \in [0 .. CodeSize -> S] /\ f[0] = << >>
        /\ \A k \in 1 .. CodeSize : f[k] = step[f[k - 1]][k]
    BY <1>4 DEF Iterates
  <2>2. ASSUME NEW k \in 0 .. CodeSize
        PROVE  f[k] = IF k = 0 THEN << >> ELSE F(f[k - 1], k)
    <3>1. k # 0 => k \in 1 .. CodeSize /\ k - 1 \in 0 .. CodeSize
      BY <1>0
    <3> QED BY <1>3, <2>1, <3>1
  <2>3. f = [k \in 0 .. CodeSize |-> IF k = 0 THEN << >> ELSE F(f[k - 1], k)]
    BY <2>1, <2>2
  <2> QED BY <2>3
<1>7. Streams!Block(p, left, Base + p, n) =
        (CHOOSE g : g = [k \in 0 .. CodeSize |-> IF k = 0 THEN << >> ELSE F(g[k - 1], k)])[CodeSize]
  BY DEF Streams!Block, F, Find
<1>8. Streams!Block(p, left, Base + p, n) \in S
  BY <1>5, <1>6, <1>7
<1> QED BY <1>8 DEF S

(* While threads decode one at a time: the engine gives details to whoever *)
(* is past opening it, and what is to be copied is what the thread asked   *)
(* for.                                                                    *)
StreamTypes ==
  /\ length \in [Streams!Places -> Lengths \cup {0}]
  /\ engine \in {"none", "plain", "detailed"}
  /\ code \in [Threads -> Int]
  /\ DOMAIN address = Threads /\ \A t \in Threads : address[t] = Base + code[t]
  /\ pc \in [Threads -> {"idle", "opening", "option", "ready", "copying"}]
  /\ DOMAIN from = Threads /\ DOMAIN array = Threads /\ DOMAIN result = Threads
  /\ DOMAIN call = Threads
  /\ buffer.detail \in {"none", "detailed"}

EngineReady ==
  /\ \A t, u \in Threads : pc[t] # "idle" /\ pc[u] # "idle" => t = u
  /\ \A t \in Threads : /\ pc[t] = "option" => engine = "plain"
                        /\ pc[t] \in {"ready", "copying"} => engine = "detailed"
  /\ engine = "plain" => \E t \in Threads : pc[t] = "option"

CopiesOwn(t) ==
  /\ pc[t] \in {"opening", "option", "ready"} => from[t] = code[t]
  /\ pc[t] = "copying" => IsRun(IF call[t].what = "block" THEN array[t] ELSE buffer.holds, from[t])
  /\ ~ (pc[t] = "copying" /\ call[t].what = "block") => array[t] = << >>
  /\ IsRun(result[t], from[t])

StreamInv == StreamTypes /\ EngineReady /\ \A t \in Threads : CopiesOwn(t)

LEMMA StreamInit ==
  ASSUME Init PROVE StreamInv
<1>1. Streams!Init
  BY Zenon DEF Init
<1>2. StreamTypes
  BY <1>1, ToolsAssumption DEF Streams!Init, StreamTypes
<1>3. EngineReady /\ \A t \in Threads : CopiesOwn(t)
  BY <1>1 DEF Streams!Init, EngineReady, CopiesOwn, IsRun
<1> QED BY <1>2, <1>3 DEF StreamInv

(* A call begins when no other thread is in one.                           *)
LEMMA BeginKeeps ==
  ASSUME StreamInv, "one_reader" \in ClientRules, NEW t \in Threads, NEW what, Streams!Begin(t, what)
  PROVE  StreamInv'
<1>1. /\ \A u \in Threads : pc[u] = "idle"
      /\ pc' = [pc EXCEPT ![t] = IF engine = "none" THEN "opening" ELSE "ready"]
      /\ call' = [call EXCEPT ![t] = what]
      /\ from' = [from EXCEPT ![t] = code[t]]
      /\ result' = [result EXCEPT ![t] = << >>]
      /\ UNCHANGED <<length, engine, code, size, address, buffer, array>>
  BY DEF Streams!Begin, Streams!Goes
<1>2. StreamTypes'
  BY <1>1 DEF StreamInv, StreamTypes
<1>3. EngineReady'
  BY <1>1 DEF StreamInv, StreamTypes, EngineReady
<1>4. ASSUME NEW u \in Threads
      PROVE  CopiesOwn(u)'
  <2>1. array[u] = << >> /\ array'[u] = << >> /\ pc'[u] # "copying"
    BY <1>1 DEF StreamInv, StreamTypes, CopiesOwn
  <2>2. CASE u = t
    <3>1. from'[u] = code'[u] /\ result'[u] = << >>
      BY <1>1, <2>2 DEF StreamInv, StreamTypes
    <3> QED BY <2>1, <3>1 DEF CopiesOwn, IsRun
  <2>3. CASE u # t
    <3>1. from'[u] = from[u] /\ result'[u] = result[u] /\ pc'[u] = "idle" /\ length' = length
      BY <1>1, <2>3 DEF StreamInv, StreamTypes
    <3> QED BY <2>1, <3>1 DEF StreamInv, CopiesOwn, IsRun
  <2> QED BY <2>2, <2>3
<1> QED BY <1>2, <1>3, <1>4 DEF StreamInv

(* Opening the engine fails or sets the option as well.                    *)
LEMMA OpenKeeps ==
  ASSUME StreamInv, NEW t \in Threads, Streams!OpenEngine(t)
  PROVE  StreamInv'
<1>1. UNCHANGED <<length, code, size, address, call, from, buffer, array, result>>
  BY DEF Streams!OpenEngine
<1>2. PICK step \in {"option", "idle", "ready"} :
        /\ pc' = [pc EXCEPT ![t] = step]
        /\ \/ pc[t] = "opening" /\ step = "option" /\ engine' = "plain"
           \/ pc[t] = "opening" /\ step = "idle" /\ engine' = engine
           \/ pc[t] = "option" /\ step = "ready" /\ engine' = "detailed"
  BY DEF Streams!OpenEngine, Streams!Goes
<1>3. /\ pc'[t] = step
      /\ \A u \in Threads \ {t} : pc[u] = "idle" /\ pc'[u] = "idle"
  BY <1>2 DEF StreamInv, StreamTypes, EngineReady
<1>4. StreamTypes'
  BY <1>1, <1>2 DEF StreamInv, StreamTypes
<1>5. EngineReady'
  BY <1>2, <1>3 DEF StreamInv, EngineReady
<1>6. ASSUME NEW u \in Threads
      PROVE  CopiesOwn(u)'
  <2>1. CopiesOwn(u) /\ (pc'[u] # "idle" => pc[u] \in {"opening", "option"} /\ pc'[u] # "copying")
    BY <1>2, <1>3 DEF StreamInv
  <2>2. pc[u] # "copying" /\ pc'[u] # "copying"
    BY <1>2, <1>3
  <2> QED BY <1>1, <2>1, <2>2 DEF CopiesOwn, IsRun
<1> QED BY <1>4, <1>5, <1>6 DEF StreamInv

(* The buffer is made while the engine gives details, and nobody else      *)
(* decodes into it before it is copied.                                    *)
LEMMA DecodeKeeps ==
  ASSUME StreamInv, NEW t \in Threads, Streams!Decode(t)
  PROVE  StreamInv'
<1> DEFINE finds == Streams!Decodes(code[t], size[t])
           n == IF finds /\ call[t].what = "read" THEN length[code[t]] ELSE 0
           detail == IF buffer.detail = "none" THEN engine ELSE buffer.detail
<1>1. /\ pc[t] = "ready" /\ call[t].what # "block"
      /\ pc' = [pc EXCEPT ![t] = IF finds THEN "copying" ELSE "idle"]
      /\ buffer' = [detail |-> detail,
                    holds |-> IF finds THEN <<Streams!Instruction(code[t], address[t], detail)>>
                              ELSE buffer.holds]
      /\ code' = [code EXCEPT ![t] = code[t] + n]
      /\ address' = [address EXCEPT ![t] = address[t] + n]
      /\ UNCHANGED <<length, engine, call, from, array, result>>
  BY DEF Streams!Decode, Streams!Goes
<1>2. engine = "detailed" /\ detail = "detailed"
  BY <1>1 DEF StreamInv, StreamTypes, EngineReady
<1>3. n \in Int
  BY <1>1, ToolsAssumption DEF StreamInv, StreamTypes, Streams!Decodes
<1>4. \A u \in Threads \ {t} : pc[u] = "idle" /\ pc'[u] = "idle"
  BY <1>1 DEF StreamInv, StreamTypes, EngineReady
<1> HIDE DEF n, detail
<1>5. /\ code'[t] = code[t] + n /\ \A u \in Threads \ {t} : code'[u] = code[u] /\ address'[u] = address[u]
      /\ address'[t] = address[t] + n /\ code[t] \in Int /\ address[t] = Base + code[t]
  BY <1>1 DEF StreamInv, StreamTypes
<1>6. StreamTypes'
  <2>1. code' \in [Threads -> Int] /\ DOMAIN address' = Threads
    BY <1>1, <1>3, <1>5 DEF StreamInv, StreamTypes
  <2>0. Base \in Int
    BY ToolsAssumption
  <2>2. \A u \in Threads : address'[u] = Base + code'[u]
    BY <2>0, <1>3, <1>5 DEF StreamInv, StreamTypes
  <2>3. pc' \in [Threads -> {"idle", "opening", "option", "ready", "copying"}]
    BY <1>1 DEF StreamInv, StreamTypes
  <2>4. buffer'.detail = "detailed"
    BY <1>1, <1>2
  <2> QED BY <1>1, <2>1, <2>2, <2>3, <2>4 DEF StreamInv, StreamTypes
<1>7. EngineReady'
  BY <1>1, <1>2, <1>4 DEF StreamInv, StreamTypes, EngineReady
<1>8. CopiesOwn(t)'
  <2>1. from'[t] = code[t] /\ array'[t] = << >> /\ IsRun(result[t], from[t])'
    BY <1>1 DEF StreamInv, CopiesOwn, IsRun
  <2>2. pc'[t] \in {"copying", "idle"} /\ call'[t].what # "block"
    BY <1>1 DEF StreamInv, StreamTypes
  <2>3. ASSUME pc'[t] = "copying"
        PROVE  IsRun(buffer.holds, from[t])'
    <3>1. finds
      BY <1>1, <2>3 DEF StreamInv, StreamTypes
    <3>2. buffer'.holds = <<[at |-> code[t], address |-> Base + code[t], detail |-> "detailed"]>>
      BY <1>1, <1>2, <1>5, <3>1 DEF Streams!Instruction
    <3> QED BY <2>1, <3>2 DEF IsRun
  <2> QED BY <2>1, <2>2, <2>3 DEF CopiesOwn
<1>9. ASSUME NEW u \in Threads \ {t}
      PROVE  CopiesOwn(u)'
  BY <1>1, <1>4 DEF StreamInv, CopiesOwn, IsRun
<1> QED BY <1>6, <1>7, <1>8, <1>9 DEF StreamInv

(* A block is decoded into an array of the thread's own.                   *)
LEMMA DecodeBlockKeeps ==
  ASSUME StreamInv, NEW t \in Threads, Streams!DecodeBlock(t)
  PROVE  StreamInv'
<1> DEFINE block == Streams!Block(code[t], size[t], address[t], call[t].count)
<1>1. /\ pc[t] = "ready" /\ call[t].what = "block"
      /\ array' = [array EXCEPT ![t] = block]
      /\ pc' = [pc EXCEPT ![t] = IF array'[t] = << >> THEN "idle" ELSE "copying"]
      /\ UNCHANGED <<length, engine, code, size, address, call, from, buffer, result>>
  BY DEF Streams!DecodeBlock, Streams!Goes
<1>2. IsRun(block, from[t])
  <2>1. /\ engine = "detailed" /\ code[t] \in Int /\ address[t] = Base + code[t] /\ from[t] = code[t]
        /\ length \in [Streams!Places -> Lengths \cup {0}]
    BY <1>1 DEF StreamInv, StreamTypes, EngineReady, CopiesOwn
  <2> QED BY <2>1, BlockRuns
<1> HIDE DEF block
<1>3. array'[t] = block /\ \A u \in Threads \ {t} : array'[u] = array[u]
  BY <1>1 DEF StreamInv, StreamTypes
<1>4. \A u \in Threads \ {t} : pc[u] = "idle" /\ pc'[u] = "idle"
  BY <1>1 DEF StreamInv, StreamTypes, EngineReady
<1>5. StreamTypes'
  BY <1>1 DEF StreamInv, StreamTypes
<1>6. EngineReady'
  BY <1>1, <1>4 DEF StreamInv, StreamTypes, EngineReady
<1>7. CopiesOwn(t)'
  <2>1. IsRun(array[t], from[t])' /\ IsRun(result[t], from[t])'
    BY <1>1, <1>2, <1>3 DEF StreamInv, CopiesOwn, IsRun
  <2>2. pc'[t] = IF array'[t] = << >> THEN "idle" ELSE "copying"
    BY <1>1 DEF StreamInv, StreamTypes
  <2> QED BY <1>1, <2>1, <2>2 DEF CopiesOwn
<1>8. ASSUME NEW u \in Threads \ {t}
      PROVE  CopiesOwn(u)'
  BY <1>1, <1>3, <1>4 DEF StreamInv, CopiesOwn, IsRun
<1> QED BY <1>5, <1>6, <1>7, <1>8 DEF StreamInv

(* What is copied becomes the result, or nothing does; the array is freed. *)
LEMMA CopyKeeps ==
  ASSUME StreamInv, NEW t \in Threads, Streams!Copy(t)
  PROVE  StreamInv'
<1>1. /\ pc[t] = "copying"
      /\ pc' = [pc EXCEPT ![t] = "idle"]
      /\ array' = [array EXCEPT ![t] = << >>]
      /\ \E r \in {<< >>, IF call[t].what # "block" THEN buffer.holds ELSE array[t]} :
           result' = [result EXCEPT ![t] = r]
      /\ UNCHANGED <<length, engine, code, size, address, call, from, buffer>>
  BY DEF Streams!Copy, Streams!Goes, Streams!Freed
<1>2. \A u \in Threads \ {t} : pc[u] = "idle" /\ pc'[u] = "idle" /\ array'[u] = array[u] /\ result'[u] = result[u]
  BY <1>1 DEF StreamInv, StreamTypes, EngineReady
<1>3. StreamTypes'
  BY <1>1 DEF StreamInv, StreamTypes
<1>4. EngineReady'
  BY <1>1, <1>2 DEF StreamInv, StreamTypes, EngineReady
<1>5. CopiesOwn(t)'
  <2>1. pc'[t] = "idle" /\ array'[t] = << >>
    BY <1>1 DEF StreamInv, StreamTypes
  <2>2. IsRun(IF call[t].what # "block" THEN buffer.holds ELSE array[t], from[t])
    BY <1>1 DEF StreamInv, CopiesOwn
  <2>3. IsRun(<< >>, from[t])
    BY DEF IsRun
  <2>4. IsRun(result'[t], from[t])
    BY <1>1, <2>2, <2>3 DEF StreamInv, StreamTypes
  <2> QED BY <1>1, <2>1, <2>4 DEF CopiesOwn, IsRun
<1>6. ASSUME NEW u \in Threads \ {t}
      PROVE  CopiesOwn(u)'
  BY <1>1, <1>2 DEF StreamInv, CopiesOwn, IsRun
<1> QED BY <1>3, <1>4, <1>5, <1>6 DEF StreamInv

(* Every call returns, with all details, the instructions from where its   *)
(* stream was when it began, and leaves no array behind, whatever fails    *)
(* (Disassembler and StreamDisassembler), if no two threads decode at      *)
(* once: for code of any length, any number of threads and any count.      *)
THEOREM ReturnsOwnAlways ==
  ASSUME "one_reader" \in ClientRules
  PROVE  Spec => []ReturnsOwn
<1>1. Init => StreamInv
  BY StreamInit
<1>2. StreamInv /\ [Next]_vars => StreamInv'
  <2>1. ASSUME StreamInv, UNCHANGED streamVars
        PROVE  StreamInv'
    BY <2>1 DEF streamVars, StreamInv, StreamTypes, EngineReady, CopiesOwn, IsRun
  <2>2. ASSUME StreamInv, Streams!Next
        PROVE  StreamInv'
    BY <2>2, BeginKeeps, OpenKeeps, DecodeKeeps, DecodeBlockKeeps, CopyKeeps DEF Streams!Next
  <2> QED BY <2>1, <2>2, OneToolAtATime
<1>3. StreamInv => ReturnsOwn
  BY DEF StreamInv, CopiesOwn, IsRun, ReturnsOwn, Streams!ReturnsOwn
<1> QED BY <1>1, <1>2, <1>3, PTL DEF Spec

-----------------------------------------------------------------------------
(* Images: pages and regions are as long as their number says.             *)
LEMMA Division ==
  ASSUME NEW n \in Int, NEW m \in Nat \ {0}
  PROVE  /\ n \div m \in Int
         /\ (n \div m) * m <= n /\ n < (n \div m) * m + m
         /\ n % m = 0 => (n \div m) * m = n
OBVIOUS

LEMMA Monotone ==
  ASSUME NEW a \in Int, NEW b \in Int, NEW m \in Nat \ {0}
  PROVE  a <= b <=> a * m <= b * m
OBVIOUS

LEMMA Distributive ==
  ASSUME NEW a \in Int, NEW b \in Int, NEW m \in Nat \ {0}
  PROVE  (a - b) * m = a * m - b * m /\ (a + 1) * m = a * m + m
OBVIOUS

(* What the loop over the regions of n units, from a first page on, finds  *)
(* at each page.                                                           *)
Counts(f, first, n) ==
  f = [h \in 0 .. PageCount |->
         \/ Headers!RegionSize(first, h) >= n
         \/ h \in committed /\ f[Headers!RegionEnd(h)]]

(* All pages from h on that some of those units are on are committed.      *)
Covered(first, n, h) == \A q \in Int : q >= h /\ (q - first) * PageSize < n => q \in committed

LEMMA RegionEnds ==
  ASSUME committed \subseteq 0 .. PageCount - 1, NEW h \in committed
  PROVE  LET last == Headers!RegionEnd(h)
         IN last \in h + 1 .. PageCount /\ h .. last - 1 \subseteq committed
<1> DEFINE T == {q \in h + 1 .. PageCount : q = PageCount \/ q \notin committed}
           Ends(q) == h .. q - 1 \subseteq committed /\ (q = PageCount \/ q \notin committed)
<1>0. PageCount \in Nat
  BY ToolsAssumption
<1>1. T \subseteq Nat /\ PageCount \in T
  BY <1>0
<1>2. PICK q \in T : \A k \in T : q <= k
  BY <1>1, LeastNatural
<1>3. ASSUME NEW i \in h .. q - 1
      PROVE  i \in committed
  <2>1. CASE i = h
    BY <2>1
  <2>2. CASE i # h
    <3>1. i \in h + 1 .. PageCount /\ i < q
      BY <1>0, <1>2, <2>2
    <3> QED BY <1>0, <1>2, <3>1
  <2> QED BY <2>1, <2>2
<1>4. \E e \in h + 1 .. PageCount : Ends(e)
  BY <1>2, <1>3
<1>5. Headers!RegionEnd(h) = CHOOSE e \in h + 1 .. PageCount : Ends(e)
  BY DEF Headers!RegionEnd
<1> QED BY <1>4, <1>5

(* The loop only ends well if the pages are there.                         *)
LEMMA CountedIsCovered ==
  ASSUME committed \subseteq 0 .. PageCount - 1,
         NEW f, NEW first \in Int, NEW n \in Int, Counts(f, first, n), NEW h \in 0 .. PageCount, f[h]
  PROVE  Covered(first, n, h)
<1> DEFINE T == {k \in Nat : \A e \in 0 .. PageCount : PageCount - e < k /\ f[e] => Covered(first, n, e)}
<1>0. PageCount \in Nat /\ PageSize \in Nat \ {0}
  BY ToolsAssumption
<1>1. 0 \in T
  BY <1>0
<1>2. ASSUME NEW k \in Nat, k \in T
      PROVE  k + 1 \in T
  <2>0. k + 1 \in Nat
    OBVIOUS
  <2> SUFFICES ASSUME NEW e \in 0 .. PageCount, PageCount - e < k + 1, f[e],
                      NEW q \in Int, q >= e, (q - first) * PageSize < n
               PROVE  q \in committed
    BY <2>0 DEF Covered
  <2>1. ~ (Headers!RegionSize(first, e) >= n)
    <3>1. e - first <= q - first /\ e - first \in Int /\ q - first \in Int
      BY <1>0
    <3>2. (e - first) * PageSize <= (q - first) * PageSize
      BY <1>0, <3>1, Monotone
    <3> QED BY <1>0, <3>1, <3>2 DEF Headers!RegionSize
  <2> DEFINE last == Headers!RegionEnd(e)
  <2>2. e \in committed /\ f[last]
    BY <2>1 DEF Counts
  <2>3. last \in e + 1 .. PageCount /\ e .. last - 1 \subseteq committed
    BY <2>2, RegionEnds
  <2> HIDE DEF last
  <2>4. CASE q < last
    BY <2>3, <2>4
  <2>5. CASE ~ (q < last)
    <3>1. last \in 0 .. PageCount /\ PageCount - last < k /\ q >= last
      BY <1>0, <2>3, <2>5
    <3>2. Covered(first, n, last)
      BY <1>2, <2>2, <3>1
    <3> QED BY <3>1, <3>2 DEF Covered
  <2> QED BY <2>4, <2>5
<1> HIDE DEF T
<1>3. Nat \subseteq T
  BY <1>1, <1>2, Induction
<1>4. PageCount + 1 \in T /\ PageCount - h < PageCount + 1
  BY <1>0, <1>3
<1> QED BY <1>4 DEF T

(* What the loop finds is well defined: it looks at later and later pages. *)
LEMMA CountsExists ==
  ASSUME committed \subseteq 0 .. PageCount - 1, NEW first \in Int, NEW n \in Int
  PROVE  \E f : Counts(f, first, n)
<1> DEFINE f == [h \in 0 .. PageCount |-> Covered(first, n, h)]
<1>0. PageCount \in Nat /\ PageSize \in Nat \ {0}
  BY ToolsAssumption
<1>1. ASSUME NEW h \in 0 .. PageCount
      PROVE  Covered(first, n, h) <=>
               \/ Headers!RegionSize(first, h) >= n
               \/ h \in committed /\ f[Headers!RegionEnd(h)]
  <2>1. ASSUME Headers!RegionSize(first, h) >= n
        PROVE  Covered(first, n, h)
    <3> SUFFICES ASSUME NEW q \in Int, q >= h PROVE ~ ((q - first) * PageSize < n)
      BY DEF Covered
    <3>1. h - first <= q - first /\ h - first \in Int /\ q - first \in Int
      BY <1>0
    <3>2. (h - first) * PageSize <= (q - first) * PageSize
      BY <1>0, <3>1, Monotone
    <3> QED BY <1>0, <2>1, <3>1, <3>2 DEF Headers!RegionSize
  <2>2. ASSUME h \in committed
        PROVE  f[Headers!RegionEnd(h)] <=> Covered(first, n, h)
    <3> DEFINE last == Headers!RegionEnd(h)
    <3>1. last \in h + 1 .. PageCount /\ h .. last - 1 \subseteq committed
      BY <2>2, RegionEnds
    <3> HIDE DEF last
    <3>2. f[last] <=> Covered(first, n, last)
      BY <1>0, <3>1
    <3>3. \A q \in Int : q >= h => q >= last \/ q \in committed
      BY <1>0, <3>1
    <3>4. \A q \in Int : q >= last => q >= h
      BY <1>0, <3>1
    <3> QED BY <3>2, <3>3, <3>4 DEF Covered, last
  <2>3. ASSUME Covered(first, n, h), ~ (Headers!RegionSize(first, h) >= n)
        PROVE  h \in committed
    <3>1. h \in Int /\ h >= h /\ (h - first) * PageSize < n
      BY <1>0, <2>3 DEF Headers!RegionSize
    <3> QED BY <2>3, <3>1 DEF Covered
  <2> QED BY <2>1, <2>2, <2>3
<1>2. ASSUME NEW h \in 0 .. PageCount
      PROVE  f[h] = (\/ Headers!RegionSize(first, h) >= n
                     \/ h \in committed /\ f[Headers!RegionEnd(h)])
  BY <1>1 DEF Covered
<1> HIDE DEF f
<1>3. f = [h \in 0 .. PageCount |-> f[h]]
  BY DEF f
<1>4. Counts(f, first, n)
  BY <1>2, <1>3 DEF Counts
<1> QED BY <1>4

(* Of a section that was validated every byte is on a committed page.      *)
LEMMA MappedIsThere ==
  ASSUME committed \subseteq 0 .. PageCount - 1,
         NEW section \in [address : 0 .. PageCount * PageSize, size : Nat],
         section.address % PageSize = 0, Headers!SectionIsMapped(section),
         NEW b \in 0 .. section.size - 1
  PROVE  (section.address + b) \div PageSize \in committed
<1> DEFINE a == section.address
           n == section.size
           first == a \div PageSize
           q == (a + b) \div PageSize
<1>0. PageCount \in Nat /\ PageSize \in Nat \ {0} /\ a \in Int /\ a >= 0 /\ n \in Nat /\ b \in Int
  BY ToolsAssumption
<1>1. first \in Int /\ first * PageSize = a
  BY <1>0, Division
<1>2. q \in Int /\ q * PageSize <= a + b /\ a + b < q * PageSize + PageSize
  <2>1. a + b \in Int
    BY <1>0
  <2>2. \A c \in Int : LET d == c \div PageSize
                      IN d \in Int /\ d * PageSize <= c /\ c < d * PageSize + PageSize
    BY <1>0, Division
  <2> QED BY <2>1, <2>2
<1>3. first \in 0 .. PageCount
  <2>1. 0 * PageSize <= first * PageSize /\ first * PageSize <= PageCount * PageSize
    BY <1>0, <1>1
  <2> HIDE DEF first
  <2> QED BY <1>0, <1>1, <2>1, Monotone
<1>4. \E f : Counts(f, first, n) /\ f[first]
  <2>1. \E f : Counts(f, first, n)
    BY <1>0, <1>1, CountsExists
  <2>2. (CHOOSE f : Counts(f, first, n))[first]
    BY DEF Headers!SectionIsMapped, Counts
  <2> QED BY <2>1, <2>2
<1> HIDE DEF a, n, first, q
<1>5. Covered(first, n, first)
  BY <1>0, <1>1, <1>3, <1>4, CountedIsCovered
<1>6. q >= first
  <2>1. q + 1 \in Int /\ (q + 1) * PageSize > first * PageSize
    BY <1>0, <1>1, <1>2, Distributive DEF a, n
  <2>2. ~ (q + 1 <= first)
    BY <1>0, <1>1, <2>1, Monotone
  <2> QED BY <1>1, <1>2, <2>2
<1>7. (q - first) * PageSize < n
  BY <1>0, <1>1, <1>2, Distributive DEF n
<1> QED BY <1>2, <1>5, <1>6, <1>7 DEF Covered, q, a

-----------------------------------------------------------------------------
(* The same with the pages there are as a parameter: a step that leaves    *)
(* them alone leaves a section mapped.                                     *)
EndIn(pages, p) ==
  CHOOSE q \in p + 1 .. PageCount :
    /\ p .. q - 1 \subseteq pages
    /\ q = PageCount \/ q \notin pages

IsMappedIn(pages, section) ==
  LET first == section.address \div PageSize
      f[h \in 0 .. PageCount] ==
        \/ Headers!RegionSize(first, h) >= section.size
        \/ h \in pages /\ f[EndIn(pages, h)]
  IN f[first]

LEMMA StaysMapped ==
  ASSUME UNCHANGED committed, NEW section
  PROVE  Headers!SectionIsMapped(section)' <=> Headers!SectionIsMapped(section)
<1>1. Headers!SectionIsMapped(section) <=> IsMappedIn(committed, section)
  BY DEF Headers!SectionIsMapped, Headers!RegionEnd, Headers!RegionSize, IsMappedIn, EndIn
<1>2. Headers!SectionIsMapped(section)' <=> IsMappedIn(committed', section)
  BY DEF Headers!SectionIsMapped, Headers!RegionEnd, Headers!RegionSize, IsMappedIn, EndIn
<1> QED BY <1>1, <1>2

(* A view is only ever made of an image whose headers end before their     *)
(* region and whose sections are mapped.                                   *)
Sound(image) ==
  /\ image \in Images
  /\ Headers!ValidateHeaderStructure(image)
  /\ Headers!ValidateMappedSectionStructure(image)
  /\ \A i \in DOMAIN image.sections : image.sections[i].address % PageSize = 0

HeaderInv ==
  /\ committed \subseteq 0 .. PageCount - 1
  /\ view # Headers!Unmapped => Sound(view)
  /\ view # Headers!Unmapped \/ got.headers # {} => Headers!HeadersAreMapped
  /\ got.headers \subseteq 0 .. HeaderRegion - 1
  /\ \A b \in got.data : b \div PageSize \in committed

LEMMA HeaderInit == Init => HeaderInv
BY DEF Init, Headers!Init, HeaderInv, Headers!Unmapped

LEMMA SameImage ==
  ASSUME UNCHANGED committed, NEW image, Sound(image), view' = image
  PROVE  Sound(view)'
<1>1. \A i \in DOMAIN image.sections : Headers!SectionIsMapped(image.sections[i])'
  BY StaysMapped DEF Sound, Headers!ValidateMappedSectionStructure
<1> QED BY <1>1 DEF Sound, Headers!ValidateMappedSectionStructure, Headers!ValidateHeaderStructure,
                    Headers!SectionHeaders, Headers!FitsInRange

(* The headers read to make a view end before their region.                *)
LEMMA HeadersReadFit ==
  ASSUME NEW image \in Images
  PROVE  Headers!HeadersRead(image) \subseteq 0 .. HeaderRegion - 1
<1> SUFFICES ASSUME NEW o \in Headers!HeadersRead(image)
             PROVE  o \in 0 .. HeaderRegion - 1
  OBVIOUS
<1> DEFINE lfanew == image.lfanew
           first == Headers!SectionHeaders(image)
           count == Len(image.sections)
<1>1. FixedSize \in Int /\ NtSize \in Int /\ FixedSize <= NtSize /\ HeaderRegion \in Nat \ {0}
  BY ToolsAssumption
<1>2. lfanew \in Int /\ image.optional \in Int
      /\ image.sections \in Seq([address : 0 .. PageCount * PageSize, size : Nat])
  BY ToolsAssumption
<1>3. first \in Int /\ count \in Nat /\ DOMAIN image.sections = 1 .. count
  BY <1>1, <1>2 DEF Headers!SectionHeaders
<1>4. \/ o = 0
      \/ \E b \in 0 .. FixedSize - 1 : Headers!FitsInRange(lfanew, NtSize) /\ o = lfanew + b
      \/ \E n \in DOMAIN image.sections : Headers!FitsInRange(first, count) /\ o = first + n - 1
  BY DEF Headers!HeadersRead, Headers!ValidateHeaderStructure
<1> HIDE DEF lfanew, first, count
<1>5. CASE o = 0
  BY <1>1, <1>5
<1>6. CASE \E b \in 0 .. FixedSize - 1 : Headers!FitsInRange(lfanew, NtSize) /\ o = lfanew + b
  BY <1>1, <1>2, <1>6 DEF Headers!FitsInRange
<1>7. CASE \E n \in DOMAIN image.sections : Headers!FitsInRange(first, count) /\ o = first + n - 1
  BY <1>1, <1>3, <1>7 DEF Headers!FitsInRange
<1> QED BY <1>4, <1>5, <1>6, <1>7

LEMMA CreateKeeps ==
  ASSUME "page_aligned" \in ClientRules, "mapped_headers" \in ClientRules, HeaderInv,
         NEW image \in Images, Headers!CreateFromMappedImage(image)
  PROVE  HeaderInv'
<1>1. /\ committed' = committed /\ Headers!HeadersAreMapped
      /\ got'.headers = Headers!HeadersRead(image) /\ got'.data = {}
  BY DEF Headers!CreateFromMappedImage
<1>2. view' # Headers!Unmapped => view' = image /\ Sound(image)
  BY DEF Headers!CreateFromMappedImage, Sound
<1>3. view' # Headers!Unmapped => Sound(view)'
  BY <1>1, <1>2, SameImage
<1>4. Headers!HeadersAreMapped'
  BY <1>1 DEF Headers!HeadersAreMapped
<1>5. got'.headers \subseteq 0 .. HeaderRegion - 1
  BY <1>1, HeadersReadFit
<1> QED BY <1>1, <1>3, <1>4, <1>5 DEF HeaderInv, Headers!Unmapped

(* A view stays sound while no page comes or goes.                         *)
LEMMA SameView ==
  ASSUME HeaderInv, UNCHANGED <<committed, view>>,
         got'.headers \subseteq 0 .. HeaderRegion - 1,
         view # Headers!Unmapped \/ got'.headers = {} \/ got' = got,
         \A b \in got'.data : b \div PageSize \in committed
  PROVE  HeaderInv'
<1>1. view' # Headers!Unmapped' => Sound(view)'
  BY SameImage DEF HeaderInv, Headers!Unmapped
<1>2. Headers!HeadersAreMapped' <=> Headers!HeadersAreMapped
  BY DEF Headers!HeadersAreMapped
<1> QED BY <1>1, <1>2 DEF HeaderInv, Headers!Unmapped

LEMMA HeadersKeeps ==
  ASSUME HeaderInv, Headers!Headers
  PROVE  HeaderInv'
<1> DEFINE first == Headers!SectionHeaders(view)
           count == Len(view.sections)
<1>1. /\ UNCHANGED <<committed, view>> /\ view \in Images /\ view # Headers!Unmapped
      /\ got' = [headers |-> view.lfanew .. view.lfanew + NtSize - 1 \cup first .. first + count - 1,
                 data |-> {}]
      /\ Headers!FitsInRange(view.lfanew, NtSize) /\ Headers!FitsInRange(first, count)
  BY DEF Headers!Headers, HeaderInv, Sound, Headers!ValidateHeaderStructure
<1>2. FixedSize \in Int /\ NtSize \in Int /\ HeaderRegion \in Int
  BY ToolsAssumption
<1>3. /\ view.lfanew \in Int /\ view.optional \in Int
      /\ view.sections \in Seq([address : 0 .. PageCount * PageSize, size : Nat])
  BY <1>1, ToolsAssumption
<1>4. first \in Int /\ count \in Nat
  BY <1>2, <1>3 DEF Headers!SectionHeaders
<1> HIDE DEF first, count
<1>5. view.lfanew .. view.lfanew + NtSize - 1 \subseteq 0 .. HeaderRegion - 1
  BY <1>1, <1>2, <1>3 DEF Headers!FitsInRange
<1>6. first .. first + count - 1 \subseteq 0 .. HeaderRegion - 1
  BY <1>1, <1>2, <1>4 DEF Headers!FitsInRange
<1> QED BY <1>1, <1>5, <1>6, SameView

LEMMA SectionDataKeeps ==
  ASSUME "valid_index" \in ClientRules, HeaderInv,
         NEW index \in -1 .. MaxIndex, Headers!SectionData(index)
  PROVE  HeaderInv'
<1>0. index \in Int /\ index >= 0
  BY DEF Headers!SectionData
<1>1. UNCHANGED <<committed, view>> /\ view \in Images /\ Sound(view) /\ got'.headers = {}
  BY DEF Headers!SectionData, HeaderInv, Sound
<1>2. view.sections \in Seq([address : 0 .. PageCount * PageSize, size : Nat])
  BY <1>1, ToolsAssumption
<1>3. CASE Len(view.sections) <= index
  <2>1. got'.data = {}
    BY <1>3 DEF Headers!SectionData
  <2> QED BY <1>1, <2>1, SameView
<1>4. CASE ~ (Len(view.sections) <= index)
  <2> DEFINE section == view.sections[index + 1]
  <2>1. index + 1 \in DOMAIN view.sections
    BY <1>0, <1>2, <1>4
  <2>2. section \in [address : 0 .. PageCount * PageSize, size : Nat]
    <3> DEFINE Kind == [address : 0 .. PageCount * PageSize, size : Nat]
    <3>1. view.sections \in Seq(Kind)
      BY <1>2
    <3> HIDE DEF Kind
    <3>2. view.sections[index + 1] \in Kind
      BY <2>1, <3>1
    <3> QED BY <3>2 DEF Kind
  <2>3. section.address % PageSize = 0 /\ Headers!SectionIsMapped(section)
    BY <1>1, <2>1 DEF Sound, Headers!ValidateMappedSectionStructure
  <2>4. Headers!Section(index) = section
    BY <1>0, <1>2, <1>4 DEF Headers!Section
  <2> HIDE DEF section
  <2>5. section.address >= 0
    <3>1. PageCount * PageSize \in Int
      BY ToolsAssumption
    <3> QED BY <2>2, <3>1
  <2>6. section # Headers!Missing
    BY <2>5 DEF Headers!Missing
  <2>7. got'.data = {section.address + b : b \in 0 .. section.size - 1}
    BY <1>4, <2>4, <2>6 DEF Headers!SectionData
  <2>8. committed \subseteq 0 .. PageCount - 1
    BY DEF HeaderInv
  <2>9. \A b \in got'.data : b \div PageSize \in committed
    BY <2>2, <2>3, <2>7, <2>8, MappedIsThere
  <2> QED BY <1>1, <2>9, SameView
<1> QED BY <1>3, <1>4

(* The headers that are read to make a view, and those its accessors lead  *)
(* to, end before their region, and every byte of them and of every        *)
(* section is on a committed page (ImageView.h, ImageView.cpp), if there   *)
(* is memory at the address, sections begin with a page and the client     *)
(* asks for no negative index: for images of any shape, over any pages in  *)
(* any regions.                                                            *)
THEOREM ReadsAreThereAlways ==
  ASSUME "page_aligned" \in ClientRules, "mapped_headers" \in ClientRules,
         "valid_index" \in ClientRules
  PROVE  Spec => []ReadsAreThere
<1>1. Init => HeaderInv
  BY HeaderInit
<1>2. HeaderInv /\ [Next]_vars => HeaderInv'
  <2>1. ASSUME HeaderInv, UNCHANGED headerVars
        PROVE  HeaderInv'
    BY <2>1, SameView DEF headerVars, HeaderInv
  <2>2. ASSUME HeaderInv, Headers!Next
        PROVE  HeaderInv'
    BY <2>2, CreateKeeps, HeadersKeeps, SectionDataKeeps DEF Headers!Next
  <2> QED BY <2>1, <2>2, OneToolAtATime
<1>3. HeaderInv => ReadsAreThere
  BY DEF HeaderInv, ReadsAreThere, Headers!ReadsAreThere, Headers!HeadersAreMapped
<1> QED BY <1>1, <1>2, <1>3, PTL DEF Spec

-----------------------------------------------------------------------------
(* Scope guards: what is chosen of the guards made is chosen one by one.   *)
Choose(f, made, kinds) ==
  f = [k \in 0 .. Len(made) |->
         IF k = 0 THEN << >>
         ELSE IF made[k] \in kinds THEN <<made[k]>> \o f[k - 1] ELSE f[k - 1]]

Chosen(made, kinds) == CHOOSE f : Choose(f, made, kinds)

OnlyIf(kind, kinds) == IF kind \in kinds THEN <<kind>> ELSE << >>

LEMMA ChosenSteps ==
  ASSUME NEW made \in Seq(Guards!Kinds), NEW kinds
  PROVE  /\ Chosen(made, kinds) \in [0 .. Len(made) -> Seq(Guards!Kinds)]
         /\ Chosen(made, kinds)[0] = << >>
         /\ \A k \in 1 .. Len(made) :
              Chosen(made, kinds)[k] = IF made[k] \in kinds THEN <<made[k]>> \o Chosen(made, kinds)[k - 1]
                                       ELSE Chosen(made, kinds)[k - 1]
<1> DEFINE n == Len(made)
           S == Seq(Guards!Kinds)
           More(s, k) == IF made[k] \in kinds THEN <<made[k]>> \o s ELSE s
           step == [s \in S |-> [k \in 1 .. n |-> More(s, k)]]
<1>0. n \in Nat /\ \A k \in 1 .. n : made[k] \in Guards!Kinds
  BY LenProperties, ElementOfSeq
<1>1. \A s \in S, k \in 1 .. n : More(s, k) \in S
  <2> SUFFICES ASSUME NEW s \in S, NEW k \in 1 .. n PROVE More(s, k) \in S
    OBVIOUS
  <2>1. <<made[k]>> \in S
    BY <1>0
  <2>2. <<made[k]>> \o s \in S
    BY <2>1, ConcatProperties
  <2> QED BY <2>2
<1> HIDE DEF n, More
<1>2. \A s \in S, k \in 1 .. n : step[s][k] = More(s, k)
  OBVIOUS
<1>3. << >> \in S
  BY EmptySeq
<1> HIDE DEF S
<1>4. PICK f : Iterates(f, << >>, step, n, S)
  <2>1. IsStep(step, n, S)
    BY <1>1, <1>2 DEF IsStep
  <2> HIDE DEF step
  <2> QED BY <1>0, <1>3, <2>1, Recursion
<1> HIDE DEF step
<1>5. ASSUME NEW k \in 1 .. n
      PROVE  f[k] = More(f[k - 1], k)
  <2>1. k - 1 \in 0 .. n /\ f[k - 1] \in S
    <3>1. f \in [0 .. n -> S]
      BY <1>4 DEF Iterates
    <3> QED BY <1>0, <3>1
  <2> QED BY <1>2, <1>4, <2>1 DEF Iterates
<1>6. f \in [0 .. n -> S] /\ f[0] = << >>
  BY <1>4 DEF Iterates
<1>7. f = [k \in 0 .. n |-> IF k = 0 THEN << >> ELSE More(f[k - 1], k)]
  <2>1. \A k \in 0 .. n : f[k] = IF k = 0 THEN << >> ELSE More(f[k - 1], k)
    BY <1>0, <1>5, <1>6
  <2> QED BY <1>6, <2>1
<1>8. Choose(f, made, kinds)
  BY <1>7 DEF Choose, More, n
<1>9. Choose(Chosen(made, kinds), made, kinds)
  BY <1>8 DEF Chosen
<1> DEFINE g == Chosen(made, kinds)
<1> HIDE DEF g
<1>10. g = [k \in 0 .. n |-> IF k = 0 THEN << >> ELSE More(g[k - 1], k)]
  BY <1>9 DEF Choose, More, n, g
<1>11. g[0] = << >> /\ \A k \in 1 .. n : g[k] = More(g[k - 1], k)
  BY <1>0, <1>10
<1>12. \A k \in 0 .. n : g[k] = f[k]
  <2> DEFINE T == {k \in Nat : k <= n => g[k] = f[k]}
  <2>1. 0 \in T
    BY <1>6, <1>11
  <2>2. ASSUME NEW k \in Nat, k \in T
        PROVE  k + 1 \in T
    BY <1>0, <1>5, <1>11, <2>2
  <2> HIDE DEF T
  <2>3. Nat \subseteq T
    BY <2>1, <2>2, Induction
  <2> QED BY <1>0, <2>3 DEF T
<1>13. g \in [0 .. n -> S]
  BY <1>6, <1>10, <1>12
<1> QED BY <1>11, <1>13 DEF g, n, S, More

LEMMA LastFirstIs ==
  ASSUME NEW made \in Seq(Guards!Kinds), NEW kinds
  PROVE  Guards!LastFirst(made, kinds) = Chosen(made, kinds)[Len(made)]
BY DEF Guards!LastFirst, Chosen, Choose

(* Which of the last guard are to run comes first, then those of the rest. *)
LEMMA LastFirstStep ==
  ASSUME NEW rest \in Seq(Guards!Kinds), NEW kind \in Guards!Kinds, NEW kinds
  PROVE  /\ Guards!LastFirst(rest, kinds) \in Seq(Guards!Kinds)
         /\ Guards!LastFirst(<< >>, kinds) = << >>
         /\ Guards!LastFirst(Append(rest, kind), kinds) =
              IF kind \in kinds THEN <<kind>> \o Guards!LastFirst(rest, kinds)
              ELSE Guards!LastFirst(rest, kinds)
<1> DEFINE n == Len(rest)
           all == Append(rest, kind)
           f == Chosen(rest, kinds)
           g == Chosen(all, kinds)
<1>0. n \in Nat /\ all \in Seq(Guards!Kinds) /\ Len(all) = n + 1
      /\ all[n + 1] = kind /\ \A k \in 1 .. n : all[k] = rest[k]
  BY AppendProperties, LenProperties
<1> HIDE DEF all
<1>1. /\ f \in [0 .. n -> Seq(Guards!Kinds)] /\ f[0] = << >>
      /\ \A k \in 1 .. n : f[k] = IF rest[k] \in kinds THEN <<rest[k]>> \o f[k - 1] ELSE f[k - 1]
  BY ChosenSteps
<1>2. /\ g[0] = << >>
      /\ \A k \in 1 .. n + 1 : g[k] = IF all[k] \in kinds THEN <<all[k]>> \o g[k - 1] ELSE g[k - 1]
  <2>1. /\ g[0] = << >>
        /\ \A k \in 1 .. Len(all) : g[k] = IF all[k] \in kinds THEN <<all[k]>> \o g[k - 1] ELSE g[k - 1]
    BY <1>0, ChosenSteps
  <2> QED BY <1>0, <2>1
<1>3. Guards!LastFirst(rest, kinds) = f[n] /\ Guards!LastFirst(all, kinds) = g[n + 1]
  BY <1>0, LastFirstIs
<1>4. Guards!LastFirst(<< >>, kinds) = << >>
  <2>1. << >> \in Seq(Guards!Kinds) /\ Len(<< >>) = 0
    BY EmptySeq
  <2>2. Guards!LastFirst(<< >>, kinds) = Chosen(<< >>, kinds)[0]
    BY <2>1, LastFirstIs
  <2> QED BY <2>1, <2>2, ChosenSteps
<1> HIDE DEF n, f, g
<1> DEFINE T == {k \in Nat : k <= n => g[k] = f[k]}
<1>5. 0 \in T
  BY <1>1, <1>2
<1>6. ASSUME NEW k \in Nat, k \in T
      PROVE  k + 1 \in T
  <2> SUFFICES ASSUME k + 1 <= n PROVE g[k + 1] = f[k + 1]
    OBVIOUS
  <2>1. k + 1 \in 1 .. n /\ k + 1 \in 1 .. n + 1 /\ (k + 1) - 1 = k
    BY <1>0
  <2>2. g[k] = f[k] /\ all[k + 1] = rest[k + 1]
    BY <1>0, <1>6, <2>1
  <2> HIDE DEF T
  <2> QED BY <1>1, <1>2, <2>1, <2>2
<1> HIDE DEF T
<1>7. n \in T
  BY <1>0, <1>5, <1>6, Induction
<1>8. g[n] = f[n]
  BY <1>0, <1>7 DEF T
<1>9. n + 1 \in 1 .. n + 1 /\ (n + 1) - 1 = n /\ n \in 0 .. n
  BY <1>0
<1>10. g[n + 1] = IF kind \in kinds THEN <<kind>> \o f[n] ELSE f[n]
  BY <1>0, <1>2, <1>8, <1>9
<1> QED BY <1>1, <1>3, <1>4, <1>9, <1>10 DEF all

(* Of a scope that is left, what was run and what is left to run is what   *)
(* is due; before that, nothing was run.                                   *)
ScopeRecords ==
  [made : Seq(Guards!Kinds), live : Seq(Guards!Kinds), ran : Seq(Guards!Kinds),
   leaves : {"no", "normally", "thrown"},
   catches : BOOLEAN, callable : BOOLEAN, unwinding : BOOLEAN]

BookKept(s) ==
  IF s.leaves = "no" THEN s.live = s.made /\ s.ran = << >>
  ELSE s.ran \o Guards!LastFirst(s.live, Guards!Due(s)) = Guards!LastFirst(s.made, Guards!Due(s))

(* An exception thrown in scope i of a list will not leave a destructor.   *)
Stops(list, i) ==
  \E j \in 1 .. i : /\ list[j].catches
                    /\ \A k \in j + 1 .. i : ~list[k].catches /\ ~list[k].callable

(* Up to scope i f[i] exceptions are in flight; a scope knows whether any  *)
(* was when it was entered.                                                *)
Thrown(s) == IF s.leaves = "thrown" THEN 1 ELSE 0

Counting(f, list) ==
  /\ f \in [0 .. Len(list) -> Nat]
  /\ f[0] = 0
  /\ \A i \in 1 .. Len(list) :
       f[i] = f[i - 1] + Thrown(list[i]) /\ (list[i].unwinding <=> f[i - 1] > 0)

Orderly(list) ==
  /\ list \in Seq(ScopeRecords)
  /\ \A i \in 1 .. Len(list) : BookKept(list[i])
  /\ \A i \in 1 .. Len(list) : i > 1 => (list[i].callable <=> list[i - 1].leaves # "no")
  /\ list # << >> => list[1].catches
  /\ \A i \in 1 .. Len(list) : list[i].leaves = "thrown" => Stops(list, i)

Flies(list, n) == \E f : Counting(f, list) /\ f[Len(list)] = n

GuardInv ==
  /\ ~terminated
  /\ flying \in Nat
  /\ Orderly(scopes)
  /\ Flies(scopes, flying)

(* The innermost scope changes in what was run or in how it is left, no    *)
(* other one does.                                                         *)
AgreesBelow(list, other) ==
  /\ other \in Seq(ScopeRecords) /\ Len(other) = Len(list)
  /\ \A i \in 1 .. Len(list) : i < Len(list) => other[i] = list[i]

SameKind(s, t) == s.catches = t.catches /\ s.callable = t.callable /\ s.unwinding = t.unwinding

LEMMA InnerChanges ==
  ASSUME NEW list, Orderly(list), NEW n \in Nat, Flies(list, n), list # << >>,
         NEW other, AgreesBelow(list, other), NEW m \in Int,
         SameKind(list[Len(list)], other[Len(list)]), BookKept(other[Len(list)]),
         other[Len(list)].leaves = "thrown" => Stops(list, Len(list)),
         m = n - Thrown(list[Len(list)]) + Thrown(other[Len(list)])
  PROVE  Orderly(other) /\ m \in Nat /\ Flies(other, m)
<1> DEFINE top == Len(list)
<1>1. /\ list \in Seq(ScopeRecords) /\ top \in Nat \ {0} /\ Len(other) = top /\ other \in Seq(ScopeRecords)
      /\ \A i \in 1 .. top : i < top => other[i] = list[i]
  <2>1. list \in Seq(ScopeRecords)
    BY DEF Orderly
  <2> QED BY <2>1, EmptySeq, LenProperties DEF AgreesBelow
<1> HIDE DEF top
<1>2. \A i \in 1 .. top : other[i].catches = list[i].catches /\ other[i].callable = list[i].callable
                          /\ other[i].unwinding = list[i].unwinding
  BY <1>1 DEF SameKind, top
<1>3. \A i \in 1 .. top : Stops(list, i) => Stops(other, i)
  BY <1>1, <1>2 DEF Stops
<1>4. Orderly(other)
  <2>1. \A i \in 1 .. top : BookKept(other[i])
    BY <1>1 DEF Orderly, top
  <2>2. \A i \in 1 .. top : i > 1 => (other[i].callable <=> other[i - 1].leaves # "no")
    <3> SUFFICES ASSUME NEW i \in 1 .. top, i > 1
                 PROVE  other[i].callable <=> other[i - 1].leaves # "no"
      OBVIOUS
    <3>1. i - 1 \in 1 .. top /\ i - 1 < top
      BY <1>1
    <3> QED BY <1>1, <1>2, <3>1 DEF Orderly, top
  <2>3. 1 \in 1 .. top /\ other[1].catches
    <3>1. 1 \in 1 .. top
      BY <1>1
    <3> QED BY <1>2, <3>1 DEF Orderly
  <2>4. \A i \in 1 .. top : other[i].leaves = "thrown" => Stops(other, i)
    BY <1>1, <1>3 DEF Orderly, top
  <2> QED BY <1>1, <2>1, <2>2, <2>3, <2>4 DEF Orderly
<1>5. PICK f : Counting(f, list) /\ f[top] = n
  BY DEF Flies, top
<1>6. /\ f \in [0 .. top -> Nat] /\ f[0] = 0
      /\ \A i \in 1 .. top : f[i] = f[i - 1] + Thrown(list[i]) /\ (list[i].unwinding <=> f[i - 1] > 0)
  BY <1>5 DEF Counting, top
<1>7. top \in 1 .. top /\ top - 1 \in 0 .. top /\ top \in 0 .. top
  BY <1>1
<1>8. m = f[top - 1] + Thrown(other[top]) /\ m \in Nat
  <2>1. f[top - 1] \in Nat /\ n = f[top - 1] + Thrown(list[top])
    BY <1>5, <1>6, <1>7
  <2>2. Thrown(list[top]) \in Nat /\ Thrown(other[top]) \in Nat
    BY DEF Thrown
  <2> QED BY <2>1, <2>2 DEF top
<1> DEFINE g == [i \in 0 .. top |-> IF i = top THEN m ELSE f[i]]
<1>9. Counting(g, other) /\ g[Len(other)] = m
  <2>1. g \in [0 .. top -> Nat] /\ g[0] = 0 /\ g[top] = m
    BY <1>1, <1>6, <1>8
  <2>2. \A i \in 0 .. top : i < top => g[i] = f[i]
    OBVIOUS
  <2> HIDE DEF g
  <2>3. ASSUME NEW i \in 1 .. top
        PROVE  g[i] = g[i - 1] + Thrown(other[i]) /\ (other[i].unwinding <=> g[i - 1] > 0)
    <3>1. i - 1 \in 0 .. top /\ i - 1 < top /\ g[i - 1] = f[i - 1]
      BY <1>1, <2>2
    <3>2. other[i].unwinding <=> g[i - 1] > 0
      BY <1>2, <1>6, <3>1
    <3>3. CASE i = top
      BY <1>8, <2>1, <3>1, <3>2, <3>3
    <3>4. CASE i # top
      <4>1. i < top /\ i \in 0 .. top /\ other[i] = list[i]
        BY <1>1, <3>4
      <4> QED BY <1>6, <2>2, <3>1, <3>2, <4>1
    <3> QED BY <3>3, <3>4
  <2> QED BY <1>1, <2>1, <2>3 DEF Counting
<1> HIDE DEF g
<1> QED BY <1>4, <1>8, <1>9 DEF Flies

(* A scope is entered, by the program or as the body of a callable.        *)
LEMMA ScopeAdded ==
  ASSUME NEW list, Orderly(list), NEW n \in Nat, Flies(list, n), list # << >>,
         NEW s \in ScopeRecords, s.leaves = "no", s.live = << >>, s.made = << >>, s.ran = << >>,
         s.unwinding <=> n > 0,
         s.callable <=> list[Len(list)].leaves # "no"
  PROVE  Orderly(Append(list, s)) /\ Flies(Append(list, s), n)
<1> DEFINE top == Len(list)
           other == Append(list, s)
<1>1. /\ list \in Seq(ScopeRecords) /\ top \in Nat \ {0} /\ Len(other) = top + 1 /\ other \in Seq(ScopeRecords)
      /\ other # << >> /\ other[top + 1] = s /\ \A i \in 1 .. top : other[i] = list[i]
  <2>1. list \in Seq(ScopeRecords)
    BY DEF Orderly
  <2> QED BY <2>1, EmptySeq, LenProperties, AppendProperties
<1> HIDE DEF top, other
<1>2. \A i \in 1 .. top + 1 : i \in 1 .. top \/ i = top + 1
  BY <1>1
<1>3. Orderly(other)
  <2>1. \A i \in 1 .. top + 1 : BookKept(other[i])
    <3>1. BookKept(s)
      BY DEF BookKept
    <3> QED BY <1>1, <1>2, <3>1 DEF Orderly, top
  <2>2. \A i \in 1 .. top + 1 : i > 1 => (other[i].callable <=> other[i - 1].leaves # "no")
    <3> SUFFICES ASSUME NEW i \in 1 .. top + 1, i > 1
                 PROVE  other[i].callable <=> other[i - 1].leaves # "no"
      OBVIOUS
    <3>1. i - 1 \in 1 .. top
      BY <1>1
    <3>2. CASE i = top + 1
      BY <1>1, <3>1, <3>2 DEF top
    <3>3. CASE i # top + 1
      BY <1>1, <1>2, <3>1, <3>3 DEF Orderly, top
    <3> QED BY <3>2, <3>3
  <2>3. other[1].catches
    <3>1. 1 \in 1 .. top
      BY <1>1
    <3> QED BY <1>1, <3>1 DEF Orderly
  <2>4. \A i \in 1 .. top : Stops(list, i) => Stops(other, i)
    BY <1>1 DEF Stops
  <2>5. \A i \in 1 .. top + 1 : other[i].leaves = "thrown" => Stops(other, i)
    BY <1>1, <1>2, <2>4 DEF Orderly, top
  <2> QED BY <1>1, <2>1, <2>2, <2>3, <2>5 DEF Orderly
<1>4. PICK f : Counting(f, list) /\ f[top] = n
  BY DEF Flies, top
<1>5. /\ f \in [0 .. top -> Nat] /\ f[0] = 0
      /\ \A i \in 1 .. top : f[i] = f[i - 1] + Thrown(list[i]) /\ (list[i].unwinding <=> f[i - 1] > 0)
  BY <1>4 DEF Counting, top
<1> DEFINE g == [i \in 0 .. top + 1 |-> IF i = top + 1 THEN n ELSE f[i]]
<1>6. Counting(g, other) /\ g[Len(other)] = n
  <2>1. g \in [0 .. top + 1 -> Nat] /\ g[0] = 0 /\ g[top + 1] = n
    BY <1>1, <1>5
  <2>2. \A i \in 0 .. top : g[i] = f[i]
    BY <1>1
  <2> HIDE DEF g
  <2>3. ASSUME NEW i \in 1 .. top + 1
        PROVE  g[i] = g[i - 1] + Thrown(other[i]) /\ (other[i].unwinding <=> g[i - 1] > 0)
    <3>1. i - 1 \in 0 .. top /\ g[i - 1] = f[i - 1]
      BY <1>1, <2>2
    <3>2. CASE i = top + 1
      <4>1. g[i - 1] = n /\ Thrown(other[i]) = 0
        BY <1>1, <1>4, <3>1, <3>2 DEF Thrown
      <4> QED BY <1>1, <2>1, <3>2, <4>1
    <3>3. CASE i # top + 1
      <4>1. i \in 1 .. top /\ i \in 0 .. top /\ g[i] = f[i] /\ other[i] = list[i]
        BY <1>1, <1>2, <2>2, <3>3
      <4> QED BY <1>5, <3>1, <4>1
    <3> QED BY <3>2, <3>3
  <2> QED BY <1>1, <2>1, <2>3 DEF Counting
<1> HIDE DEF g
<1> QED BY <1>3, <1>6 DEF Flies, other

(* A scope is gone, with the exception that was in flight in it.           *)
LEMMA ScopeGone ==
  ASSUME NEW list, Orderly(list), NEW n \in Nat, Flies(list, n), list # << >>
  PROVE  /\ Orderly(Guards!Front(list))
         /\ n - Thrown(list[Len(list)]) \in Nat
         /\ Flies(Guards!Front(list), n - Thrown(list[Len(list)]))
<1> DEFINE top == Len(list)
           other == Guards!Front(list)
<1>1. list \in Seq(ScopeRecords) /\ top \in Nat \ {0}
  <2>1. list \in Seq(ScopeRecords)
    BY DEF Orderly
  <2> QED BY <2>1, EmptySeq, LenProperties
<1>2. /\ other \in Seq(ScopeRecords) /\ Len(other) = top - 1
      /\ \A i \in 1 .. top - 1 : other[i] = list[i]
  <2>1. top - 1 \in Nat /\ \A i \in 1 .. top - 1 : list[i] \in ScopeRecords /\ 1 + i - 1 = i
    BY <1>1
  <2>2. other = SubSeq(list, 1, top - 1)
    BY DEF Guards!Front
  <2> HIDE DEF top, other
  <2>3. /\ other \in Seq(ScopeRecords) /\ Len(other) = IF 1 <= top - 1 THEN (top - 1) - 1 + 1 ELSE 0
        /\ \A i \in 1 .. (top - 1) - 1 + 1 : other[i] = list[1 + i - 1]
    BY <2>1, <2>2, SubSeqProperties
  <2>4. (top - 1) - 1 + 1 = top - 1 /\ Len(other) = top - 1
    BY <2>1, <2>3
  <2> QED BY <2>1, <2>3, <2>4
<1> HIDE DEF top, other
<1>3. Orderly(other)
  <2>1. \A i \in 1 .. top - 1 : i \in 1 .. top /\ (i > 1 => i - 1 \in 1 .. top - 1)
    BY <1>1
  <2>2. \A i \in 1 .. top - 1 : BookKept(other[i])
    BY <1>2, <2>1 DEF Orderly, top
  <2>3. \A i \in 1 .. top - 1 : i > 1 => (other[i].callable <=> other[i - 1].leaves # "no")
    BY <1>2, <2>1 DEF Orderly, top
  <2>4. other # << >> => other[1].catches
    <3>1. other # << >> => 1 \in 1 .. top - 1
      BY <1>1, <1>2, EmptySeq
    <3> QED BY <1>2, <3>1 DEF Orderly
  <2>5. ASSUME NEW i \in 1 .. top - 1, Stops(list, i)
        PROVE  Stops(other, i)
    <3>1. PICK j \in 1 .. i : /\ list[j].catches
                             /\ \A k \in j + 1 .. i : ~list[k].catches /\ ~list[k].callable
      BY <2>5 DEF Stops
    <3>2. \A k \in 1 .. i : other[k] = list[k]
      BY <1>1, <1>2
    <3>3. \A k \in j + 1 .. i : k \in 1 .. i
      BY <1>1
    <3> QED BY <3>1, <3>2, <3>3 DEF Stops
  <2>6. \A i \in 1 .. top - 1 : other[i].leaves = "thrown" => Stops(other, i)
    BY <1>2, <2>1, <2>5 DEF Orderly, top
  <2> QED BY <1>2, <2>2, <2>3, <2>4, <2>6 DEF Orderly
<1>4. PICK f : Counting(f, list) /\ f[top] = n
  BY DEF Flies, top
<1>5. /\ f \in [0 .. top -> Nat] /\ f[0] = 0
      /\ \A i \in 1 .. top : f[i] = f[i - 1] + Thrown(list[i]) /\ (list[i].unwinding <=> f[i - 1] > 0)
  BY <1>4 DEF Counting, top
<1>6. f[top - 1] \in Nat /\ n - Thrown(list[top]) = f[top - 1]
  <2>1. top - 1 \in 0 .. top /\ top \in 1 .. top
    BY <1>1
  <2>2. Thrown(list[top]) \in Nat
    BY DEF Thrown
  <2> QED BY <1>4, <1>5, <2>1, <2>2
<1> DEFINE g == [i \in 0 .. top - 1 |-> f[i]]
<1>7. Counting(g, other) /\ g[Len(other)] = f[top - 1]
  <2>1. g \in [0 .. top - 1 -> Nat] /\ g[0] = 0 /\ g[top - 1] = f[top - 1]
    BY <1>1, <1>5
  <2>2. \A i \in 0 .. top - 1 : g[i] = f[i]
    OBVIOUS
  <2> HIDE DEF g
  <2>3. ASSUME NEW i \in 1 .. top - 1
        PROVE  g[i] = g[i - 1] + Thrown(other[i]) /\ (other[i].unwinding <=> g[i - 1] > 0)
    <3>1. i - 1 \in 0 .. top - 1 /\ i \in 0 .. top - 1 /\ i \in 1 .. top
      BY <1>1
    <3> QED BY <1>2, <1>5, <2>2, <3>1
  <2> QED BY <1>2, <2>1, <2>3 DEF Counting
<1> HIDE DEF g
<1> QED BY <1>3, <1>6, <1>7 DEF Flies, other, top

LEMMA GuardInit == Init => GuardInv
<1> SUFFICES ASSUME Init PROVE GuardInv
  OBVIOUS
<1> DEFINE s == Guards!Scope(TRUE, FALSE, FALSE)
           f == [i \in 0 .. 1 |-> 0]
<1>1. scopes = <<s>> /\ flying = 0 /\ terminated = FALSE
  BY DEF Init, Guards!Init
<1>2. /\ s \in ScopeRecords /\ s.leaves = "no" /\ s.live = << >> /\ s.made = << >> /\ s.ran = << >>
      /\ s.catches = TRUE /\ s.unwinding = FALSE
  BY EmptySeq DEF Guards!Scope, ScopeRecords
<1> HIDE DEF s
<1>3. scopes \in Seq(ScopeRecords) /\ Len(scopes) = 1 /\ scopes[1] = s /\ 1 .. Len(scopes) = {1}
  BY <1>1, <1>2
<1>4. Orderly(scopes)
  <2>1. BookKept(s)
    BY <1>2 DEF BookKept
  <2>2. \A i \in 1 .. Len(scopes) : i = 1 /\ scopes[i] = s
    BY <1>3
  <2>3. s.leaves # "thrown" /\ scopes[1].catches
    BY <1>2, <1>3
  <2> QED BY <1>3, <2>1, <2>2, <2>3 DEF Orderly
<1>5. Counting(f, scopes) /\ f[Len(scopes)] = 0
  BY <1>2, <1>3 DEF Counting, Thrown
<1> QED BY <1>1, <1>4, <1>5 DEF GuardInv, Flies

(* What is thrown where the next handler is not behind a callable stops    *)
(* there.                                                                  *)
LEMMA StopperStops ==
  ASSUME Orderly(scopes), scopes # << >>, scopes[Guards!Stopper].catches
  PROVE  Stops(scopes, Len(scopes))
<1> DEFINE top == Len(scopes)
           Decides(i) == /\ scopes[i].catches \/ scopes[i].callable
                         /\ \A j \in i + 1 .. top : ~scopes[j].catches /\ ~scopes[j].callable
           T == {k \in Nat : \E i \in 1 .. top : k = top - i /\ (scopes[i].catches \/ scopes[i].callable)}
<1>1. scopes \in Seq(ScopeRecords) /\ top \in Nat \ {0} /\ DOMAIN scopes = 1 .. top /\ scopes[1].catches
  <2>1. scopes \in Seq(ScopeRecords)
    BY DEF Orderly
  <2> QED BY <2>1, EmptySeq, LenProperties DEF Orderly
<1> HIDE DEF top
<1>2. T \subseteq Nat /\ top - 1 \in T
  BY <1>1
<1>3. PICK m \in T : \A k \in T : m <= k
  BY <1>2, LeastNatural
<1>4. PICK i \in 1 .. top : m = top - i /\ (scopes[i].catches \/ scopes[i].callable)
  BY <1>3
<1>5. ASSUME NEW j \in i + 1 .. top
      PROVE  ~scopes[j].catches /\ ~scopes[j].callable
  <2>1. j \in 1 .. top /\ top - j \in Nat /\ top - j < m
    BY <1>1, <1>4
  <2>2. top - j \notin T
    BY <1>3, <2>1
  <2> QED BY <2>1, <2>2
<1>6. \E e \in DOMAIN scopes : Decides(e)
  BY <1>1, <1>4, <1>5
<1>7. Guards!Stopper = CHOOSE e \in DOMAIN scopes : Decides(e)
  BY DEF Guards!Stopper, top
<1>8. Guards!Stopper \in 1 .. top /\ Decides(Guards!Stopper)
  BY <1>1, <1>6, <1>7
<1> QED BY <1>8 DEF Stops, top

(* The innermost scope.                                                    *)
LEMMA InnerIs ==
  ASSUME GuardInv, scopes # << >>
  PROVE  /\ scopes \in Seq(ScopeRecords) /\ Len(scopes) \in Nat \ {0} /\ DOMAIN scopes = 1 .. Len(scopes)
         /\ Guards!Inner = scopes[Len(scopes)] /\ Guards!Inner \in ScopeRecords /\ BookKept(Guards!Inner)
<1>1. scopes \in Seq(ScopeRecords)
  BY DEF GuardInv, Orderly
<1>2. Len(scopes) \in Nat \ {0} /\ DOMAIN scopes = 1 .. Len(scopes) /\ Len(scopes) \in 1 .. Len(scopes)
  BY <1>1, EmptySeq, LenProperties
<1>3. Guards!Inner = scopes[Len(scopes)]
  BY DEF Guards!Inner, Guards!Last
<1> QED BY <1>1, <1>2, <1>3 DEF GuardInv, Orderly

LEMMA EnterKeeps ==
  ASSUME GuardInv, NEW c \in BOOLEAN, Guards!Enter(c)
  PROVE  GuardInv'
<1> DEFINE s == Guards!Scope(c, FALSE, flying > 0)
<1>1. scopes # << >> /\ Guards!Inner.leaves = "no" /\ scopes' = Append(scopes, s) /\ UNCHANGED <<flying, terminated>>
  BY DEF Guards!Enter, Guards!InScope
<1>2. /\ s \in ScopeRecords /\ s.leaves = "no" /\ s.live = << >> /\ s.made = << >> /\ s.ran = << >>
      /\ s.callable = FALSE /\ (s.unwinding <=> flying > 0)
  <2>1. (flying > 0) \in BOOLEAN /\ << >> \in Seq(Guards!Kinds)
    BY EmptySeq
  <2> QED BY <2>1 DEF Guards!Scope, ScopeRecords
<1> HIDE DEF s
<1>3. s.callable <=> scopes[Len(scopes)].leaves # "no"
  BY <1>1, <1>2, InnerIs
<1>4. Orderly(Append(scopes, s)) /\ Flies(Append(scopes, s), flying)
  BY <1>1, <1>2, <1>3, ScopeAdded DEF GuardInv
<1> QED BY <1>1, <1>4 DEF GuardInv

(* A step that only changes the innermost scope.                           *)
LEMMA ChangeKeeps ==
  ASSUME GuardInv, scopes # << >>, NEW s \in ScopeRecords,
         SameKind(Guards!Inner, s), BookKept(s),
         s.leaves = "thrown" => Stops(scopes, Len(scopes)),
         scopes' = [scopes EXCEPT ![Len(scopes)] = s],
         flying' = flying - Thrown(Guards!Inner) + Thrown(s), UNCHANGED terminated
  PROVE  GuardInv'
<1> DEFINE other == [scopes EXCEPT ![Len(scopes)] = s]
<1>1. AgreesBelow(scopes, other) /\ other[Len(scopes)] = s
  <2>1. Len(scopes) \in 1 .. Len(scopes) /\ scopes \in Seq(ScopeRecords)
    BY InnerIs
  <2>2. other \in Seq(ScopeRecords) /\ Len(other) = Len(scopes) /\ other[Len(scopes)] = s
        /\ \A i \in 1 .. Len(scopes) : i < Len(scopes) => other[i] = scopes[i]
    BY <2>1, ExceptSeq
  <2> QED BY <2>1, <2>2 DEF AgreesBelow
<1>2. flying \in Nat /\ Thrown(Guards!Inner) \in Int /\ Thrown(s) \in Int
  BY DEF GuardInv, Thrown
<1>3. flying' \in Int
  BY <1>2
<1> HIDE DEF other
<1>4. Orderly(other) /\ flying' \in Nat /\ Flies(other, flying')
  BY <1>1, <1>3, InnerIs, InnerChanges DEF GuardInv
<1> QED BY <1>4 DEF GuardInv, other

LEMMA MakeGuardKeeps ==
  ASSUME GuardInv, NEW kind \in Guards!Kinds, Guards!MakeGuard(kind)
  PROVE  GuardInv'
<1> DEFINE old == Guards!Inner
           s == [old EXCEPT !.made = Append(@, kind), !.live = Append(@, kind)]
<1>1. /\ scopes # << >> /\ old.leaves = "no" /\ UNCHANGED <<flying, terminated>>
  BY DEF Guards!MakeGuard, Guards!InScope
<1>2. old \in ScopeRecords /\ BookKept(old)
  BY <1>1, InnerIs
<1>3. scopes' = [scopes EXCEPT ![Len(scopes)] = s]
  BY <1>1, InnerIs DEF Guards!MakeGuard
<1> HIDE DEF old
<1>4. /\ s \in ScopeRecords /\ SameKind(old, s) /\ s.leaves = "no" /\ s.live = s.made /\ s.ran = << >>
  <2>1. old.live = old.made /\ old.ran = << >> /\ Append(old.made, kind) \in Seq(Guards!Kinds)
    <3>1. old.made \in Seq(Guards!Kinds)
      BY <1>2 DEF ScopeRecords
    <3> QED BY <1>1, <1>2, <3>1, AppendProperties DEF BookKept
  <2> QED BY <1>1, <1>2, <2>1 DEF ScopeRecords, SameKind
<1>5. flying = flying - Thrown(old) + Thrown(s)
  BY <1>1, <1>4 DEF Thrown, GuardInv
<1> QED BY <1>1, <1>3, <1>4, <1>5, ChangeKeeps DEF BookKept, old

(* A scope begins to be left: nothing was run yet, all is due.             *)
LEMMA BeginsToLeave ==
  ASSUME NEW s \in ScopeRecords, BookKept(s), s.leaves = "no",
         NEW way \in {"normally", "thrown"}
  PROVE  LET left == [s EXCEPT !.leaves = way]
         IN left \in ScopeRecords /\ BookKept(left) /\ SameKind(s, left) /\ left.leaves = way
<1> DEFINE left == [s EXCEPT !.leaves = way]
<1>1. left \in ScopeRecords /\ SameKind(s, left) /\ left.leaves = way
      /\ left.live = left.made /\ left.ran = << >> /\ left.made \in Seq(Guards!Kinds)
  BY DEF ScopeRecords, SameKind, BookKept
<1> HIDE DEF left
<1>2. Guards!LastFirst(left.made, Guards!Due(left)) \in Seq(Guards!Kinds)
  BY <1>1, LastFirstStep DEF Guards!Kinds
<1>3. BookKept(left)
  BY <1>1, <1>2, ConcatEmptySeq DEF BookKept
<1> QED BY <1>1, <1>3 DEF left

LEMMA ReturnKeeps ==
  ASSUME GuardInv, Guards!Return
  PROVE  GuardInv'
<1> DEFINE old == Guards!Inner
           s == [old EXCEPT !.leaves = "normally"]
<1>1. scopes # << >> /\ old.leaves = "no" /\ UNCHANGED <<flying, terminated>>
  BY DEF Guards!Return, Guards!InScope
<1>2. old \in ScopeRecords /\ BookKept(old)
  BY <1>1, InnerIs
<1>3. scopes' = [scopes EXCEPT ![Len(scopes)] = s]
  BY <1>1, InnerIs DEF Guards!Return
<1> HIDE DEF old
<1>4. s \in ScopeRecords /\ BookKept(s) /\ SameKind(old, s) /\ s.leaves = "normally"
  BY <1>1, <1>2, BeginsToLeave
<1>5. flying = flying - Thrown(old) + Thrown(s)
  BY <1>1, <1>4 DEF Thrown, GuardInv
<1> HIDE DEF s
<1> QED BY <1>1, <1>3, <1>4, <1>5, ChangeKeeps DEF old

LEMMA ThrowKeeps ==
  ASSUME "quiet_callables" \in ClientRules, GuardInv, Guards!Throw
  PROVE  GuardInv'
<1> DEFINE old == Guards!Inner
           s == [old EXCEPT !.leaves = "thrown"]
<1>1. scopes # << >> /\ old.leaves = "no" /\ flying' = flying + 1 /\ UNCHANGED terminated
  BY DEF Guards!Throw, Guards!InScope
<1>2. old \in ScopeRecords /\ BookKept(old)
  BY <1>1, InnerIs
<1>3. scopes' = [scopes EXCEPT ![Len(scopes)] = s]
  BY <1>1, InnerIs DEF Guards!Throw
<1>4. Stops(scopes, Len(scopes))
  BY <1>1, StopperStops DEF Guards!Throw, GuardInv
<1> HIDE DEF old
<1>5. s \in ScopeRecords /\ BookKept(s) /\ SameKind(old, s) /\ s.leaves = "thrown"
  BY <1>1, <1>2, BeginsToLeave
<1>6. flying' = flying - Thrown(old) + Thrown(s)
  BY <1>1, <1>5 DEF Thrown, GuardInv
<1> HIDE DEF s
<1> QED BY <1>1, <1>3, <1>4, <1>5, <1>6, ChangeKeeps DEF old

LEMMA FrontAndLast ==
  ASSUME NEW S, NEW s \in Seq(S), s # << >>
  PROVE  Guards!Front(s) \in Seq(S) /\ Guards!Last(s) \in S /\ s = Append(Guards!Front(s), Guards!Last(s))
<1>1. PICK rest \in Seq(S), e \in S : s = Append(rest, e)
  BY SequenceEmptyOrAppend
<1>2. Len(rest) \in Nat /\ Len(s) = Len(rest) + 1 /\ s[Len(s)] = e /\ \A i \in 1 .. Len(rest) : s[i] = rest[i]
  BY <1>1, LenProperties, AppendProperties
<1>3. Guards!Last(s) = e
  BY <1>2 DEF Guards!Last
<1>4. Guards!Front(s) = rest
  <2> DEFINE n == Len(rest)
  <2>1. n \in Nat /\ Guards!Front(s) = SubSeq(s, 1, n) /\ \A i \in 1 .. n : s[i] = rest[i] /\ rest[i] \in S
    BY <1>2, ElementOfSeq DEF Guards!Front
  <2> HIDE DEF n
  <2>2. /\ SubSeq(s, 1, n) \in Seq(S) /\ Len(SubSeq(s, 1, n)) = IF 1 <= n THEN n - 1 + 1 ELSE 0
        /\ \A i \in 1 .. n - 1 + 1 : SubSeq(s, 1, n)[i] = s[1 + i - 1]
    BY <2>1, SubSeqProperties
  <2>3. Len(SubSeq(s, 1, n)) = n /\ n - 1 + 1 = n /\ \A i \in 1 .. n : 1 + i - 1 = i
    BY <2>1, <2>2
  <2>4. SubSeq(s, 1, n) = rest
    BY <2>1, <2>2, <2>3, SeqEqual DEF n
  <2> QED BY <2>1, <2>4
<1> QED BY <1>1, <1>3, <1>4

(* A guard asks for exceptions in flight, and learns how its scope is left.*)
LEMMA RunsIfDue ==
  ASSUME GuardInv, scopes # << >>, NEW kind \in Guards!Kinds
  PROVE  Guards!Runs(kind) <=> kind \in Guards!Due(Guards!Inner)
<1> DEFINE top == Len(scopes)
           old == Guards!Inner
<1>1. top \in Nat \ {0} /\ old = scopes[top] /\ flying \in Nat
  BY InnerIs DEF GuardInv
<1>2. PICK f : Counting(f, scopes) /\ f[top] = flying
  BY DEF GuardInv, Flies
<1> HIDE DEF top, old
<1>3. top \in 1 .. top /\ top - 1 \in 0 .. top
  BY <1>1
<1>4. /\ f \in [0 .. top -> Nat] /\ flying = f[top - 1] + Thrown(old)
      /\ (old.unwinding <=> f[top - 1] > 0)
  BY <1>1, <1>2, <1>3 DEF Counting, top
<1>5. f[top - 1] \in Nat
  BY <1>3, <1>4
<1>6. flying > 0 <=> old.leaves = "thrown" \/ old.unwinding
  BY <1>1, <1>4, <1>5 DEF Thrown
<1>7. flying = 0 <=> ~ (flying > 0)
  BY <1>1
<1> QED BY <1>6, <1>7 DEF Guards!Runs, Guards!Due, Guards!Kinds, old

LEMMA DestroyKeeps ==
  ASSUME GuardInv, Guards!Destroy
  PROVE  GuardInv'
<1> DEFINE top  == Len(scopes)
           old  == Guards!Inner
           kind == Guards!Last(old.live)
           rest == Guards!Front(old.live)
           runs == Guards!Runs(kind)
           left == [old EXCEPT !.live = rest, !.ran = IF runs THEN Append(@, kind) ELSE @]
           mid  == Guards!Front(scopes) \o <<left>>
           kinds == Guards!Due(old)
<1>1. scopes # << >> /\ old.leaves # "no" /\ old.live # << >> /\ UNCHANGED <<flying, terminated>>
  BY DEF Guards!Destroy
<1>2. PICK c \in BOOLEAN :
        scopes' = mid \o IF runs THEN <<Guards!Scope(c, TRUE, flying > 0)>> ELSE << >>
  BY DEF Guards!Destroy
<1>3. /\ scopes \in Seq(ScopeRecords) /\ top \in Nat \ {0} /\ old = scopes[top] /\ old \in ScopeRecords
      /\ BookKept(old)
  BY <1>1, InnerIs
<1>4. old.live \in Seq(Guards!Kinds) /\ old.made \in Seq(Guards!Kinds) /\ old.ran \in Seq(Guards!Kinds)
  BY <1>3 DEF ScopeRecords
<1>5. rest \in Seq(Guards!Kinds) /\ kind \in Guards!Kinds /\ old.live = Append(rest, kind)
  BY <1>1, <1>4, FrontAndLast
<1>6. runs <=> kind \in kinds
  BY <1>1, <1>5, RunsIfDue
<1> DEFINE ran == IF runs THEN Append(old.ran, kind) ELSE old.ran
           others == Guards!LastFirst(rest, kinds)
<1>7. left = [old EXCEPT !.live = rest, !.ran = ran]
  OBVIOUS
<1>8. ran \in Seq(Guards!Kinds) /\ others \in Seq(Guards!Kinds)
  BY <1>4, <1>5, AppendProperties, LastFirstStep
<1>9. ran \o others = Guards!LastFirst(old.made, kinds)
  <2>1. old.ran \o Guards!LastFirst(Append(rest, kind), kinds) = Guards!LastFirst(old.made, kinds)
    BY <1>1, <1>3, <1>5 DEF BookKept
  <2>2. Guards!LastFirst(Append(rest, kind), kinds) = IF kind \in kinds THEN <<kind>> \o others ELSE others
    <3> HIDE DEF kind, rest, kinds
    <3> QED BY <1>5, LastFirstStep
  <2> HIDE DEF others, runs, kind, rest, kinds
  <2>3. CASE kind \in kinds
    <3>1. ran = old.ran \o <<kind>> /\ <<kind>> \in Seq(Guards!Kinds)
      BY <1>4, <1>5, <1>6, <2>3, AppendIsConcat
    <3> HIDE DEF ran, old
    <3>2. (old.ran \o <<kind>>) \o others = old.ran \o (<<kind>> \o others)
      <4>1. old.ran \in Seq(Guards!Kinds) /\ others \in Seq(Guards!Kinds) /\ <<kind>> \in Seq(Guards!Kinds)
        BY <1>4, <1>8, <3>1
      <4>2. \A r, t, u \in Seq(Guards!Kinds) : (r \o t) \o u = r \o (t \o u)
        BY ConcatAssociative
      <4> QED BY <4>1, <4>2
    <3> QED BY <2>1, <2>2, <2>3, <3>1, <3>2
  <2>4. CASE kind \notin kinds
    BY <1>6, <2>1, <2>2, <2>4
  <2> QED BY <2>3, <2>4
<1> HIDE DEF rest, ran, left
<1>10. /\ left \in ScopeRecords /\ left.live = rest /\ left.ran = ran /\ left.made = old.made
       /\ left.leaves = old.leaves /\ left.unwinding = old.unwinding /\ SameKind(old, left)
  BY <1>3, <1>5, <1>7, <1>8 DEF ScopeRecords, SameKind
<1>11. Guards!Due(left) = kinds
  BY <1>10 DEF Guards!Due
<1>12. BookKept(left)
  BY <1>1, <1>9, <1>10, <1>11 DEF BookKept
<1> HIDE DEF old, kinds, runs, mid, top
<1>13. mid = [scopes EXCEPT ![top] = left]
  <2>1. Guards!Front(scopes) \in Seq(ScopeRecords) /\ Guards!Last(scopes) = old
        /\ scopes = Append(Guards!Front(scopes), old)
    BY <1>1, <1>3, FrontAndLast DEF Guards!Inner, old
  <2> DEFINE front == Guards!Front(scopes)
  <2> HIDE DEF front
  <2>2. front \in Seq(ScopeRecords) /\ scopes = Append(front, old) /\ mid = Append(front, left)
    BY <1>10, <2>1, AppendIsConcat DEF mid, front
  <2>3. /\ Len(front) \in Nat /\ top = Len(front) + 1 /\ Len(mid) = top /\ mid \in Seq(ScopeRecords)
        /\ mid[top] = left /\ \A i \in 1 .. Len(front) : mid[i] = front[i] /\ scopes[i] = front[i]
    BY <1>3, <1>10, <2>2, AppendProperties, LenProperties DEF top
  <2> DEFINE other == [scopes EXCEPT ![top] = left]
  <2>4. top \in 1 .. top /\ top = Len(scopes)
    BY <1>3 DEF top
  <2>5. other \in Seq(ScopeRecords) /\ Len(other) = top
        /\ \A i \in 1 .. top : other[i] = IF i = top THEN left ELSE scopes[i]
    BY <1>3, <1>10, <2>4, ExceptSeq
  <2> HIDE DEF other
  <2>6. \A i \in 1 .. top : mid[i] = other[i]
    <3> SUFFICES ASSUME NEW i \in 1 .. top PROVE mid[i] = other[i]
      OBVIOUS
    <3>1. i = top \/ i \in 1 .. Len(front)
      BY <2>3
    <3> QED BY <2>3, <2>5, <3>1
  <2>7. mid = other
    BY <2>3, <2>5, <2>6, SeqEqual
  <2> QED BY <2>7 DEF other
<1>14. AgreesBelow(scopes, mid) /\ mid[top] = left /\ mid # << >> /\ Len(mid) = top /\ mid \in Seq(ScopeRecords)
  <2>1. top \in 1 .. top /\ top = Len(scopes)
    BY <1>3 DEF top
  <2>2. mid \in Seq(ScopeRecords) /\ Len(mid) = top
        /\ \A i \in 1 .. top : mid[i] = IF i = top THEN left ELSE scopes[i]
    BY <1>3, <1>10, <1>13, <2>1, ExceptSeq
  <2>3. \A i \in 1 .. top : i < top => mid[i] = scopes[i]
    BY <1>3, <2>2
  <2> QED BY <1>3, <2>1, <2>2, <2>3, EmptySeq DEF AgreesBelow
<1>15. /\ left.leaves = "thrown" => Stops(scopes, top)
       /\ flying \in Nat /\ flying \in Int /\ flying = flying - Thrown(old) + Thrown(left)
  <2>1. top \in 1 .. top /\ top = Len(scopes)
    BY <1>3 DEF top
  <2>2. Thrown(old) = Thrown(left) /\ Thrown(old) \in Int
    BY <1>10 DEF Thrown
  <2> QED BY <1>3, <1>10, <2>1, <2>2 DEF GuardInv, Orderly
<1>16. Orderly(mid) /\ Flies(mid, flying)
  BY <1>1, <1>3, <1>10, <1>12, <1>14, <1>15, InnerChanges DEF GuardInv, top
<1>17. CASE runs
  <2> DEFINE body == Guards!Scope(c, TRUE, flying > 0)
  <2>1. /\ body \in ScopeRecords /\ body.leaves = "no" /\ body.live = << >> /\ body.made = << >> /\ body.ran = << >>
        /\ body.callable = TRUE /\ (body.unwinding <=> flying > 0)
    <3>1. (flying > 0) \in BOOLEAN /\ << >> \in Seq(Guards!Kinds)
      BY EmptySeq
    <3> QED BY <3>1 DEF Guards!Scope, ScopeRecords
  <2>2. scopes' = mid \o <<body>>
    BY <1>2, <1>17
  <2> HIDE DEF body
  <2>3. scopes' = Append(mid, body)
    BY <1>14, <2>1, <2>2, AppendIsConcat
  <2>4. body.callable <=> mid[Len(mid)].leaves # "no"
    BY <1>1, <1>10, <1>14, <2>1
  <2>5. Orderly(Append(mid, body)) /\ Flies(Append(mid, body), flying)
    BY <1>14, <1>15, <1>16, <2>1, <2>4, ScopeAdded
  <2> QED BY <1>1, <2>3, <2>5 DEF GuardInv
<1>18. CASE ~runs
  <2>1. scopes' = mid
    BY <1>2, <1>14, <1>18, ConcatEmptySeq
  <2> QED BY <1>1, <1>16, <2>1 DEF GuardInv
<1> QED BY <1>17, <1>18

LEMMA LeaveKeeps ==
  ASSUME GuardInv, Guards!Leave
  PROVE  GuardInv'
<1> DEFINE top == Len(scopes)
           old == Guards!Inner
           outside == Guards!Front(scopes)
           thrown == old.leaves = "thrown"
           escapes == thrown /\ ~old.catches
<1>1. /\ scopes # << >> /\ terminated' = (escapes /\ old.callable)
      /\ flying' = flying - (IF thrown /\ old.catches THEN 1 ELSE 0)
      /\ scopes' = IF escapes /\ ~old.callable
                   THEN [outside EXCEPT ![Len(outside)].leaves = "thrown"] ELSE outside
  BY DEF Guards!Leave
<1>2. scopes \in Seq(ScopeRecords) /\ top \in Nat \ {0} /\ old = scopes[top] /\ flying \in Nat
  BY <1>1, InnerIs DEF GuardInv
<1>3. Orderly(outside) /\ flying - Thrown(old) \in Nat /\ Flies(outside, flying - Thrown(old))
  BY <1>1, <1>2, ScopeGone DEF GuardInv
<1>4. /\ outside \in Seq(ScopeRecords) /\ Len(outside) = top - 1
      /\ \A i \in 1 .. top - 1 : outside[i] = scopes[i]
  <2>1. outside \in Seq(ScopeRecords) /\ scopes = Append(outside, Guards!Last(scopes))
        /\ Guards!Last(scopes) \in ScopeRecords
    BY <1>1, <1>2, FrontAndLast
  <2> HIDE DEF outside
  <2>2. /\ Len(Append(outside, Guards!Last(scopes))) = Len(outside) + 1 /\ Len(outside) \in Nat
        /\ \A i \in 1 .. Len(outside) : Append(outside, Guards!Last(scopes))[i] = outside[i]
    BY <2>1, AppendProperties, LenProperties
  <2> QED BY <1>2, <2>1, <2>2
<1> HIDE DEF outside, top, old
<1>5. CASE ~escapes
  <2>1. flying' = flying - Thrown(old) /\ scopes' = outside /\ ~terminated'
    BY <1>1, <1>2, <1>5 DEF Thrown
  <2> QED BY <1>3, <2>1 DEF GuardInv
<1>6. CASE escapes
  <2>1. top \in 1 .. top /\ Stops(scopes, top)
    BY <1>2, <1>6 DEF GuardInv, Orderly, top
  <2>2. PICK j \in 1 .. top : /\ scopes[j].catches
                              /\ \A k \in j + 1 .. top : ~scopes[k].catches /\ ~scopes[k].callable
    BY <2>1 DEF Stops
  <2>3. j \in 1 .. top - 1 /\ top \in j + 1 .. top
    <3>1. j # top
      BY <1>2, <1>6, <2>2
    <3> QED BY <1>2, <3>1
  <2>4. ~old.callable
    BY <1>2, <2>2, <2>3
  <2> DEFINE n == top - 1
             outer == outside[n]
             s == [outer EXCEPT !.leaves = "thrown"]
             other == [outside EXCEPT ![n] = s]
  <2>5. n \in 1 .. n /\ n \in Nat /\ Len(outside) = n /\ outside # << >> /\ outer \in ScopeRecords
    <3>1. n \in 1 .. n /\ n \in Nat /\ n = Len(outside)
      BY <1>2, <1>4, <2>3
    <3> HIDE DEF n
    <3> QED BY <1>4, <3>1, EmptySeq, ElementOfSeq
  <2>6. outer.leaves = "no" /\ BookKept(outer)
    <3>1. outer = scopes[top - 1]
      BY <1>4, <2>5
    <3>2. top > 1 /\ top \in 1 .. top
      BY <1>2, <2>3
    <3>3. scopes[top].callable <=> scopes[top - 1].leaves # "no"
      BY <3>2 DEF GuardInv, Orderly, top
    <3>4. BookKept(outer)
      BY <1>3, <2>5 DEF Orderly
    <3> QED BY <1>2, <2>4, <3>1, <3>3, <3>4
  <2>7. Stops(outside, n)
    <3>1. \A k \in j + 1 .. n : k \in 1 .. top - 1 /\ k \in j + 1 .. top
      BY <1>2, <2>3
    <3>2. outside[j].catches /\ \A k \in j + 1 .. n : ~outside[k].catches /\ ~outside[k].callable
      BY <1>4, <2>2, <2>3, <3>1
    <3>3. j \in 1 .. n
      BY <2>3
    <3> HIDE DEF n
    <3> QED BY <3>2, <3>3 DEF Stops
  <2>8. scopes' = other /\ flying' = flying /\ ~terminated'
    <3>1. flying' = flying - 0 /\ ~terminated'
      BY <1>1, <1>6, <2>4
    <3>2. scopes' = [outside EXCEPT ![Len(outside)].leaves = "thrown"]
      BY <1>1, <1>6, <2>4
    <3> QED BY <1>2, <2>5, <3>1, <3>2
  <2> HIDE DEF n, outer
  <2>9. s \in ScopeRecords /\ BookKept(s) /\ SameKind(outer, s) /\ s.leaves = "thrown"
    BY <2>5, <2>6, BeginsToLeave
  <2> HIDE DEF s
  <2>10. AgreesBelow(outside, other) /\ other[n] = s
    <3>1. other \in Seq(ScopeRecords) /\ Len(other) = n
          /\ \A i \in 1 .. n : other[i] = IF i = n THEN s ELSE outside[i]
      BY <1>4, <2>5, <2>9, ExceptSeq
    <3>2. \A i \in 1 .. n : i < n => other[i] = outside[i]
      BY <2>5, <3>1
    <3> QED BY <2>5, <3>1, <3>2 DEF AgreesBelow
  <2> HIDE DEF other
  <2>11. /\ Thrown(old) = 1 /\ Thrown(outer) = 0 /\ Thrown(s) = 1
         /\ flying \in Int /\ flying = (flying - Thrown(old)) - Thrown(outer) + Thrown(s)
    BY <1>2, <1>6, <2>6, <2>9 DEF Thrown
  <2>12. Orderly(other) /\ Flies(other, flying)
    <3> DEFINE m == flying - Thrown(old)
    <3>1. m \in Nat /\ Flies(outside, m) /\ flying = m - Thrown(outer) + Thrown(s)
      BY <1>3, <2>11
    <3> HIDE DEF m
    <3> QED BY <1>3, <2>5, <2>7, <2>9, <2>10, <2>11, <3>1, InnerChanges DEF outer
  <2> QED BY <1>2, <2>8, <2>12 DEF GuardInv
<1> QED BY <1>5, <1>6

(* When a scope is left its guards run as their kind asks for, the last    *)
(* first, and none ends the process (detail::ScopeExit), if the client's   *)
(* callables let no exception out: for scopes nested to any depth, any     *)
(* number of guards and any exceptions in flight.                          *)
THEOREM GuardsFollowExitAlways ==
  ASSUME "quiet_callables" \in ClientRules
  PROVE  Spec => []GuardsFollowExit
<1>1. Init => GuardInv
  BY GuardInit
<1>2. GuardInv /\ [Next]_vars => GuardInv'
  <2>1. ASSUME GuardInv, UNCHANGED guardVars
        PROVE  GuardInv'
    BY <2>1 DEF guardVars, GuardInv
  <2>2. ASSUME GuardInv, Guards!Next
        PROVE  GuardInv'
    BY <2>2, EnterKeeps, MakeGuardKeeps, ReturnKeeps, ThrowKeeps, DestroyKeeps, LeaveKeeps DEF Guards!Next
  <2> QED BY <2>1, <2>2, OneToolAtATime
<1>3. GuardInv => GuardsFollowExit
  <2> SUFFICES ASSUME GuardInv, NEW i \in DOMAIN scopes,
                      scopes[i].leaves # "no", scopes[i].live = << >>
               PROVE  scopes[i].ran = Guards!LastFirst(scopes[i].made, Guards!Due(scopes[i]))
    BY DEF GuardsFollowExit, Guards!GuardsFollowExit, GuardInv
  <2>1. scopes \in Seq(ScopeRecords) /\ scopes[i] \in ScopeRecords /\ BookKept(scopes[i])
    <3>1. scopes \in Seq(ScopeRecords)
      BY DEF GuardInv, Orderly
    <3>2. i \in 1 .. Len(scopes)
      BY <3>1
    <3> QED BY <3>1, <3>2, ElementOfSeq DEF GuardInv, Orderly
  <2>2. scopes[i].ran \in Seq(Guards!Kinds)
    BY <2>1 DEF ScopeRecords
  <2>3. Guards!LastFirst(<< >>, Guards!Due(scopes[i])) = << >>
    <3>1. "exit" \in Guards!Kinds /\ << >> \in Seq(Guards!Kinds)
      BY EmptySeq DEF Guards!Kinds
    <3> QED BY <3>1, LastFirstStep
  <2> QED BY <2>1, <2>2, <2>3, ConcatEmptySeq DEF BookKept
<1> QED BY <1>1, <1>2, <1>3, PTL DEF Spec

-----------------------------------------------------------------------------
(* Imports: the walk passes the places of a table in their order, so that  *)
(* before place p it has passed the places before p and no other.          *)
Places == UNION {{d} \X DOMAIN table[d].imports : d \in DOMAIN table}

Before(p, q) == p[1] < q[1] \/ (p[1] = q[1] /\ p[2] < q[2])

StepAt(p) == <<table[p[1]].name, table[p[1]].imports[p[2]], p>>

Symbols == DOMAIN LowerCase

StandsAt(p) == head = [descriptor |-> p[1], original |-> p, first |-> p]

Passed(p) == \E i \in DOMAIN passed : passed[i] = StepAt(p)

ImportInv ==
  /\ table \in Seq([name : Symbols, imports : Seq(Symbols) \ {<< >>}]) \ {<< >>}
  /\ passed \in Seq({StepAt(p) : p \in Places})
  /\ \A i, j \in DOMAIN passed : i < j => Before(passed[i][3], passed[j][3])
  /\ \/ head = Imports!End /\ \A p \in Places : Passed(p)
     \/ \E q \in Places : StandsAt(q) /\ \A p \in Places : Passed(p) <=> Before(p, q)

(* A place is a descriptor and one of its imports.                         *)
LEMMA PlacesAre ==
  ASSUME table \in Seq([name : Symbols, imports : Seq(Symbols) \ {<< >>}]) \ {<< >>}
  PROVE  /\ Len(table) \in Nat \ {0} /\ DOMAIN table = 1 .. Len(table)
         /\ \A d \in 1 .. Len(table) :
              /\ Len(table[d].imports) \in Nat \ {0}
              /\ DOMAIN table[d].imports = 1 .. Len(table[d].imports)
         /\ \A d, k : <<d, k>> \in Places <=> d \in 1 .. Len(table) /\ k \in 1 .. Len(table[d].imports)
         /\ \A p \in Places : p = <<p[1], p[2]>> /\ p[1] \in Int /\ p[2] \in Int
<1>1. Len(table) \in Nat \ {0} /\ DOMAIN table = 1 .. Len(table)
  BY EmptySeq, LenProperties
<1>2. ASSUME NEW d \in 1 .. Len(table)
      PROVE  Len(table[d].imports) \in Nat \ {0} /\ DOMAIN table[d].imports = 1 .. Len(table[d].imports)
  <2> DEFINE D == [name : Symbols, imports : Seq(Symbols) \ {<< >>}]
  <2>1. table[d] \in D
    <3>1. table \in Seq(D)
      OBVIOUS
    <3> HIDE DEF D
    <3> QED BY <3>1, ElementOfSeq
  <2>2. table[d].imports \in Seq(Symbols) /\ table[d].imports # << >>
    BY <2>1
  <2> QED BY <2>2, EmptySeq, LenProperties
<1>3. \A p : p \in Places <=> \E d \in 1 .. Len(table) : \E k \in 1 .. Len(table[d].imports) : p = <<d, k>>
  BY <1>1, <1>2 DEF Places
<1>4. \A d, k : <<d, k>> \in Places <=> d \in 1 .. Len(table) /\ k \in 1 .. Len(table[d].imports)
  BY <1>3
<1>5. \A p \in Places : p = <<p[1], p[2]>> /\ p[1] \in Int /\ p[2] \in Int
  BY <1>1, <1>2, <1>3
<1> QED BY <1>1, <1>2, <1>4, <1>5

LEMMA ImportInit ==
  ASSUME "no_empty_lists" \in ClientRules, Init
  PROVE  ImportInv
<1>1. /\ table \in Tables /\ \A d \in DOMAIN table : table[d].imports # << >>
      /\ head = Imports!Begin(1) /\ passed = << >>
  BY DEF Init, Imports!Init
<1>2. table \in Seq([name : Symbols, imports : Seq(Symbols)]) /\ table # << >>
  BY <1>1, ToolsAssumption DEF Symbols
<1>3. table \in Seq([name : Symbols, imports : Seq(Symbols) \ {<< >>}])
  <2> DEFINE D == [name : Symbols, imports : Seq(Symbols) \ {<< >>}]
  <2>1. Len(table) \in Nat /\ DOMAIN table = 1 .. Len(table)
    BY <1>2, LenProperties
  <2>2. ASSUME NEW d \in 1 .. Len(table)
        PROVE  table[d] \in D
    <3> DEFINE E == [name : Symbols, imports : Seq(Symbols)]
    <3>1. table \in Seq(E)
      BY <1>2
    <3> HIDE DEF E
    <3>2. table[d] \in E /\ table[d].imports # << >>
      BY <1>1, <2>1, <3>1, ElementOfSeq
    <3> QED BY <3>2 DEF E
  <2> HIDE DEF D
  <2>3. table = [d \in 1 .. Len(table) |-> table[d]]
    BY <1>2, <2>1
  <2>4. table \in Seq(D)
    BY <2>1, <2>2, <2>3, IsASeq
  <2> QED BY <2>4 DEF D
<1>4. <<1, 1>> \in Places /\ \A p \in Places : ~Before(p, <<1, 1>>)
  <2>1. \A p \in Places : p[1] >= 1 /\ p[2] >= 1
    BY <1>2, <1>3, PlacesAre
  <2>2. \A p \in Places : p[1] \in Int /\ p[2] \in Int
    BY <1>2, <1>3, PlacesAre
  <2>3. <<1, 1>> \in Places
    <3>1. Len(table) \in Nat \ {0} /\ \A d \in 1 .. Len(table) : Len(table[d].imports) \in Nat \ {0}
      BY <1>2, <1>3, PlacesAre
    <3>2. 1 \in 1 .. Len(table) /\ 1 \in 1 .. Len(table[1].imports)
      BY <3>1
    <3> QED BY <1>2, <1>3, <3>2, PlacesAre
  <2>4. ASSUME NEW p \in Places
        PROVE  ~Before(p, <<1, 1>>)
    <3>1. ~ (p[1] < 1) /\ ~ (p[2] < 1)
      BY <2>1, <2>2
    <3> QED BY <3>1 DEF Before
  <2> QED BY <2>3, <2>4
<1>5. StandsAt(<<1, 1>>)
  BY <1>1 DEF StandsAt, Imports!Begin
<1>6. passed \in Seq({StepAt(p) : p \in Places}) /\ DOMAIN passed = {}
  BY <1>1, EmptySeq
<1>7. \A p \in Places : Passed(p) <=> Before(p, <<1, 1>>)
  BY <1>4, <1>6 DEF Passed
<1> QED BY <1>2, <1>3, <1>4, <1>5, <1>6, <1>7 DEF ImportInv

(* What lies before a place and what before the next one, in a descriptor  *)
(* or in the next one, or at the end.                                      *)
LEMMA NextPlace ==
  ASSUME ImportInv, NEW q \in Places
  PROVE  /\ q[2] < Len(table[q[1]].imports) =>
              /\ <<q[1], q[2] + 1>> \in Places
              /\ \A p \in Places : Before(p, <<q[1], q[2] + 1>>) <=> Before(p, q) \/ p = q
         /\ ~ (q[2] < Len(table[q[1]].imports)) /\ q[1] < Len(table) =>
              /\ <<q[1] + 1, 1>> \in Places
              /\ \A p \in Places : Before(p, <<q[1] + 1, 1>>) <=> Before(p, q) \/ p = q
         /\ ~ (q[2] < Len(table[q[1]].imports)) /\ ~ (q[1] < Len(table)) =>
              \A p \in Places : Before(p, q) \/ p = q
<1> DEFINE c(d) == Len(table[d].imports)
<1>1. table \in Seq([name : Symbols, imports : Seq(Symbols) \ {<< >>}]) \ {<< >>}
  BY DEF ImportInv
<1>2. /\ Len(table) \in Nat \ {0}
      /\ \A d \in 1 .. Len(table) : c(d) \in Nat \ {0}
      /\ \A d, k : <<d, k>> \in Places <=> d \in 1 .. Len(table) /\ k \in 1 .. c(d)
      /\ \A p \in Places : p = <<p[1], p[2]>> /\ p[1] \in Int /\ p[2] \in Int
  BY <1>1, PlacesAre
<1> HIDE DEF c
<1>3. \A p \in Places : p[1] \in 1 .. Len(table) /\ p[2] \in 1 .. c(p[1]) /\ p[2] \in Int /\ c(p[1]) \in Nat
  BY <1>2
<1>4. \A p \in Places : p = q <=> p[1] = q[1] /\ p[2] = q[2]
  BY <1>2
<1>5. ASSUME q[2] < c(q[1])
      PROVE  /\ <<q[1], q[2] + 1>> \in Places
             /\ \A p \in Places : Before(p, <<q[1], q[2] + 1>>) <=> Before(p, q) \/ p = q
  <2>1. q[1] \in 1 .. Len(table) /\ q[2] + 1 \in 1 .. c(q[1])
    BY <1>3, <1>5
  <2>2. ASSUME NEW p \in Places
        PROVE  Before(p, <<q[1], q[2] + 1>>) <=> Before(p, q) \/ p = q
    <3>1. p[2] < q[2] + 1 <=> p[2] < q[2] \/ p[2] = q[2]
      BY <1>3
    <3>2. Before(p, <<q[1], q[2] + 1>>) <=> p[1] < q[1] \/ (p[1] = q[1] /\ p[2] < q[2] + 1)
      BY DEF Before
    <3> QED BY <1>4, <3>1, <3>2 DEF Before
  <2> QED BY <1>2, <2>1, <2>2
<1>6. ASSUME ~ (q[2] < c(q[1])), q[1] < Len(table)
      PROVE  /\ <<q[1] + 1, 1>> \in Places
             /\ \A p \in Places : Before(p, <<q[1] + 1, 1>>) <=> Before(p, q) \/ p = q
  <2>1. q[1] + 1 \in 1 .. Len(table) /\ 1 \in 1 .. c(q[1] + 1)
    <3>1. q[1] + 1 \in 1 .. Len(table)
      BY <1>2, <1>3, <1>6
    <3> QED BY <1>2, <3>1
  <2>2. ASSUME NEW p \in Places
        PROVE  Before(p, <<q[1] + 1, 1>>) <=> Before(p, q) \/ p = q
    <3>1. ~ (p[2] < 1) /\ (p[1] < q[1] + 1 <=> p[1] < q[1] \/ p[1] = q[1])
      BY <1>3
    <3>2. p[1] = q[1] => p[2] < q[2] \/ p[2] = q[2]
      <4>1. ASSUME p[1] = q[1]
            PROVE  p[2] \in 1 .. c(q[1]) /\ q[2] \in 1 .. c(q[1]) /\ c(q[1]) \in Nat
        BY <1>3, <4>1
      <4> QED BY <1>6, <4>1
    <3>3. Before(p, <<q[1] + 1, 1>>) <=> p[1] < q[1] + 1 \/ (p[1] = q[1] + 1 /\ p[2] < 1)
      BY DEF Before
    <3> QED BY <1>4, <3>1, <3>2, <3>3 DEF Before
  <2> QED BY <1>2, <2>1, <2>2
<1>7. ASSUME ~ (q[2] < c(q[1])), ~ (q[1] < Len(table)), NEW p \in Places
      PROVE  Before(p, q) \/ p = q
  <2>1. p[1] < q[1] \/ p[1] = q[1]
    BY <1>2, <1>3, <1>7
  <2>2. p[1] = q[1] => p[2] < q[2] \/ p[2] = q[2]
    <3>1. ASSUME p[1] = q[1]
          PROVE  p[2] \in 1 .. c(q[1]) /\ q[2] \in 1 .. c(q[1]) /\ c(q[1]) \in Nat
      BY <1>3, <3>1
    <3> QED BY <1>7, <3>1
  <2> QED BY <1>4, <2>1, <2>2 DEF Before
<1> QED BY <1>5, <1>6, <1>7 DEF c

LEMMA AdvanceKeeps ==
  ASSUME "prefix_only" \in ClientRules, ImportInv, Imports!Advance
  PROVE  ImportInv'
<1> DEFINE d == head.descriptor
<1>1. /\ head # Imports!End /\ UNCHANGED <<table, loadable>>
      /\ passed' = Append(passed, Imports!Current(head))
      /\ head' = IF head.original[2] < Len(table[d].imports)
                 THEN [head EXCEPT !.original[2] = @ + 1, !.first[2] = @ + 1]
                 ELSE IF d < Len(table) THEN Imports!Begin(d + 1) ELSE Imports!End
  BY DEF Imports!Advance, Imports!Read, Imports!StartOf
<1>2. PICK q \in Places : StandsAt(q) /\ \A p \in Places : Passed(p) <=> Before(p, q)
  BY <1>1 DEF ImportInv
<1>3. q = <<q[1], q[2]>> /\ q[1] \in Int /\ q[2] \in Int
  BY PlacesAre DEF ImportInv
<1>4. head.descriptor = q[1] /\ head.original = q /\ head.first = q
  BY <1>2 DEF StandsAt
<1>5. Imports!Current(head) = StepAt(q)
  BY <1>1, <1>4 DEF Imports!Current, StepAt
<1> DEFINE S == {StepAt(p) : p \in Places}
           n == Len(passed)
<1>6. passed \in Seq(S) /\ StepAt(q) \in S
  BY DEF ImportInv
<1> HIDE DEF S
<1>7. /\ n \in Nat /\ DOMAIN passed = 1 .. n /\ passed' \in Seq(S) /\ DOMAIN passed' = 1 .. n + 1
      /\ passed'[n + 1] = StepAt(q) /\ \A i \in 1 .. n : passed'[i] = passed[i]
  BY <1>1, <1>5, <1>6, AppendProperties, LenProperties
<1> HIDE DEF n
<1>8. S' = S /\ Places' = Places
  BY <1>1 DEF S, Places, StepAt
<1>9. \A p \in Places : Passed(p)' <=> Before(p, q) \/ p = q
  <2>1. \A p \in Places : StepAt(p) = StepAt(q) <=> p = q
    BY DEF StepAt
  <2>2. ASSUME NEW p \in Places
        PROVE  Passed(p)' <=> Passed(p) \/ StepAt(p) = StepAt(q)
    <3>1. Passed(p)' <=> \E i \in 1 .. n + 1 : passed'[i] = StepAt(p)
      BY <1>1, <1>7 DEF Passed, StepAt
    <3>2. Passed(p) <=> \E i \in 1 .. n : passed[i] = StepAt(p)
      BY <1>7 DEF Passed
    <3>3. \A i \in 1 .. n + 1 : i \in 1 .. n \/ i = n + 1
      BY <1>7
    <3>4. n + 1 \in 1 .. n + 1 /\ \A i \in 1 .. n : i \in 1 .. n + 1
      BY <1>7
    <3> QED BY <1>7, <3>1, <3>2, <3>3, <3>4
  <2> QED BY <1>2, <2>1, <2>2
<1>10. \A i, j \in DOMAIN passed' : i < j => Before(passed'[i][3], passed'[j][3])
  <2> SUFFICES ASSUME NEW i \in 1 .. n + 1, NEW j \in 1 .. n + 1, i < j
               PROVE  Before(passed'[i][3], passed'[j][3])
    BY <1>7
  <2>1. i \in 1 .. n /\ (j \in 1 .. n \/ j = n + 1)
    BY <1>7
  <2>2. CASE j \in 1 .. n
    BY <1>7, <2>1, <2>2 DEF ImportInv
  <2>3. CASE j = n + 1
    <3>1. PICK p \in Places : passed[i] = StepAt(p)
      BY <1>6, <1>7, <2>1 DEF S
    <3>2. Passed(p)
      BY <1>7, <2>1, <3>1 DEF Passed
    <3>3. Before(p, q) /\ passed'[i][3] = p /\ passed'[j][3] = q
      BY <1>2, <1>7, <2>1, <2>3, <3>1, <3>2 DEF StepAt
    <3> QED BY <3>3
  <2> QED BY <2>1, <2>2, <2>3
<1>11. \/ head' = Imports!End /\ \A p \in Places : Passed(p)'
       \/ \E r \in Places : StandsAt(r)' /\ \A p \in Places : Passed(p)' <=> Before(p, r)
  <2>1. CASE q[2] < Len(table[q[1]].imports)
    <3> DEFINE r == <<q[1], q[2] + 1>>
    <3>1. head' = [descriptor |-> q[1], original |-> r, first |-> r]
      <4>1. head = [descriptor |-> q[1], original |-> q, first |-> q]
        BY <1>2 DEF StandsAt
      <4>2. [q EXCEPT ![2] = @ + 1] = r
        BY <1>3
      <4>3. head' = [head EXCEPT !.original[2] = @ + 1, !.first[2] = @ + 1]
        BY <1>1, <1>4, <2>1
      <4> QED BY <4>1, <4>2, <4>3
    <3>2. StandsAt(r)'
      BY <3>1 DEF StandsAt
    <3> QED BY <1>9, <2>1, <3>2, NextPlace
  <2>2. CASE ~ (q[2] < Len(table[q[1]].imports)) /\ q[1] < Len(table)
    <3> DEFINE r == <<q[1] + 1, 1>>
    <3>1. head' = [descriptor |-> q[1] + 1, original |-> r, first |-> r]
      BY <1>1, <1>4, <2>2 DEF Imports!Begin
    <3>2. StandsAt(r)'
      BY <3>1 DEF StandsAt
    <3> QED BY <1>9, <2>2, <3>2, NextPlace
  <2>3. CASE ~ (q[2] < Len(table[q[1]].imports)) /\ ~ (q[1] < Len(table))
    <3>1. head' = Imports!End
      BY <1>1, <1>4, <2>3
    <3> QED BY <1>9, <2>3, <3>1, NextPlace
  <2> QED BY <2>1, <2>2, <2>3
<1>12. passed' \in Seq({StepAt(p) : p \in Places})'
  BY <1>7, <1>8 DEF S
<1>13. (head' = Imports!End) <=> (head = Imports!End)'
  BY DEF Imports!End
<1>14. \A r \in Places, p \in Places : Before(p, r)' <=> Before(p, r)
  BY DEF Before
<1> QED BY <1>1, <1>8, <1>10, <1>11, <1>12, <1>13, <1>14 DEF ImportInv, Symbols

(* What the search takes for what is asked: of these places the first.     *)
IsFirst(p, S) == p \in S /\ \A q \in S : p[1] < q[1] \/ (p[1] = q[1] /\ p[2] <= q[2])

LEMMA WalkAgrees ==
  ASSUME ImportInv
  PROVE  SearchAgreesWithWalk
<1> SUFFICES ASSUME head = Imports!End, NEW mod \in Imports!Modules,
                    NEW fn \in (DOMAIN LowerCase) \ Ordinals, NEW ord \in Ordinals
             PROVE  LET fits(e) == /\ e[1] \in loadable /\ Imports!IEqual(e[1], mod)
                                   /\ e[2] = ord \/ (e[2] \notin Ordinals /\ Imports!IEqual(e[2], fn))
                        found == {i \in DOMAIN passed : fits(passed[i])}
                    IN \/ found = {} /\ Imports!Entry(mod, fn, ord) = <<0, 0>>
                       \/ \E i \in found : /\ \A j \in found : i <= j
                                           /\ Imports!Entry(mod, fn, ord) = passed[i][3]
  BY DEF SearchAgreesWithWalk, Imports!SearchAgreesWithWalk
<1> DEFINE fits(e) == /\ e[1] \in loadable /\ Imports!IEqual(e[1], mod)
                      /\ e[2] = ord \/ (e[2] \notin Ordinals /\ Imports!IEqual(e[2], fn))
           found == {i \in DOMAIN passed : fits(passed[i])}
           asked == {p \in Places : /\ Imports!IEqual(table[p[1]].name, mod)
                                    /\ table[p[1]].name \in loadable
                                    /\ Imports!IsAsked(table[p[1]].imports[p[2]], fn, ord)}
<1>1. Imports!Entry(mod, fn, ord) = IF asked = {} THEN <<0, 0>> ELSE CHOOSE p \in asked :
            \A q \in asked : p[1] < q[1] \/ (p[1] = q[1] /\ p[2] <= q[2])
  BY DEF Imports!Entry, Places
<1>2. ASSUME NEW p \in Places
      PROVE  fits(StepAt(p)) <=> p \in asked
  BY DEF StepAt, Imports!IsAsked
<1>3. \A p \in Places : Passed(p)
  <2>1. \A q \in Places : ~StandsAt(q)
    <3>1. \A q \in Places : q[1] # 0
      BY PlacesAre DEF ImportInv
    <3> QED BY <3>1 DEF StandsAt, Imports!End
  <2> QED BY <2>1 DEF ImportInv
<1>4. \A i \in DOMAIN passed : i \in Nat /\ \E p \in Places : passed[i] = StepAt(p)
  <2> DEFINE S == {StepAt(p) : p \in Places}
  <2>1. passed \in Seq(S)
    BY DEF ImportInv
  <2> HIDE DEF S
  <2>2. \A i \in DOMAIN passed : i \in Nat /\ passed[i] \in S
    BY <2>1
  <2> QED BY <2>2 DEF S
<1> HIDE DEF fits
<1>5. \A p \in asked : \E i \in found : passed[i] = StepAt(p)
  BY <1>2, <1>3 DEF Passed
<1>6. \A i \in found : i \in Nat /\ \E p \in asked : passed[i] = StepAt(p)
  BY <1>2, <1>4
<1>7. \A p \in asked : p \in Places /\ p[1] \in Int /\ p[2] \in Int /\ p = <<p[1], p[2]>>
  BY PlacesAre DEF ImportInv
<1>8. \A i, j \in found : i < j => Before(passed[i][3], passed[j][3])
  BY DEF ImportInv
<1> HIDE DEF found, asked
<1>9. CASE asked = {}
  BY <1>1, <1>6, <1>9 DEF fits, found
<1>10. CASE asked # {}
  <2>1. found # {} /\ found \subseteq Nat
    BY <1>5, <1>6, <1>10
  <2>2. PICK i \in found : \A j \in found : i <= j
    BY <2>1, LeastNatural
  <2>3. PICK p \in asked : passed[i] = StepAt(p)
    BY <1>6
  <2>4. IsFirst(p, asked)
    <3> SUFFICES ASSUME NEW q \in asked PROVE p[1] < q[1] \/ (p[1] = q[1] /\ p[2] <= q[2])
      BY DEF IsFirst
    <3>1. PICK j \in found : passed[j] = StepAt(q)
      BY <1>5
    <3>2. i < j \/ i = j
      BY <1>6, <2>2
    <3>3. CASE i < j
      <4>1. Before(p, q)
        BY <1>8, <2>3, <3>1, <3>3 DEF StepAt
      <4> QED BY <1>7, <4>1 DEF Before
    <3>4. CASE i = j
      <4>1. p = q
        BY <2>3, <3>1, <3>4 DEF StepAt
      <4> QED BY <1>7, <4>1
    <3> QED BY <3>2, <3>3, <3>4
  <2>5. \A q \in asked : IsFirst(q, asked) => q = p
    <3> SUFFICES ASSUME NEW q \in asked, IsFirst(q, asked) PROVE q = p
      OBVIOUS
    <3>1. q[1] = p[1] /\ q[2] = p[2]
      BY <1>7, <2>4 DEF IsFirst
    <3> QED BY <1>7, <3>1
  <2>6. Imports!Entry(mod, fn, ord) = CHOOSE q \in asked : IsFirst(q, asked)
    BY <1>1, <1>10 DEF IsFirst
  <2>7. Imports!Entry(mod, fn, ord) = p
    BY <2>4, <2>5, <2>6
  <2>8. passed[i][3] = p
    BY <2>3 DEF StepAt
  <2>9. \E e \in found : (\A j \in found : e <= j) /\ Imports!Entry(mod, fn, ord) = passed[e][3]
    BY <2>2, <2>7, <2>8
  <2> QED BY <2>9 DEF fits, found
<1> QED BY <1>9, <1>10

(* What getImportAddressTableEntry finds is the first import with that     *)
(* module and symbol the ImportIterator passes, and what it does not find  *)
(* the walk does not pass, if each descriptor has an import and the client *)
(* steps with ++it: for tables with any modules, symbols and ordinals.     *)
THEOREM SearchAgreesWithWalkAlways ==
  ASSUME "no_empty_lists" \in ClientRules, "prefix_only" \in ClientRules
  PROVE  Spec => []SearchAgreesWithWalk
<1>1. Init => ImportInv
  BY ImportInit
<1>2. ImportInv /\ [Next]_vars => ImportInv'
  <2>1. ASSUME ImportInv, UNCHANGED importVars
        PROVE  ImportInv'
    BY <2>1 DEF importVars, ImportInv, Places, StepAt, Symbols, Before, Passed, StandsAt, Imports!End
  <2> QED BY <2>1, AdvanceKeeps, OneToolAtATime
<1>3. ImportInv => SearchAgreesWithWalk
  BY WalkAgrees
<1> QED BY <1>1, <1>2, <1>3, PTL DEF Spec

-----------------------------------------------------------------------------
(* Strings: what a client has and edits is made of some letters.           *)
Letters == UNION {{t[i] : i \in 1 .. Len(t)} : t \in Texts \cup Fragments}

LEMMA TextsAre == Texts \cup Fragments \subseteq Seq(Letters)
<1> SUFFICES ASSUME NEW t \in Texts \cup Fragments PROVE t \in Seq(Letters)
  OBVIOUS
<1>1. Len(t) \in Nat /\ t = [i \in 1 .. Len(t) |-> t[i]]
  BY ToolsAssumption DEF IsSequence
<1>2. \A i \in 1 .. Len(t) : t[i] \in Letters
  BY DEF Letters
<1> HIDE DEF Letters
<1> QED BY <1>1, <1>2, IsASeq

(* A property that a first value has and each step keeps.                  *)
Stays(f, n, S) == f[0] \in S /\ \A i \in 1 .. n : f[i - 1] \in S => f[i] \in S

LEMMA Staying ==
  ASSUME NEW n \in Nat, NEW f, NEW S, Stays(f, n, S)
  PROVE  \A i \in 0 .. n : f[i] \in S
<1> DEFINE T == {k \in Nat : k <= n => f[k] \in S}
<1>1. 0 \in T
  BY DEF Stays
<1>2. ASSUME NEW k \in Nat, k \in T
      PROVE  k + 1 \in T
  <2> SUFFICES ASSUME k + 1 <= n PROVE f[k + 1] \in S
    OBVIOUS
  <2>1. k + 1 \in 1 .. n /\ (k + 1) - 1 = k /\ f[k] \in S
    BY <1>2
  <2> QED BY <2>1 DEF Stays
<1> HIDE DEF T
<1>3. Nat \subseteq T
  BY <1>1, <1>2, Induction
<1> QED BY <1>3 DEF T

(* What is kept of a string, letter by letter.                             *)
Keep(s, t, i) == IF s[i] \in Spaces THEN t ELSE Append(t, s[i])

Keeps(f, s) == f = [i \in 0 .. Len(s) |-> IF i = 0 THEN << >> ELSE Keep(s, f[i - 1], i)]

LEMMA StrippedIs ==
  ASSUME NEW s \in Seq(Letters)
  PROVE  Scanner!Stripped(s) \in Seq(Letters)
<1> DEFINE n == Len(s)
           S == Seq(Letters)
           step == [t \in S |-> [i \in 1 .. n |-> Keep(s, t, i)]]
           kept == CHOOSE f : Keeps(f, s)
<1>0. n \in Nat /\ \A i \in 1 .. n : s[i] \in Letters
  BY LenProperties, ElementOfSeq
<1>1. \A t \in S, i \in 1 .. n : Keep(s, t, i) \in S
  BY <1>0, AppendProperties DEF Keep
<1>2. << >> \in S
  BY EmptySeq
<1>3. Scanner!Stripped(s) = kept[n]
  BY DEF Scanner!Stripped, Keeps, Keep
<1> HIDE DEF n, S
<1>4. \A t \in S, i \in 1 .. n : step[t][i] = Keep(s, t, i)
  OBVIOUS
<1>5. PICK f : Iterates(f, << >>, step, n, S)
  <2>1. IsStep(step, n, S)
    BY <1>1, <1>4 DEF IsStep
  <2> HIDE DEF step
  <2> QED BY <1>0, <1>2, <2>1, Recursion
<1> HIDE DEF step
<1>6. f \in [0 .. n -> S] /\ f[0] = << >> /\ \A i \in 1 .. n : f[i] = step[f[i - 1]][i]
  BY <1>5 DEF Iterates
<1>7. \A i \in 1 .. n : f[i] = Keep(s, f[i - 1], i)
  BY <1>0, <1>4, <1>6
<1>8. f = [i \in 0 .. n |-> IF i = 0 THEN << >> ELSE Keep(s, f[i - 1], i)]
  <2>1. \A i \in 0 .. n : f[i] = IF i = 0 THEN << >> ELSE Keep(s, f[i - 1], i)
    BY <1>0, <1>6, <1>7
  <2> QED BY <1>6, <2>1
<1>9. Keeps(kept, s)
  <2>1. Keeps(f, s)
    BY <1>8 DEF Keeps, n
  <2> QED BY <2>1
<1> HIDE DEF kept
<1>10. kept = [i \in 0 .. n |-> IF i = 0 THEN << >> ELSE Keep(s, kept[i - 1], i)]
  BY <1>9 DEF Keeps, n
<1>11. Stays(kept, n, S)
  BY <1>0, <1>1, <1>2, <1>10 DEF Stays
<1>12. n \in 0 .. n
  BY <1>0
<1>13. kept[n] \in S
  BY <1>0, <1>11, <1>12, Staying
<1> QED BY <1>3, <1>13 DEF S

(* What is replaced of a string, turn by turn.                             *)
Turn(s, old, new, acc, i) ==
  IF i < acc.next THEN acc
  ELSE IF Scanner!OccursAt(s, old, i)
       THEN [out |-> acc.out \o new, next |-> i + Len(old)]
       ELSE [out |-> Append(acc.out, s[i]), next |-> i + 1]

Turns(f, s, old, new) ==
  f = [i \in 0 .. Len(s) |-> IF i = 0 THEN [out |-> << >>, next |-> 1] ELSE Turn(s, old, new, f[i - 1], i)]

Turned(s, old, new) == CHOOSE f : Turns(f, s, old, new)

Progress == [out : Seq(Letters), next : Int]

LEMMA TurnedIs ==
  ASSUME NEW s \in Seq(Letters), NEW old \in Seq(Letters), NEW new \in Seq(Letters)
  PROVE  /\ Turned(s, old, new) \in [0 .. Len(s) -> Progress]
         /\ Turned(s, old, new)[0] = [out |-> << >>, next |-> 1]
         /\ \A i \in 1 .. Len(s) : Turned(s, old, new)[i] = Turn(s, old, new, Turned(s, old, new)[i - 1], i)
<1> DEFINE n == Len(s)
           first == [out |-> << >>, next |-> 1]
           step == [acc \in Progress |-> [i \in 1 .. n |-> Turn(s, old, new, acc, i)]]
           f == Turned(s, old, new)
<1>0. n \in Nat /\ Len(old) \in Nat /\ \A i \in 1 .. n : s[i] \in Letters
  BY LenProperties, ElementOfSeq
<1> HIDE DEF n
<1>1. ASSUME NEW acc \in Progress, NEW i \in 1 .. n
      PROVE  Turn(s, old, new, acc, i) \in Progress
  <2>1. acc.out \in Seq(Letters) /\ acc.next \in Int
    BY DEF Progress
  <2>2. acc.out \o new \in Seq(Letters) /\ Append(acc.out, s[i]) \in Seq(Letters)
    BY <1>0, <2>1, ConcatProperties, AppendProperties
  <2>3. i + Len(old) \in Int /\ i + 1 \in Int
    BY <1>0
  <2> QED BY <2>2, <2>3 DEF Turn, Progress
<1>2. first \in Progress
  BY EmptySeq DEF Progress
<1> HIDE DEF first
<1>3. \A acc \in Progress, i \in 1 .. n : step[acc][i] = Turn(s, old, new, acc, i)
  OBVIOUS
<1>4. PICK g : Iterates(g, first, step, n, Progress)
  <2>1. IsStep(step, n, Progress)
    BY <1>1, <1>3 DEF IsStep
  <2> HIDE DEF step
  <2> QED BY <1>0, <1>2, <2>1, Recursion
<1> HIDE DEF step
<1>5. g \in [0 .. n -> Progress] /\ g[0] = first /\ \A i \in 1 .. n : g[i] = step[g[i - 1]][i]
  BY <1>4 DEF Iterates
<1>6. ASSUME NEW i \in 1 .. n
      PROVE  g[i] = Turn(s, old, new, g[i - 1], i)
  <2>1. i - 1 \in 0 .. n
    BY <1>0
  <2>2. g[i - 1] \in Progress
    BY <1>5, <2>1
  <2> QED BY <1>3, <1>5, <2>2
<1>7. g = [i \in 0 .. n |-> IF i = 0 THEN first ELSE Turn(s, old, new, g[i - 1], i)]
  <2>1. \A i \in 0 .. n : g[i] = IF i = 0 THEN first ELSE Turn(s, old, new, g[i - 1], i)
    BY <1>0, <1>5, <1>6
  <2> QED BY <1>5, <2>1
<1>8. Turns(f, s, old, new)
  <2>1. Turns(g, s, old, new)
    BY <1>7 DEF Turns, n, first
  <2> QED BY <2>1 DEF Turned
<1> HIDE DEF f
<1>9. f = [i \in 0 .. n |-> IF i = 0 THEN first ELSE Turn(s, old, new, f[i - 1], i)]
  BY <1>8 DEF Turns, n, first
<1>10. f[0] = first /\ \A i \in 1 .. n : f[i] = Turn(s, old, new, f[i - 1], i)
  BY <1>0, <1>9
<1>11. Stays(f, n, Progress)
  BY <1>1, <1>2, <1>10 DEF Stays
<1>12. \A i \in 0 .. n : f[i] \in Progress
  BY <1>0, <1>11, Staying
<1>13. f \in [0 .. n -> Progress]
  BY <1>9, <1>12
<1> QED BY <1>10, <1>13 DEF f, n, first

LEMMA ReplacedIs ==
  ASSUME NEW s \in Seq(Letters), NEW old \in Seq(Letters), NEW new \in Seq(Letters)
  PROVE  /\ Scanner!Replaced(s, old, new) \in Seq(Letters)
         /\ old # << >> => Scanner!Replaced(s, old, new) = Turned(s, old, new)[Len(s)].out
<1>1. Scanner!Replaced(s, old, new) = IF old = << >> THEN s ELSE Turned(s, old, new)[Len(s)].out
  BY DEF Scanner!Replaced, Scanner!ResumeAt, Turned, Turns, Turn
<1>2. Turned(s, old, new)[Len(s)] \in Progress
  <2>1. Len(s) \in 0 .. Len(s)
    BY LenProperties
  <2> QED BY <2>1, TurnedIs
<1> QED BY <1>1, <1>2 DEF Progress

(* What is left of a string by trim() is a part of it.                     *)
LEMMA TrimmedIs ==
  ASSUME NEW s \in Seq(Letters)
  PROVE  Scanner!Trimmed(s) \in Seq(Letters)
<1> DEFINE n == Len(s)
           black == {i \in 1 .. n : s[i] \notin Spaces}
           lo == Scanner!Min(black)
           hi == Scanner!Max(black)
<1>0. n \in Nat /\ \A i \in 1 .. n : s[i] \in Letters
  BY LenProperties, ElementOfSeq
<1>1. CASE black = {}
  BY <1>1 DEF Scanner!Trimmed
<1>2. CASE black # {}
  <2>1. Scanner!Trimmed(s) = SubSeq(s, lo, hi - 1)
    BY <1>2 DEF Scanner!Trimmed
  <2>2. black \subseteq Nat /\ black \subseteq 1 .. n
    BY <1>0
  <2> HIDE DEF black
  <2>3. lo \in black
    <3>1. PICK i \in black : \A j \in black : i <= j
      BY <1>2, <2>2, LeastNatural
    <3> QED BY <3>1 DEF Scanner!Min
  <2>4. hi \in black
    <3> DEFINE T == {k \in Nat : \E j \in black : k = n - j}
    <3>1. \A j \in black : n - j \in Nat
      BY <1>0, <2>2
    <3>2. T # {} /\ T \subseteq Nat
      BY <1>2, <3>1
    <3>3. \A j \in black : n - j \in T
      BY <3>1
    <3>4. \A k \in T : \E j \in black : k = n - j
      OBVIOUS
    <3> HIDE DEF T
    <3>5. PICK k \in T : \A e \in T : k <= e
      BY <3>2, LeastNatural
    <3>6. PICK j \in black : k = n - j
      BY <3>4
    <3>7. \A e \in black : j >= e
      <4> SUFFICES ASSUME NEW e \in black PROVE j >= e
        OBVIOUS
      <4>1. n - j <= n - e
        BY <3>3, <3>5, <3>6
      <4> QED BY <1>0, <2>2, <4>1
    <3> QED BY <3>7 DEF Scanner!Max
  <2> HIDE DEF lo, hi
  <2>5. lo \in Int /\ hi - 1 \in Int /\ \A j \in lo .. hi - 1 : s[j] \in Letters
    BY <1>0, <2>2, <2>3, <2>4
  <2>6. SubSeq(s, lo, hi - 1) \in Seq(Letters)
    BY <2>5, SubSeqProperties
  <2> QED BY <2>1, <2>6
<1> QED BY <1>1, <1>2

(* Pairs of letters.                                                       *)
LEMMA Halves ==
  ASSUME NEW n \in Nat, n % 2 = 0
  PROVE  /\ n = 2 * (n \div 2) /\ n \div 2 \in Nat
         /\ \A k \in 1 .. n \div 2 :
              /\ 2 * k - 1 \in 1 .. n /\ 2 * k \in 1 .. n /\ 2 * k > 1 /\ (2 * k - 1) + 1 = 2 * k
              /\ (2 * k - 1) % 2 = 1 /\ (2 * k) % 2 = 0
         /\ \A i \in 1 .. n : \E k \in 1 .. n \div 2 : i = 2 * k - 1 \/ i = 2 * k
<1> DEFINE h == n \div 2
<1>1. n = 2 * h /\ h \in Nat
  OBVIOUS
<1> HIDE DEF h
<1>2. \A k \in 1 .. h : /\ 2 * k - 1 \in 1 .. n /\ 2 * k \in 1 .. n /\ 2 * k > 1 /\ (2 * k - 1) + 1 = 2 * k
                        /\ (2 * k - 1) % 2 = 1 /\ (2 * k) % 2 = 0
  BY <1>1
<1>3. ASSUME NEW i \in 1 .. n
      PROVE  \E k \in 1 .. h : i = 2 * k - 1 \/ i = 2 * k
  <2> DEFINE k == (i + 1) \div 2
  <2>1. k \in Int /\ (i = 2 * k - 1 \/ i = 2 * k)
    OBVIOUS
  <2> HIDE DEF k
  <2>2. k \in 1 .. h
    BY <1>1, <2>1
  <2> QED BY <2>1, <2>2
<1> QED BY <1>1, <1>2, <1>3 DEF h

BothWild(s, k) == s[2 * k - 1] = "?" /\ s[2 * k] = "?"

BothHex(s, k) == Scanner!IsHex(s[2 * k - 1]) /\ Scanner!IsHex(s[2 * k])

LEMMA ValidPairs ==
  ASSUME NEW s \in Seq(Letters), Scanner!Even(s)
  PROVE  /\ Scanner!IsValidPatternString(s) =>
              \A k \in 1 .. Len(s) \div 2 : BothWild(s, k) \/ BothHex(s, k)
         /\ ~Scanner!IsValidPatternString(s) =>
              \E k \in 1 .. Len(s) \div 2 : ~BothWild(s, k) /\ ~BothHex(s, k)
         /\ Scanner!IsHexString(s) <=> \A k \in 1 .. Len(s) \div 2 : BothHex(s, k)
<1> DEFINE n == Len(s)
           h == n \div 2
           Fine(i) == \/ Scanner!IsHex(s[i]) \/ Scanner!IsWildcard(s, i)
                      \/ (i > 1 /\ Scanner!IsWildcard(s, i - 1))
<1>1. n \in Nat /\ n % 2 = 0
  BY LenProperties DEF Scanner!Even
<1>2. Scanner!IsValidPatternString(s) <=> \A i \in 1 .. n : Fine(i)
  BY DEF Scanner!IsValidPatternString
<1>3. Scanner!IsHexString(s) <=> \A i \in 1 .. n : Scanner!IsHex(s[i])
  BY DEF Scanner!IsHexString
<1> HIDE DEF n
<1>4. /\ \A k \in 1 .. h :
           /\ 2 * k - 1 \in 1 .. n /\ 2 * k \in 1 .. n /\ 2 * k > 1 /\ (2 * k - 1) + 1 = 2 * k
           /\ (2 * k - 1) % 2 = 1 /\ (2 * k) % 2 = 0
      /\ \A i \in 1 .. n : \E k \in 1 .. h : i = 2 * k - 1 \/ i = 2 * k
  BY <1>1, Halves
<1> HIDE DEF h
<1>5. \A k \in 1 .. h : k \in Int
  OBVIOUS
<1>6. ASSUME NEW k \in 1 .. h
      PROVE  /\ Fine(2 * k - 1) <=> Scanner!IsHex(s[2 * k - 1]) \/ BothWild(s, k)
             /\ Fine(2 * k) <=> Scanner!IsHex(s[2 * k]) \/ BothWild(s, k)
  <2>1. /\ (2 * k - 1) % 2 = 1 /\ (2 * k) % 2 = 0 /\ (2 * k - 1) + 1 = 2 * k /\ 2 * k > 1
        /\ (2 * k - 1) - 1 = 2 * (k - 1) /\ (2 * (k - 1)) % 2 = 0
    BY <1>4, <1>5
  <2>2. Scanner!IsWildcard(s, 2 * k - 1) <=> BothWild(s, k)
    BY <2>1 DEF Scanner!IsWildcard, BothWild
  <2>3. ~Scanner!IsWildcard(s, 2 * k) /\ ~Scanner!IsWildcard(s, (2 * k - 1) - 1)
    BY <2>1 DEF Scanner!IsWildcard
  <2> QED BY <2>1, <2>2, <2>3
<1> HIDE DEF Fine
<1>7. "?" \notin DOMAIN HexOf
  BY ToolsAssumption
<1>8. \A k \in 1 .. h : Fine(2 * k - 1) /\ Fine(2 * k) => BothWild(s, k) \/ BothHex(s, k)
  BY <1>6 DEF BothHex
<1>9. \A k \in 1 .. h : ~ (Fine(2 * k - 1) /\ Fine(2 * k)) => ~BothWild(s, k) /\ ~BothHex(s, k)
  BY <1>6 DEF BothHex
<1> QED BY <1>2, <1>3, <1>4, <1>8, <1>9 DEF n, h, BothHex

(* A byte of two digits is their value, and never a wildcard.              *)
LEMMA ByteIs ==
  ASSUME NEW s, NEW k \in Int, BothHex(s, k)
  PROVE  /\ Scanner!ByteAt(s, k) \in Nat
         /\ Scanner!ByteAt(s, k) \div 16 = HexOf[s[2 * k - 1]]
         /\ Scanner!ByteAt(s, k) % 16 = HexOf[s[2 * k]]
<1> DEFINE a == HexOf[s[2 * k - 1]]
           b == HexOf[s[2 * k]]
<1>1. a \in 0 .. 15 /\ b \in 0 .. 15
  BY ToolsAssumption DEF BothHex, Scanner!IsHex
<1>2. Scanner!ByteAt(s, k) = 16 * a + b
  BY DEF Scanner!ByteAt
<1> HIDE DEF a, b
<1>3. 16 * a + b \in Nat /\ (16 * a + b) \div 16 = a /\ (16 * a + b) % 16 = b
  BY <1>1
<1> QED BY <1>2, <1>3 DEF a, b

(* The pattern and the bytes of a string, pair by pair.                    *)
PairIs(s, k) == IF s[2 * k - 1] = "?" THEN Scanner!Wild ELSE Scanner!ByteAt(s, k)

(* A pattern p and the bytes b are what a string without spaces, s, says.  *)
Says(s, p, b) ==
  /\ Len(s) \in Nat
  /\ Scanner!Even(s) /\ Scanner!IsValidPatternString(s) =>
       /\ p # << >> /\ Len(p) \in Nat /\ DOMAIN p = 1 .. Len(p) /\ Len(s) = 2 * Len(p)
       /\ \A k \in 1 .. Len(p) : p[k] = PairIs(s, k) /\ (BothWild(s, k) \/ BothHex(s, k))
  /\ ~ (Scanner!Even(s) /\ Scanner!IsValidPatternString(s)) => p = << >>
  /\ b # << >> => b = p /\ p # << >> /\ \A k \in 1 .. Len(p) : BothHex(s, k)
  /\ b = << >> /\ p # << >> => \E k \in 1 .. Len(p) : BothWild(s, k)

LEMMA ParsedIs ==
  ASSUME NEW text \in Seq(Letters)
  PROVE  Says(Scanner!Stripped(text), Scanner!PatternOf(text), Scanner!ParseByteArrayString(text))
<1> DEFINE s == Scanner!Stripped(text)
           p == Scanner!PatternOf(text)
           b == Scanner!ParseByteArrayString(text)
           h == Len(s) \div 2
           made == [k \in 1 .. h |-> PairIs(s, k)]
           read == [k \in 1 .. h |-> Scanner!ByteAt(s, k)]
<1>1. s \in Seq(Letters) /\ Len(s) \in Nat
  BY StrippedIs, LenProperties
<1>2. Scanner!IsValidPatternString(s) => Scanner!Even(s)
  BY DEF Scanner!IsValidPatternString
<1>3. Scanner!IsHexString(s) => Scanner!Even(s)
  BY DEF Scanner!IsHexString
<1>4. p = IF ~Scanner!IsValidPatternString(s) THEN << >> ELSE made
  BY DEF Scanner!PatternOf, PairIs
<1>5. b = IF ~Scanner!IsHexString(s) THEN << >> ELSE read
  BY DEF Scanner!ParseByteArrayString
<1> HIDE DEF s, p, b
<1>6. CASE ~Scanner!Even(s)
  BY <1>1, <1>2, <1>3, <1>4, <1>5, <1>6 DEF Says, s, p, b
<1>7. CASE Scanner!Even(s)
  <2>1. s # << >> /\ Len(s) % 2 = 0
    BY <1>7 DEF Scanner!Even
  <2>2. Len(s) # 0
    BY <1>1, <2>1, EmptySeq
  <2>3. Len(s) = 2 * h /\ h \in Nat /\ h # 0
    BY <1>1, <2>1, <2>2, Halves
  <2>4. /\ Scanner!IsValidPatternString(s) => \A k \in 1 .. h : BothWild(s, k) \/ BothHex(s, k)
        /\ Scanner!IsHexString(s) <=> \A k \in 1 .. h : BothHex(s, k)
        /\ ~Scanner!IsValidPatternString(s) => \E k \in 1 .. h : ~BothWild(s, k) /\ ~BothHex(s, k)
    BY <1>1, <1>7, ValidPairs
  <2> HIDE DEF h
  <2>5. DOMAIN made = 1 .. h /\ Len(made) = h /\ made # << >>
    <3>1. DOMAIN made = 1 .. h /\ 1 \in 1 .. h /\ DOMAIN << >> = {}
      BY <2>3
    <3> QED BY <2>3, <3>1
  <2>6. \A k \in 1 .. h : BothHex(s, k) => made[k] = Scanner!ByteAt(s, k)
    <3>1. "?" \notin DOMAIN HexOf
      BY ToolsAssumption
    <3> QED BY <3>1 DEF PairIs, BothHex, Scanner!IsHex
  <2>7. (\A k \in 1 .. h : BothHex(s, k)) => read = made
    BY <2>6
  <2>8. \A k \in 1 .. h : made[k] = PairIs(s, k)
    OBVIOUS
  <2> HIDE DEF made, read
  <2>9. Scanner!IsHexString(s) => Scanner!IsValidPatternString(s)
    BY <2>4
  <2>10. Scanner!IsValidPatternString(s) =>
           p # << >> /\ Len(p) \in Nat /\ DOMAIN p = 1 .. Len(p) /\ Len(s) = 2 * Len(p)
           /\ \A k \in 1 .. Len(p) : p[k] = PairIs(s, k) /\ (BothWild(s, k) \/ BothHex(s, k))
    BY <1>4, <2>3, <2>4, <2>5, <2>8
  <2>11. b # << >> => b = p /\ p # << >> /\ \A k \in 1 .. Len(p) : BothHex(s, k)
    BY <1>4, <1>5, <2>4, <2>5, <2>7, <2>9
  <2>12. b = << >> /\ p # << >> => \E k \in 1 .. Len(p) : BothWild(s, k)
    BY <1>4, <1>5, <2>4, <2>5, <2>7
  <2>13. ~ (Scanner!Even(s) /\ Scanner!IsValidPatternString(s)) => p = << >>
    BY <1>4, <1>7
  <2>14. Says(s, p, b)
    BY <1>1, <2>10, <2>11, <2>12, <2>13 DEF Says
  <2> QED BY <2>14 DEF s, p, b
<1> QED BY <1>6, <1>7

(* Once there is a pattern, it and the bytes are those of the string.      *)
TextInv ==
  /\ str \in Seq(Letters)
  /\ IF pattern = << >> THEN bytes = << >>
     ELSE pattern = Scanner!PatternOf(str) /\ bytes = Scanner!ParseByteArrayString(str)

LEMMA TextInit == Init => TextInv
BY TextsAre DEF Init, Scanner!ScannerInit, Scanner!Init, TextInv

LEMMA TextKeeps ==
  ASSUME TextInv, Scanner!ScannerNext
  PROVE  TextInv'
<1>1. CASE Scanner!Parse
  <2>1. /\ pattern' = Scanner!PatternOf(str) /\ bytes' = Scanner!ParseByteArrayString(str)
        /\ str' = str /\ str \in Seq(Letters)
    BY <1>1 DEF Scanner!Parse, TextInv
  <2>2. Scanner!ParseByteArrayString(str) # << >> => Scanner!PatternOf(str) # << >>
    BY <2>1, ParsedIs DEF Says
  <2> QED BY <2>1, <2>2 DEF TextInv
<1>2. CASE pattern = << >> /\ Scanner!Edit /\ UNCHANGED <<pattern, bytes>>
  <2>1. str' \in Seq(Letters)
    <3>1. str \in Seq(Letters)
      BY DEF TextInv
    <3>2. ASSUME NEW old \in Fragments, NEW new \in Fragments, Scanner!Replace(old, new)
          PROVE  str' \in Seq(Letters)
      BY <3>1, <3>2, TextsAre, ReplacedIs DEF Scanner!Replace
    <3>3. ASSUME Scanner!Trim
          PROVE  str' \in Seq(Letters)
      BY <3>1, <3>3, TrimmedIs DEF Scanner!Trim
    <3>4. ASSUME Scanner!RemoveWhitespace
          PROVE  str' \in Seq(Letters)
      BY <3>1, <3>4, StrippedIs DEF Scanner!RemoveWhitespace
    <3> QED BY <1>2, <3>2, <3>3, <3>4 DEF Scanner!Edit
  <2> QED BY <1>2, <2>1 DEF TextInv
<1> QED BY <1>1, <1>2 DEF Scanner!ScannerNext

LEMMA TextInvAlways == Spec => []TextInv
<1>1. Init => TextInv
  BY TextInit
<1>2. TextInv /\ [Next]_vars => TextInv'
  <2>1. ASSUME TextInv, UNCHANGED textVars
        PROVE  TextInv'
    BY <2>1 DEF textVars, TextInv
  <2> QED BY <2>1, TextKeeps, OneToolAtATime
<1> QED BY <1>1, <1>2, PTL DEF Spec

(* What pair k of a string must be if the pattern's value is v there.      *)
Meant(v) == IF v = Scanner!Wild THEN {<<"?", "?">>}
            ELSE {digits \in (DOMAIN HexOf) \X (DOMAIN HexOf) :
                    HexOf[digits[1]] = v \div 16 /\ HexOf[digits[2]] = v % 16}

LEMMA PairMeant ==
  ASSUME NEW s, NEW k \in Int
  PROVE  /\ BothWild(s, k) \/ BothHex(s, k) => <<s[2 * k - 1], s[2 * k]>> \in Meant(PairIs(s, k))
         /\ <<s[2 * k - 1], s[2 * k]>> \in Meant(Scanner!Wild) <=> BothWild(s, k)
<1>1. ASSUME BothWild(s, k)
      PROVE  <<s[2 * k - 1], s[2 * k]>> \in Meant(PairIs(s, k))
  BY <1>1 DEF BothWild, Meant, PairIs
<1>2. ASSUME BothHex(s, k)
      PROVE  <<s[2 * k - 1], s[2 * k]>> \in Meant(PairIs(s, k))
  <2>1. s[2 * k - 1] \in DOMAIN HexOf /\ s[2 * k] \in DOMAIN HexOf /\ s[2 * k - 1] # "?"
    BY <1>2, ToolsAssumption DEF BothHex, Scanner!IsHex
  <2>2. PairIs(s, k) = Scanner!ByteAt(s, k) /\ Scanner!ByteAt(s, k) # Scanner!Wild
    BY <1>2, <2>1, ByteIs DEF PairIs, Scanner!Wild
  <2> QED BY <1>2, <2>1, <2>2, ByteIs DEF Meant
<1>3. <<s[2 * k - 1], s[2 * k]>> \in Meant(Scanner!Wild) <=> BothWild(s, k)
  BY DEF Meant, BothWild
<1> QED BY <1>1, <1>2, <1>3

(* AOBPattern::fromString gives a pattern exactly for pairs of digits or   *)
(* question marks, spaces apart: for strings of any length and letters.    *)
THEOREM PatternMeansStringAlways == Spec => PatternMeansString
<1>1. TextInv => Scanner!MeaningKept
  <2> SUFFICES ASSUME TextInv, Scanner!Parse PROVE Scanner!MeaningKept
    BY DEF Scanner!MeaningKept
  <2> DEFINE s == Scanner!Stripped(str)
  <2>1. pattern' = Scanner!PatternOf(str) /\ str \in Seq(Letters)
    BY DEF Scanner!Parse, TextInv
  <2>2. s \in Seq(Letters) /\ Len(s) \in Nat
    BY <2>1, StrippedIs, LenProperties
  <2>3. CASE Scanner!Even(s) /\ Scanner!IsValidPatternString(s)
    <3>1. /\ pattern' # << >> /\ DOMAIN pattern' = 1 .. Len(pattern') /\ Len(s) = 2 * Len(pattern')
          /\ \A k \in 1 .. Len(pattern') : /\ pattern'[k] = PairIs(s, k)
                                           /\ BothWild(s, k) \/ BothHex(s, k)
      BY <2>1, <2>3, ParsedIs DEF Says
    <3>2. \A k \in DOMAIN pattern' : <<s[2 * k - 1], s[2 * k]>> \in Meant(pattern'[k])
      BY <3>1, PairMeant
    <3> QED BY <3>1, <3>2 DEF Meant, Scanner!MeaningKept
  <2>4. CASE Scanner!Even(s) /\ ~Scanner!IsValidPatternString(s)
    <3>1. pattern' = << >>
      BY <2>1, <2>4, ParsedIs DEF Says
    <3>2. PICK k \in 1 .. Len(s) \div 2 : ~BothWild(s, k) /\ ~BothHex(s, k)
      BY <2>2, <2>4, ValidPairs
    <3>3. <<s[2 * k - 1], s[2 * k]>> \notin Meant(Scanner!Wild)
      BY <3>2, PairMeant
    <3>4. \E c \in {s[2 * k - 1], s[2 * k]} : ~Scanner!IsHex(c)
      BY <3>2 DEF BothHex
    <3> QED BY <3>1, <3>3, <3>4 DEF Meant, Scanner!MeaningKept
  <2>5. CASE ~Scanner!Even(s)
    <3>1. pattern' = << >>
      BY <2>1, <2>5, ParsedIs DEF Says
    <3>2. s = << >> \/ Len(s) % 2 = 1
      BY <2>2, <2>5 DEF Scanner!Even
    <3> QED BY <3>1, <3>2 DEF Scanner!MeaningKept
  <2> QED BY <2>3, <2>4, <2>5
<1>2. Spec => [][Scanner!MeaningKept]_<<str, pattern, bytes>>
  BY <1>1, TextInvAlways, PTL DEF Spec
<1> QED BY <1>2, PTL DEF PatternMeansString, Scanner!PatternMeansString

(* Where bytes are found they are, and in front of that they are not.      *)
LEMMA FoundIs ==
  ASSUME NEW h, Len(h) \in Nat, NEW b, Len(b) \in Nat, b # << >>,
         \A k \in 1 .. Len(b) : b[k] # Scanner!Wild
  PROVE  LET found == Scanner!Find(h, b)
         IN /\ found <= Len(h) <=> \E i \in 1 .. Len(h) : Scanner!OccursAt(h, b, i)
            /\ \A i \in 1 .. found - 1 : ~Scanner!OccursAt(h, b, i)
<1> DEFINE n == Len(h)
           m == Len(b)
           matches(i) == \A k \in 1 .. m : b[k] \in {Scanner!Wild, h[i + k - 1]}
           there == {i \in 1 .. n - m + 1 : matches(i)}
           found == Scanner!Find(h, b)
<1>1. n \in Nat /\ m \in Nat
  OBVIOUS
<1>2. found = Scanner!Min(there \cup {n + 1})
  BY DEF Scanner!Find
<1>3. \A i \in Int : Scanner!OccursAt(h, b, i) <=> i + m - 1 <= n /\ matches(i)
  BY DEF Scanner!OccursAt
<1> HIDE DEF n, m, matches, found
<1>4. \A i \in Int : i >= 1 => (i \in there <=> Scanner!OccursAt(h, b, i))
  BY <1>1, <1>3
<1>5. there \cup {n + 1} \subseteq Nat
  BY <1>1
<1> DEFINE all == there \cup {n + 1}
<1>6. PICK i \in all : \A j \in all : i <= j
  <2>1. all # {} /\ all \subseteq Nat
    BY <1>5
  <2> HIDE DEF all
  <2> QED BY <2>1, LeastNatural
<1>7. found = i
  <2>1. \A j \in all : j \in Nat
    BY <1>5
  <2> HIDE DEF all
  <2>2. found = CHOOSE x \in all : \A y \in all : x <= y
    BY <1>2 DEF Scanner!Min, all
  <2>3. \A x \in all : (\A y \in all : x <= y) => x = i
    BY <1>6, <2>1
  <2> QED BY <1>6, <2>2, <2>3
<1>8. i \in Nat /\ \A j \in there : i <= j
  BY <1>5, <1>6
<1>9. ASSUME NEW j \in 1 .. i - 1
      PROVE  ~Scanner!OccursAt(h, b, j)
  BY <1>4, <1>8
<1>10. i <= n => i \in 1 .. n /\ Scanner!OccursAt(h, b, i)
  <2>1. i = n + 1 \/ i \in there
    BY <1>6
  <2> QED BY <1>1, <1>4, <2>1
<1>11. ASSUME NEW j \in 1 .. n, Scanner!OccursAt(h, b, j)
       PROVE  i <= n
  BY <1>1, <1>4, <1>8, <1>11
<1> QED BY <1>7, <1>9, <1>10, <1>11 DEF found, n

(* What parseByteArrayString reads is what AOBPattern::fromString makes of *)
(* the same string, unless that has a wildcard, and AOBScanner::find finds *)
(* it where the bytes first are: for strings and haystacks of any length.  *)
THEOREM ParsersAgreeAlways == Spec => []ParsersAgree
<1>1. TextInv => ParsersAgree
  <2> SUFFICES ASSUME TextInv PROVE ParsersAgree
    OBVIOUS
  <2>1. CASE pattern = << >>
    BY <2>1 DEF TextInv, ParsersAgree, Scanner!ParsersAgree
  <2>2. CASE pattern # << >>
    <3> DEFINE s == Scanner!Stripped(str)
    <3>1. /\ str \in Seq(Letters) /\ pattern = Scanner!PatternOf(str)
          /\ bytes = Scanner!ParseByteArrayString(str)
      BY <2>2 DEF TextInv
    <3>2. Scanner!Even(s) /\ Scanner!IsValidPatternString(s)
      BY <2>2, <3>1, ParsedIs DEF Says
    <3>3. /\ Len(s) \in Nat /\ DOMAIN pattern = 1 .. Len(pattern) /\ Len(s) = 2 * Len(pattern)
          /\ \A k \in 1 .. Len(pattern) : pattern[k] = PairIs(s, k)
      BY <3>1, <3>2, ParsedIs DEF Says
    <3>4. bytes # << >> => bytes = pattern /\ \A k \in 1 .. Len(pattern) : BothHex(s, k)
      BY <3>1, ParsedIs DEF Says
    <3>5. bytes = << >> => \E k \in DOMAIN pattern : pattern[k] = Scanner!Wild
      <4>1. bytes = << >> => \E k \in 1 .. Len(pattern) : BothWild(s, k)
        BY <2>2, <3>1, ParsedIs DEF Says
      <4> QED BY <3>3, <4>1 DEF PairIs, BothWild
    <3> HIDE DEF s
    <3>6. ASSUME bytes # << >>, NEW h \in Haystacks
          PROVE  LET found == Scanner!Find(h, pattern) IN
                 /\ found <= Len(h) <=> \E i \in 1 .. Len(h) : Scanner!OccursAt(h, bytes, i)
                 /\ \A i \in 1 .. found - 1 : ~Scanner!OccursAt(h, bytes, i)
      <4>1. Len(h) \in Nat
        BY ToolsAssumption DEF IsSequence
      <4>2. Len(pattern) \in Nat
        BY <3>1, <3>2, ParsedIs DEF Says
      <4>3. \A k \in 1 .. Len(pattern) : pattern[k] # Scanner!Wild
        <5> SUFFICES ASSUME NEW k \in 1 .. Len(pattern) PROVE pattern[k] # Scanner!Wild
          OBVIOUS
        <5>1. BothHex(s, k) /\ pattern[k] = PairIs(s, k)
          BY <3>3, <3>4, <3>6
        <5>2. "?" \notin DOMAIN HexOf
          BY ToolsAssumption
        <5>3. pattern[k] = Scanner!ByteAt(s, k)
          BY <5>1, <5>2 DEF PairIs, BothHex, Scanner!IsHex
        <5> QED BY <5>1, <5>3, ByteIs DEF Scanner!Wild
      <4>4. bytes = pattern
        BY <3>4, <3>6
      <4> QED BY <2>2, <4>1, <4>2, <4>3, <4>4, FoundIs
    <3> QED BY <2>2, <3>4, <3>5, <3>6 DEF ParsersAgree, Scanner!ParsersAgree
  <2> QED BY <2>1, <2>2
<1> QED BY <1>1, TextInvAlways, PTL

(* How far what follows a place has moved when each match in M before it   *)
(* made the string longer by d.                                            *)
Shift(M, d, i) == Cardinality({j \in M : j < i}) * d

LEMMA SameCount ==
  ASSUME NEW S
  PROVE  Scanner!Cardinality(S) = Cardinality(S)
BY DEF Scanner!Cardinality, Cardinality

LEMMA OneMore ==
  ASSUME NEW c \in Int, NEW d \in Int
  PROVE  (c + 1) * d = c * d + d /\ c * d \in Int /\ 0 * d = 0
OBVIOUS

PlacesOf(M, n) == M \subseteq 1 .. n

LEMMA ShiftIs ==
  ASSUME NEW n \in Nat, NEW M, PlacesOf(M, n), NEW d \in Int
  PROVE  /\ Shift(M, d, 1) = 0
         /\ \A i \in Int : Shift(M, d, i) \in Int
         /\ \A i \in 1 .. n : /\ i \in M => Shift(M, d, i + 1) = Shift(M, d, i) + d
                              /\ i \notin M => Shift(M, d, i + 1) = Shift(M, d, i)
<1> DEFINE before(i) == {j \in M : j < i}
<1>0. M \subseteq 1 .. n /\ \A j \in M : j \in Int /\ j >= 1
  BY DEF PlacesOf
<1>1. ASSUME NEW i \in Int
      PROVE  IsFiniteSet(before(i)) /\ Cardinality(before(i)) \in Nat
  <2>1. IsFiniteSet(1 .. n)
    BY FS_Interval
  <2>2. before(i) \in SUBSET (1 .. n)
    BY <1>0
  <2>3. IsFiniteSet(before(i))
    <3> HIDE DEF before
    <3> QED BY <2>1, <2>2, FS_Subset
  <2> HIDE DEF before
  <2> QED BY <2>3, FS_CardinalityType
<1>2. Shift(M, d, 1) = 0
  <2>1. before(1) = {}
    <3>1. \A j \in M : ~ (j < 1)
      BY <1>0
    <3> QED BY <3>1
  <2>2. Cardinality({}) = 0
    BY FS_EmptySet
  <2> QED BY <2>1, <2>2, OneMore DEF Shift
<1>3. ASSUME NEW i \in Int
      PROVE  Shift(M, d, i) \in Int
  <2> DEFINE c == Cardinality(before(i))
  <2>1. c \in Int /\ Shift(M, d, i) = c * d
    BY <1>1 DEF Shift
  <2> HIDE DEF c
  <2> QED BY <2>1, OneMore
<1>4. ASSUME NEW i \in 1 .. n, i \in M
      PROVE  Shift(M, d, i + 1) = Shift(M, d, i) + d
  <2>1. before(i + 1) = before(i) \cup {i} /\ i \notin before(i)
    <3>1. \A j \in M : j < i + 1 <=> j < i \/ j = i
      BY <1>0
    <3>2. \A j : j \in before(i + 1) <=> j \in M /\ (j < i \/ j = i)
      BY <3>1
    <3>3. \A j : j \in before(i) <=> j \in M /\ j < i
      OBVIOUS
    <3> HIDE DEF before
    <3>4. ~ (i < i)
      OBVIOUS
    <3> QED BY <1>4, <3>2, <3>3, <3>4
  <2> DEFINE b == before(i)
  <2>2. IsFiniteSet(b) /\ Cardinality(b) \in Nat
    BY <1>1
  <2>3. Shift(M, d, i + 1) = Cardinality(before(i + 1)) * d /\ Shift(M, d, i) = Cardinality(b) * d
    BY DEF Shift
  <2> HIDE DEF before, b
  <2>4. Cardinality(b \cup {i}) = IF i \in b THEN Cardinality(b) ELSE Cardinality(b) + 1
    BY <2>2, FS_AddElement
  <2>5. Cardinality(before(i + 1)) = Cardinality(b) + 1
    BY <2>1, <2>4 DEF b
  <2> DEFINE c == Cardinality(b)
  <2>6. c \in Int
    BY <2>2
  <2>7. Shift(M, d, i + 1) = (c + 1) * d /\ Shift(M, d, i) = c * d
    BY <2>3, <2>5
  <2> HIDE DEF c
  <2> QED BY <2>6, <2>7, OneMore
<1>5. ASSUME NEW i \in 1 .. n, i \notin M
      PROVE  Shift(M, d, i + 1) = Shift(M, d, i)
  <2>1. before(i + 1) = before(i)
    <3>1. \A j \in M : j < i + 1 <=> j < i
      BY <1>0, <1>5
    <3> QED BY <3>1
  <2> QED BY <2>1 DEF Shift
<1> QED BY <1>2, <1>3, <1>4, <1>5

(* What is in a string stays where it is when something is put behind.     *)
Continues(t, u) ==
  Len(t) \in Nat /\ Len(u) \in Nat /\ Len(t) <= Len(u) /\ \A i \in 1 .. Len(t) : u[i] = t[i]

LEMMA StaysThere ==
  ASSUME NEW t, NEW u, Continues(t, u), NEW part, Len(part) \in Nat,
         NEW i \in Int, i >= 1, Scanner!OccursAt(t, part, i)
  PROVE  Scanner!OccursAt(u, part, i)
<1>1. \A k \in 1 .. Len(part) : i + k - 1 \in 1 .. Len(t)
  BY DEF Continues, Scanner!OccursAt
<1> QED BY <1>1 DEF Continues, Scanner!OccursAt

LEMMA Joined ==
  ASSUME NEW t \in Seq(Letters), NEW u \in Seq(Letters)
  PROVE  /\ Continues(t, t \o u)
         /\ Len(t \o u) = Len(t) + Len(u)
         /\ Scanner!OccursAt(t \o u, u, Len(t) + 1)
<1> DEFINE a == Len(t)
           b == Len(u)
           v == t \o u
<1>1. a \in Nat /\ b \in Nat
  BY LenProperties
<1>2. Len(v) = a + b /\ \A i \in 1 .. a + b : v[i] = IF i <= a THEN t[i] ELSE u[i - a]
  BY ConcatProperties
<1> HIDE DEF a, b, v
<1>3. Len(v) = a + b /\ a <= a + b /\ \A i \in 1 .. a : v[i] = t[i]
  BY <1>1, <1>2
<1>4. \A k \in 1 .. b : v[a + 1 + k - 1] = u[k]
  <2> SUFFICES ASSUME NEW k \in 1 .. b PROVE v[a + 1 + k - 1] = u[k]
    OBVIOUS
  <2> DEFINE e == a + 1 + k - 1
  <2>1. e \in 1 .. a + b /\ ~ (e <= a) /\ e - a = k
    BY <1>1
  <2> HIDE DEF e
  <2>2. v[e] = u[k]
    BY <1>2, <2>1
  <2> QED BY <2>2 DEF e
<1>5. a + 1 + b - 1 <= a + b
  BY <1>1
<1>6. Continues(t, v)
  BY <1>1, <1>3 DEF Continues, a
<1>7. Scanner!OccursAt(v, u, a + 1)
  BY <1>3, <1>4, <1>5 DEF Scanner!OccursAt, b
<1> QED BY <1>3, <1>6, <1>7 DEF a, b, v

LEMMA Appended ==
  ASSUME NEW t \in Seq(Letters), NEW x \in Letters
  PROVE  Continues(t, Append(t, x)) /\ Len(Append(t, x)) = Len(t) + 1 /\ Append(t, x)[Len(t) + 1] = x
<1>1. Len(t) \in Nat
  BY LenProperties
<1> QED BY <1>1, AppendProperties DEF Continues

(* The places of old in s where a turn finds a match, not inside one.      *)
Begins(f, s, old) == {i \in 1 .. Len(s) : Scanner!OccursAt(s, old, i) /\ f[i - 1].next <= i}

Far(M, old, new, i) == Shift(M, Len(new) - Len(old), i)

LEMMA FarIs ==
  ASSUME NEW n \in Nat, NEW M, PlacesOf(M, n), NEW old, NEW new, Len(old) \in Nat, Len(new) \in Nat
  PROVE  Far(M, old, new, 1) = 0 /\ \A i \in Int : Far(M, old, new, i) \in Int
<1> DEFINE d == Len(new) - Len(old)
<1>1. d \in Int /\ \A i : Far(M, old, new, i) = Shift(M, d, i)
  BY DEF Far
<1> HIDE DEF d
<1>2. Shift(M, d, 1) = 0
  BY <1>1, ShiftIs
<1>3. ASSUME NEW i \in Int
      PROVE  Far(M, old, new, i) \in Int
  <2>1. Shift(M, d, i) \in Int
    BY <1>1, ShiftIs
  <2> QED BY <1>1, <2>1
<1> QED BY <1>1, <1>2, <1>3

LEMMA FarBehind ==
  ASSUME NEW n \in Nat, NEW M, PlacesOf(M, n), NEW old, NEW new, Len(old) \in Nat, Len(new) \in Nat,
         NEW i \in 1 .. n
  PROVE  Far(M, old, new, i + 1) =
           IF i \in M THEN Far(M, old, new, i) + (Len(new) - Len(old)) ELSE Far(M, old, new, i)
<1> DEFINE d == Len(new) - Len(old)
<1>1. d \in Int /\ \A j : Far(M, old, new, j) = Shift(M, d, j)
  BY DEF Far
<1> HIDE DEF d
<1>2. i \in M => Shift(M, d, i + 1) = Shift(M, d, i) + d
  BY <1>1, ShiftIs
<1>3. i \notin M => Shift(M, d, i + 1) = Shift(M, d, i)
  BY <1>1, ShiftIs
<1> QED BY <1>1, <1>2, <1>3 DEF d

Within(i, j, old) == j < i /\ i < j + Len(old)

(* Behind turn k: where the search is, and ...                             *)
Searched(acc, k, M, n, old) ==
  /\ acc.next \in Int /\ k + 1 <= acc.next /\ acc.next <= n + 1
  /\ \A j \in M : j <= k => j + Len(old) <= acc.next
  /\ acc.next > k + 1 => \E j \in M : j <= k /\ acc.next = j + Len(old)

(* ... what has been written: the matches' replacements, and the rest.      *)
Rests(t, k, M, s, old, new) ==
  /\ \A j \in M : j <= k => /\ j + Far(M, old, new, j) >= 1
                            /\ Scanner!OccursAt(t, new, j + Far(M, old, new, j))
  /\ \A j \in 1 .. k : j \notin M /\ (\A m \in M : ~Within(j, m, old)) =>
       /\ j + Far(M, old, new, j) \in 1 .. Len(t)
       /\ t[j + Far(M, old, new, j)] = s[j]

Written(acc, k, M, s, old, new) ==
  /\ Len(acc.out) = acc.next - 1 + Far(M, old, new, k + 1)
  /\ Rests(acc.out, k, M, s, old, new)

(* What was written stays written.                                         *)
LEMMA WrittenStays ==
  ASSUME NEW t, NEW u, Continues(t, u), NEW M, M \subseteq Nat, NEW s, NEW old, NEW new,
         Len(new) \in Nat, \A j \in Int : Far(M, old, new, j) \in Int,
         NEW k \in Nat, Rests(t, k, M, s, old, new)
  PROVE  Rests(u, k, M, s, old, new)
<1>1. ASSUME NEW j \in M, j <= k
      PROVE  /\ j + Far(M, old, new, j) >= 1
             /\ Scanner!OccursAt(u, new, j + Far(M, old, new, j))
  <2> DEFINE i == j + Far(M, old, new, j)
  <2>0. i \in Int
    <3>1. j \in Int /\ Far(M, old, new, j) \in Int
      OBVIOUS
    <3> QED BY <3>1
  <2>1. i >= 1 /\ Scanner!OccursAt(t, new, i)
    BY <1>1 DEF Rests
  <2> HIDE DEF i
  <2>2. Scanner!OccursAt(u, new, i)
    BY <2>0, <2>1, StaysThere
  <2> QED BY <2>1, <2>2 DEF i
<1>2. ASSUME NEW j \in 1 .. k, j \notin M, \A m \in M : ~Within(j, m, old)
      PROVE  /\ j + Far(M, old, new, j) \in 1 .. Len(u)
             /\ u[j + Far(M, old, new, j)] = s[j]
  <2> DEFINE i == j + Far(M, old, new, j)
  <2>1. i \in 1 .. Len(t) /\ t[i] = s[j]
    BY <1>2 DEF Rests
  <2> HIDE DEF i
  <2>2. i \in 1 .. Len(u) /\ u[i] = s[j]
    BY <2>1 DEF Continues
  <2> QED BY <2>2 DEF i
<1> QED BY <1>1, <1>2 DEF Rests

(* One turn of the search keeps both.                                      *)
LEMMA TurnKeeps ==
  ASSUME NEW s \in Seq(Letters), NEW old \in Seq(Letters), NEW new \in Seq(Letters), old # << >>,
         NEW f \in [0 .. Len(s) -> Progress], NEW i \in 1 .. Len(s),
         f[i] = Turn(s, old, new, f[i - 1], i),
         Searched(f[i - 1], i - 1, Begins(f, s, old), Len(s), old),
         Written(f[i - 1], i - 1, Begins(f, s, old), s, old, new)
  PROVE  /\ Searched(f[i], i, Begins(f, s, old), Len(s), old)
         /\ Written(f[i], i, Begins(f, s, old), s, old, new)
<1> DEFINE n == Len(s)
           l == Len(old)
           M == Begins(f, s, old)
           was == f[i - 1]
           is == f[i]
           far(j) == Far(M, old, new, j)
<1>0. n \in Nat /\ l \in Nat /\ Len(new) \in Nat /\ l >= 1 /\ s[i] \in Letters
  BY LenProperties, ElementOfSeq, EmptySeq
<1>1. was \in Progress /\ was.out \in Seq(Letters) /\ was.next \in Int /\ Len(was.out) \in Nat
  <2>1. i - 1 \in 0 .. n
    BY <1>0
  <2>2. was \in Progress
    BY <2>1
  <2>3. was.out \in Seq(Letters) /\ was.next \in Int
    BY <2>2 DEF Progress
  <2> QED BY <2>2, <2>3, LenProperties
<1>2. M \subseteq 1 .. n /\ (i \in M <=> Scanner!OccursAt(s, old, i) /\ was.next <= i)
  BY DEF Begins
<1>3. /\ \A j \in Int : far(j) \in Int
      /\ i \in M => far(i + 1) = far(i) + (Len(new) - l)
      /\ i \notin M => far(i + 1) = far(i)
  <2>0. PlacesOf(M, n)
    BY <1>2 DEF PlacesOf
  <2> HIDE DEF n, M
  <2>1. i \in 1 .. n /\ Len(old) \in Nat
    BY <1>0 DEF n, l
  <2>2. ASSUME NEW j \in Int
        PROVE  Far(M, old, new, j) \in Int
    BY <1>0, <2>0, <2>1, FarIs
  <2>3. far(i + 1) = IF i \in M THEN far(i) + (Len(new) - Len(old)) ELSE far(i)
    BY <1>0, <2>0, <2>1, FarBehind
  <2> QED BY <2>2, <2>3 DEF l
<1>4. Searched(was, i - 1, M, n, old) /\ Written(was, i - 1, M, s, old, new)
  OBVIOUS
<1>5. is = Turn(s, old, new, was, i)
  OBVIOUS
<1> HIDE DEF n, l, M, was, is
<1>6. i \in 1 .. n /\ (i - 1) + 1 = i /\ i - 1 \in Nat
  BY <1>0 DEF n
<1>7. \A j \in M : j \in Int /\ (j <= i <=> j <= i - 1 \/ j = i)
  BY <1>2, <1>6
<1>8. /\ i <= was.next /\ was.next <= n + 1
      /\ \A j \in M : j <= i - 1 => j + l <= was.next
      /\ was.next > i => \E j \in M : j <= i - 1 /\ was.next = j + l
  BY <1>4, <1>6 DEF Searched, l
<1>9. Len(was.out) = was.next - 1 + far(i) /\ Rests(was.out, i - 1, M, s, old, new)
  BY <1>4, <1>6 DEF Written
<1>10. ASSUME Continues(was.out, is.out)
       PROVE  Rests(is.out, i - 1, M, s, old, new)
  <2>1. M \subseteq Nat
    BY <1>0, <1>2
  <2> QED BY <1>0, <1>3, <1>6, <1>9, <1>10, <2>1, WrittenStays
<1>11. CASE i < was.next
  <2>1. is = was /\ i \notin M
    BY <1>1, <1>2, <1>5, <1>6, <1>11 DEF Turn
  <2>2. PICK m \in M : m <= i - 1 /\ was.next = m + l
    BY <1>8, <1>11
  <2>3. Within(i, m, old)
    BY <1>6, <1>7, <1>11, <2>2 DEF Within, l
  <2>4. Searched(is, i, M, n, old)
    <3>1. i + 1 <= was.next
      BY <1>1, <1>6, <1>11
    <3>2. \A j \in M : j <= i => j + l <= was.next
      BY <1>7, <1>8, <2>1
    <3>3. \E j \in M : j <= i /\ was.next = j + l
      BY <1>7, <2>2
    <3> QED BY <1>1, <1>8, <2>1, <3>1, <3>2, <3>3 DEF Searched, l
  <2>5. Written(is, i, M, s, old, new)
    <3>1. Len(is.out) = is.next - 1 + far(i + 1)
      BY <1>3, <1>9, <2>1
    <3>2. \A j \in M : j <= i => j + far(j) >= 1 /\ Scanner!OccursAt(is.out, new, j + far(j))
      BY <1>7, <1>9, <2>1 DEF Rests
    <3>3. ASSUME NEW j \in 1 .. i, j \notin M, \A e \in M : ~Within(j, e, old)
          PROVE  j + far(j) \in 1 .. Len(is.out) /\ is.out[j + far(j)] = s[j]
      <4>1. j # i
        BY <2>3, <3>3
      <4>2. j \in 1 .. i - 1
        BY <1>6, <4>1
      <4> QED BY <1>9, <2>1, <3>3, <4>2 DEF Rests
    <3> QED BY <3>1, <3>2, <3>3 DEF Written, Rests
  <2> QED BY <2>4, <2>5 DEF M, n, is
<1>12. CASE ~ (i < was.next) /\ Scanner!OccursAt(s, old, i)
  <2>1. was.next = i /\ i \in M
    BY <1>1, <1>2, <1>6, <1>8, <1>12
  <2>2. is.out = was.out \o new /\ is.next = i + l
    BY <1>5, <1>12 DEF Turn, l
  <2>3. /\ Continues(was.out, is.out) /\ Len(is.out) = Len(was.out) + Len(new)
        /\ Scanner!OccursAt(is.out, new, Len(was.out) + 1)
    BY <1>1, <2>2, Joined
  <2>4. Len(was.out) = i - 1 + far(i) /\ far(i) \in Int
    BY <1>3, <1>6, <1>9, <2>1
  <2>5. Searched(is, i, M, n, old)
    <3>1. i + l - 1 <= n
      BY <1>12 DEF Scanner!OccursAt, l, n
    <3>2. \A j \in M : j <= i => j + l <= is.next
      BY <1>0, <1>6, <1>7, <1>8, <2>1, <2>2 DEF l
    <3>3. is.next \in Int /\ i + 1 <= is.next /\ is.next <= n + 1
      BY <1>0, <1>6, <2>2, <3>1 DEF l, n
    <3>4. \E j \in M : j <= i /\ is.next = j + l
      BY <1>6, <2>1, <2>2
    <3> QED BY <3>2, <3>3, <3>4 DEF Searched, l
  <2>6. Written(is, i, M, s, old, new)
    <3>1. Len(is.out) = is.next - 1 + far(i + 1)
      <4>1. far(i + 1) = far(i) + (Len(new) - l)
        BY <1>3, <2>1
      <4> HIDE DEF far
      <4> QED BY <1>0, <1>6, <2>2, <2>3, <2>4, <4>1 DEF l
    <3>2. i + far(i) = Len(was.out) + 1 /\ i + far(i) >= 1
      <4> HIDE DEF far
      <4> QED BY <1>1, <1>6, <2>4
    <3>3. \A j \in M : j <= i => j + far(j) >= 1 /\ Scanner!OccursAt(is.out, new, j + far(j))
      BY <1>7, <1>10, <2>3, <3>2 DEF Rests
    <3>4. ASSUME NEW j \in 1 .. i, j \notin M, \A e \in M : ~Within(j, e, old)
          PROVE  j + far(j) \in 1 .. Len(is.out) /\ is.out[j + far(j)] = s[j]
      <4>1. j \in 1 .. i - 1
        BY <1>6, <2>1, <3>4
      <4> QED BY <1>10, <2>3, <3>4, <4>1 DEF Rests
    <3> QED BY <3>1, <3>3, <3>4 DEF Written, Rests
  <2> QED BY <2>5, <2>6 DEF M, n, is
<1>13. CASE ~ (i < was.next) /\ ~Scanner!OccursAt(s, old, i)
  <2>1. was.next = i /\ i \notin M
    BY <1>1, <1>2, <1>6, <1>8, <1>13
  <2>2. is.out = Append(was.out, s[i]) /\ is.next = i + 1
    BY <1>5, <1>13 DEF Turn
  <2>3. /\ Continues(was.out, is.out) /\ Len(is.out) = Len(was.out) + 1
        /\ is.out[Len(was.out) + 1] = s[i]
    BY <1>0, <1>1, <2>2, Appended
  <2>4. Len(was.out) = i - 1 + far(i) /\ far(i) \in Int
    BY <1>3, <1>6, <1>9, <2>1
  <2>5. Searched(is, i, M, n, old)
    <3>1. \A j \in M : j <= i => j + l <= is.next
      <4>1. \A j \in M : j <= i => j + l <= i
        BY <1>7, <1>8, <2>1
      <4> QED BY <1>0, <1>6, <1>7, <2>2, <4>1 DEF l
    <3>2. is.next \in Int /\ i + 1 <= is.next /\ is.next <= n + 1 /\ ~ (is.next > i + 1)
      BY <1>0, <1>6, <2>2 DEF n
    <3> QED BY <3>1, <3>2 DEF Searched, l
  <2>6. Written(is, i, M, s, old, new)
    <3>1. Len(is.out) = is.next - 1 + far(i + 1)
      <4>1. far(i + 1) = far(i)
        BY <1>3, <2>1
      <4> HIDE DEF far
      <4> QED BY <1>6, <2>2, <2>3, <2>4, <4>1
    <3>2. i + far(i) = Len(was.out) + 1
      <4> HIDE DEF far
      <4> QED BY <1>1, <1>6, <2>4
    <3>3. \A j \in M : j <= i => j + far(j) >= 1 /\ Scanner!OccursAt(is.out, new, j + far(j))
      BY <1>7, <1>10, <2>1, <2>3 DEF Rests
    <3>4. ASSUME NEW j \in 1 .. i, j \notin M, \A e \in M : ~Within(j, e, old)
          PROVE  j + far(j) \in 1 .. Len(is.out) /\ is.out[j + far(j)] = s[j]
      <4>1. CASE j = i
        <5> HIDE DEF far
        <5>1. Len(was.out) + 1 \in 1 .. Len(is.out)
          BY <1>1, <2>3
        <5> QED BY <2>3, <3>2, <4>1, <5>1
      <4>2. CASE j # i
        <5>1. j \in 1 .. i - 1
          BY <1>6, <4>2
        <5> QED BY <1>10, <2>3, <3>4, <5>1 DEF Rests
      <4> QED BY <4>1, <4>2
    <3> QED BY <3>1, <3>3, <3>4 DEF Written, Rests
  <2> QED BY <2>5, <2>6 DEF M, n, is
<1> QED BY <1>11, <1>12, <1>13

LEMMA TurnsKeep ==
  ASSUME NEW s \in Seq(Letters), NEW old \in Seq(Letters), NEW new \in Seq(Letters), old # << >>,
         NEW f \in [0 .. Len(s) -> Progress], f[0] = [out |-> << >>, next |-> 1],
         \A i \in 1 .. Len(s) : f[i] = Turn(s, old, new, f[i - 1], i),
         NEW k \in 0 .. Len(s)
  PROVE  /\ Searched(f[k], k, Begins(f, s, old), Len(s), old)
         /\ Written(f[k], k, Begins(f, s, old), s, old, new)
<1> DEFINE n == Len(s)
           M == Begins(f, s, old)
           Both(i) == Searched(f[i], i, M, n, old) /\ Written(f[i], i, M, s, old, new)
           T == {i \in Nat : i <= n => Both(i)}
<1>0. n \in Nat /\ Len(old) \in Nat /\ Len(new) \in Nat
  BY LenProperties
<1>1. 0 \in T
  <2>1. M \subseteq 1 .. n
    BY DEF Begins
  <2>2. PlacesOf(M, n)
    BY <2>1 DEF PlacesOf
  <2>3. \A j \in M : ~ (j <= 0)
    BY <2>1
  <2> DEFINE acc == f[0]
  <2>4. acc.out = << >> /\ acc.next = 1 /\ Len(acc.out) = 0
    OBVIOUS
  <2> HIDE DEF n, M, acc
  <2>5. Far(M, old, new, 1) = 0
    BY <1>0, <2>2, FarIs
  <2>6. Searched(acc, 0, M, n, old)
    BY <1>0, <2>3, <2>4 DEF Searched
  <2>7. Written(acc, 0, M, s, old, new)
    BY <2>3, <2>4, <2>5 DEF Written, Rests
  <2> QED BY <2>6, <2>7 DEF acc
<1>2. ASSUME NEW i \in Nat, i \in T
      PROVE  i + 1 \in T
  <2> SUFFICES ASSUME i + 1 <= n PROVE Both(i + 1)
    OBVIOUS
  <2> DEFINE e == i + 1
  <2>1. e \in 1 .. n /\ e - 1 = i /\ Both(i)
    BY <1>0, <1>2
  <2>2. Both(e - 1) /\ f[e] = Turn(s, old, new, f[e - 1], e)
    BY <2>1
  <2> HIDE DEF e
  <2>3. Searched(f[e], e, M, n, old) /\ Written(f[e], e, M, s, old, new)
    BY <2>1, <2>2, TurnKeeps
  <2> QED BY <2>3 DEF e
<1> HIDE DEF T
<1>3. Nat \subseteq T
  BY <1>1, <1>2, Induction
<1>4. k \in Nat /\ k <= n
  BY <1>0
<1> QED BY <1>3, <1>4 DEF T

(* What StringUtil's replace() makes of a string of any length: matches    *)
(* are replaced from the left, and everything between them stays.          *)
LEMMA Replacing ==
  ASSUME NEW s \in Seq(Letters), NEW old \in Seq(Letters), NEW new \in Seq(Letters), old # << >>
  PROVE  LET M == Begins(Turned(s, old, new), s, old)
             text == Scanner!Replaced(s, old, new)
         IN /\ M \subseteq {i \in 1 .. Len(s) : Scanner!OccursAt(s, old, i)}
            /\ \A i \in 1 .. Len(s) : Scanner!OccursAt(s, old, i) =>
                 (i \notin M <=> \E j \in M : Within(i, j, old))
            /\ Len(text) = Len(s) + Far(M, old, new, Len(s) + 1)
            /\ \A i \in M : Scanner!OccursAt(text, new, i + Far(M, old, new, i))
            /\ \A i \in (1 .. Len(s)) \ M :
                 (\A j \in M : ~Within(i, j, old)) => text[i + Far(M, old, new, i)] = s[i]
<1> DEFINE n == Len(s)
           f == Turned(s, old, new)
           M == Begins(f, s, old)
           text == Scanner!Replaced(s, old, new)
<1>0. n \in Nat /\ Len(old) \in Nat
  BY LenProperties
<1>1. M \subseteq 1 .. n /\ \A i \in 1 .. n : i \in M <=> Scanner!OccursAt(s, old, i) /\ f[i - 1].next <= i
  BY DEF Begins
<1>2. /\ f \in [0 .. n -> Progress] /\ f[0] = [out |-> << >>, next |-> 1]
      /\ \A i \in 1 .. n : f[i] = Turn(s, old, new, f[i - 1], i)
  BY TurnedIs
<1>3. text = f[n].out
  BY ReplacedIs
<1> HIDE DEF f
<1>4. ASSUME NEW k \in 0 .. n
      PROVE  Searched(f[k], k, M, n, old) /\ Written(f[k], k, M, s, old, new)
  BY <1>2, TurnsKeep
<1> HIDE DEF n, M, text
<1>5. ASSUME NEW i \in 1 .. n, Scanner!OccursAt(s, old, i)
      PROVE  i \notin M <=> \E j \in M : Within(i, j, old)
  <2> DEFINE acc == f[i - 1]
  <2>1. i - 1 \in 0 .. n /\ (i - 1) + 1 = i
    BY <1>0
  <2>2. Searched(acc, i - 1, M, n, old)
    BY <1>4, <2>1
  <2>3. i \in M <=> acc.next <= i
    BY <1>1, <1>5
  <2> HIDE DEF acc
  <2>4. /\ acc.next \in Int
        /\ \A j \in M : j <= i - 1 => j + Len(old) <= acc.next
        /\ acc.next > i => \E j \in M : j <= i - 1 /\ acc.next = j + Len(old)
    BY <2>1, <2>2 DEF Searched
  <2>5. ASSUME i \notin M
        PROVE  \E j \in M : Within(i, j, old)
    <3>1. acc.next > i
      BY <2>3, <2>4, <2>5
    <3>2. PICK j \in M : j <= i - 1 /\ acc.next = j + Len(old)
      BY <2>4, <3>1
    <3> QED BY <1>1, <3>1, <3>2 DEF Within
  <2>6. ASSUME NEW j \in M, Within(i, j, old)
        PROVE  i \notin M
    <3>1. j <= i - 1 /\ i < j + Len(old) /\ j \in Int
      BY <1>1, <2>6 DEF Within
    <3>2. j + Len(old) <= acc.next
      BY <2>4, <3>1
    <3> QED BY <1>0, <2>3, <2>4, <3>1, <3>2
  <2> QED BY <2>5, <2>6
<1>6. Searched(f[n], n, M, n, old) /\ Written(f[n], n, M, s, old, new)
  <2>1. n \in 0 .. n
    BY <1>0
  <2> QED BY <1>4, <2>1
<1> DEFINE end == f[n].next
<1>7. /\ end \in Int /\ n + 1 <= end /\ end <= n + 1
      /\ Len(text) = end - 1 + Far(M, old, new, n + 1) /\ Rests(text, n, M, s, old, new)
  BY <1>3, <1>6 DEF Searched, Written
<1>8. end - 1 = n
  <2> HIDE DEF end
  <2> QED BY <1>0, <1>7
<1>9. Len(text) = n + Far(M, old, new, n + 1)
  BY <1>7, <1>8
<1>10. \A i \in M : Scanner!OccursAt(text, new, i + Far(M, old, new, i))
  <2>1. M \subseteq 1 .. n
    BY <1>1
  <2>2. \A i \in 1 .. n : i <= n
    BY <1>0
  <2> QED BY <1>7, <2>1, <2>2 DEF Rests
<1>11. \A i \in (1 .. n) \ M :
         (\A j \in M : ~Within(i, j, old)) => text[i + Far(M, old, new, i)] = s[i]
  BY <1>7 DEF Rests
<1>12. M \subseteq {i \in 1 .. n : Scanner!OccursAt(s, old, i)}
  BY <1>1
<1> QED BY <1>5, <1>9, <1>10, <1>11, <1>12 DEF n, f, M, text

(* replace() replaces every occurrence that does not begin inside an       *)
(* earlier one and leaves the rest as it is: for strings of any length.    *)
THEOREM ReplacesAllMatchesAlways == Spec => ReplacesAllMatches
<1>1. TextInv => Scanner!MatchesReplaced
  <2> SUFFICES ASSUME TextInv, NEW old \in Fragments, NEW new \in Fragments,
                      old # << >>, Scanner!Replace(old, new)
               PROVE  \E M \in SUBSET {i \in 1 .. Len(str) : Scanner!OccursAt(str, old, i)} :
                        LET shift(i) == Scanner!Cardinality({j \in M : j < i}) * (Len(new) - Len(old)) IN
                        /\ \A i \in {e \in 1 .. Len(str) : Scanner!OccursAt(str, old, e)} :
                             i \notin M <=> \E j \in M : j < i /\ i < j + Len(old)
                        /\ Len(str') = Len(str) + shift(Len(str) + 1)
                        /\ \A i \in M : Scanner!OccursAt(str', new, i + shift(i))
                        /\ \A i \in (1 .. Len(str)) \ M :
                             (\A j \in M : ~ (j < i /\ i < j + Len(old))) => str'[i + shift(i)] = str[i]
    BY DEF Scanner!MatchesReplaced
  <2>1. str \in Seq(Letters) /\ old \in Seq(Letters) /\ new \in Seq(Letters)
    BY TextsAre DEF TextInv
  <2>2. str' = Scanner!Replaced(str, old, new)
    BY DEF Scanner!Replace
  <2> DEFINE M == Begins(Turned(str, old, new), str, old)
  <2>3. /\ M \subseteq {i \in 1 .. Len(str) : Scanner!OccursAt(str, old, i)}
        /\ \A i \in 1 .. Len(str) : Scanner!OccursAt(str, old, i) =>
             (i \notin M <=> \E j \in M : Within(i, j, old))
        /\ Len(str') = Len(str) + Far(M, old, new, Len(str) + 1)
        /\ \A i \in M : Scanner!OccursAt(str', new, i + Far(M, old, new, i))
        /\ \A i \in (1 .. Len(str)) \ M :
             (\A j \in M : ~Within(i, j, old)) => str'[i + Far(M, old, new, i)] = str[i]
    BY <2>1, <2>2, Replacing
  <2> HIDE DEF M
  <2>4. \A i : Scanner!Cardinality({j \in M : j < i}) * (Len(new) - Len(old)) = Far(M, old, new, i)
    BY SameCount DEF Far, Shift
  <2>5. M \in SUBSET {i \in 1 .. Len(str) : Scanner!OccursAt(str, old, i)}
    BY <2>3
  <2> USE <2>5
  <2> WITNESS M \in SUBSET {i \in 1 .. Len(str) : Scanner!OccursAt(str, old, i)}
  <2> QED BY <2>3, <2>4 DEF Within
<1>2. Spec => [][Scanner!MatchesReplaced]_str
  BY <1>1, TextInvAlways, PTL DEF Spec
<1> QED BY <1>2, PTL DEF ReplacesAllMatches, Scanner!ReplacesAllMatches
================================================================================
