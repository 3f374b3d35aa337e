------------------------------ MODULE ToolsProofs ------------------------------
(***************************************************************************)
(* Proofs about the parts of the library that share no state, for any      *)
(* number of objects, pages, instances, threads and instructions: unique   *)
(* objects, thunks, bound member functions, deep pointers, assembler and   *)
(* the machine code, which is followed instruction by instruction.         *)
(* Each theorem asks for the promises of the client it needs, if any.      *)
(***************************************************************************)
EXTENDS Tools, SequenceTheorems, TLAPS

(* A behaviour uses one tool: of each of them a step is a step of its own  *)
(* or none.                                                                *)
LEMMA OneToolAtATime ==
  ASSUME [Next]_vars
  PROVE  /\ Uniques!Next \/ UNCHANGED uniqueVars
         /\ Thunks!Next \/ UNCHANGED thunkVars
         /\ Callbacks!Next \/ UNCHANGED callbackVars
         /\ Pointers!Next \/ UNCHANGED pointerVars
         /\ Asm!Next \/ UNCHANGED asmVars
         /\ Streams!Next \/ UNCHANGED streamVars
         /\ Headers!Next \/ UNCHANGED headerVars
         /\ Imports!Advance \/ UNCHANGED importVars
         /\ Scanner!ScannerNext \/ UNCHANGED textVars
         /\ Guards!Next \/ UNCHANGED guardVars
<1>1. ASSUME UNCHANGED objectVars
      PROVE  UNCHANGED <<uniqueVars, thunkVars, callbackVars, guardVars>>
  BY <1>1 DEF objectVars
<1>2. ASSUME UNCHANGED imageVars
      PROVE  UNCHANGED <<textVars, headerVars, importVars>>
  BY <1>2 DEF imageVars
<1>3. CASE PointerStep \/ StreamStep
  BY <1>1, <1>2, <1>3 DEF PointerStep, StreamStep
<1>4. CASE CallbackStep \/ UniqueStep \/ ThunkStep \/ GuardStep
  BY <1>2, <1>4 DEF CallbackStep, UniqueStep, ThunkStep, GuardStep
<1>5. CASE TextStep \/ HeaderStep \/ ImportStep
  BY <1>1, <1>5 DEF TextStep, HeaderStep, ImportStep
<1>6. CASE AsmStep \/ CodeStep
  BY <1>1, <1>2, <1>6 DEF AsmStep, CodeStep
<1>7. CASE UNCHANGED vars
  BY <1>1, <1>2, <1>7 DEF vars
<1> QED BY <1>3, <1>4, <1>5, <1>6, <1>7 DEF Next

-----------------------------------------------------------------------------
(* Unique objects: those that were not moved from are those whose lock     *)
(* owns the mutex, and there is at most one.                               *)
UniqueInv ==
  /\ hollow \subseteq uniques
  /\ owns = uniques \ hollow
  /\ locked \in BOOLEAN
  /\ locked <=> owns # {}
  /\ \A a, b \in owns : a = b

LEMMA UniqueStepKeeps ==
  ASSUME UniqueInv, Uniques!Next
  PROVE  UniqueInv'
<1>1. ASSUME NEW o \in Objects, Uniques!Construct(o)
      PROVE  UniqueInv'
  BY <1>1 DEF UniqueInv, Uniques!Construct
<1>2. ASSUME NEW o \in Objects, Uniques!Destroy(o)
      PROVE  UniqueInv'
  BY <1>2 DEF UniqueInv, Uniques!Destroy
<1>3. ASSUME NEW d \in Objects, NEW s \in Objects, Uniques!MoveConstruct(d, s)
      PROVE  UniqueInv'
  BY <1>3 DEF UniqueInv, Uniques!MoveConstruct, Uniques!Moved
<1>4. ASSUME NEW d \in Objects, NEW s \in Objects, Uniques!MoveAssign(d, s)
      PROVE  UniqueInv'
  <2>1. CASE d = s
    BY <1>4, <2>1 DEF UniqueInv, Uniques!MoveAssign, Uniques!vars
  <2>2. CASE d # s
    <3>1. /\ {d, s} \subseteq uniques /\ uniques' = uniques
          /\ locked' = (locked /\ d \notin owns)
          /\ owns' = IF s \in owns THEN (owns \ {s}) \cup {d} ELSE owns \ {d}
          /\ hollow' = (hollow \ {d}) \cup {s} \cup (IF s \in hollow THEN {d} ELSE {})
      BY <1>4, <2>2 DEF Uniques!MoveAssign, Uniques!Moved
    <3>2. CASE s \in owns
      BY <2>2, <3>1, <3>2 DEF UniqueInv
    <3>3. CASE s \notin owns
      <4>1. s \in hollow /\ owns' = owns \ {d} /\ hollow' = hollow \cup {d}
        BY <3>1, <3>3 DEF UniqueInv
      <4> QED BY <3>1, <4>1 DEF UniqueInv
    <3> QED BY <3>2, <3>3
  <2> QED BY <2>1, <2>2
<1> QED BY <1>1, <1>2, <1>3, <1>4 DEF Uniques!Next

(* Of all objects of a Unique class at most one has not been moved from,   *)
(* and the mutex is held exactly as long as there is one (the constructor  *)
(* and the moves of Unique).                                               *)
THEOREM OneInstanceAlways ==
  Spec => []OneInstance
<1>1. Init => UniqueInv
  <2>1. Init => Uniques!Init
    BY Zenon DEF Init
  <2> QED BY <2>1 DEF Uniques!Init, UniqueInv
<1>2. UniqueInv /\ [Next]_vars => UniqueInv'
  BY OneToolAtATime, UniqueStepKeeps DEF UniqueInv, uniqueVars
<1>3. UniqueInv => OneInstance
  BY DEF UniqueInv, OneInstance, Uniques!OneInstance
<1> QED BY <1>1, <1>2, <1>3, PTL DEF Spec
-----------------------------------------------------------------------------
(* Thunks: every mapped page has exactly one owner, which is alive.        *)
PagesOwned ==
  /\ page \in [Objects -> Pages \cup {Null}]
  /\ content \in [Pages -> Instances \cup {Zeros}]
  /\ means \in [Objects -> Instances \cup {Null}]
  /\ mapped \subseteq Pages
  /\ \A o \in Objects : page[o] # Null =>
       /\ o \in thunks /\ page[o] \in mapped
       /\ \A q \in Objects \ {o} : page[q] # page[o]
  /\ \A p \in mapped : \E o \in Objects : page[o] = p

(* A thunk that should call an instance has a page that does.              *)
MeansWhatItCalls ==
  \A o \in Objects : means[o] # Null => page[o] # Null /\ content[page[o]] = means[o]

(* What the operations on thunks have in common: d gets the page p, or     *)
(* none, and its old page is freed.                                        *)
LEMMA PageReplaced ==
  ASSUME PagesOwned, NEW d \in Objects, NEW p \in Pages, p \notin mapped,
         page' = [page EXCEPT ![d] = p],
         mapped' = (mapped \ {page[d]}) \cup {p},
         thunks' = thunks \cup {d},
         content' \in [Pages -> Instances \cup {Zeros}],
         means' \in [Objects -> Instances \cup {Null}]
  PROVE  PagesOwned'
<1>1. page'[d] = p /\ \A o \in Objects \ {d} : page'[o] = page[o]
  BY DEF PagesOwned
<1>2. page' \in [Objects -> Pages \cup {Null}] /\ mapped' \subseteq Pages
  BY DEF PagesOwned
<1>3. ASSUME NEW o \in Objects, page'[o] # Null
      PROVE  /\ o \in thunks' /\ page'[o] \in mapped'
             /\ \A q \in Objects \ {o} : page'[q] # page'[o]
  <2>1. CASE o = d
    <3>1. \A q \in Objects \ {d} : page[q] # p
      BY ToolsAssumption DEF PagesOwned
    <3> QED BY <1>1, <2>1, <3>1
  <2>2. CASE o # d
    <3>1. /\ page'[o] = page[o] /\ o \in thunks /\ page[o] \in mapped
          /\ \A q \in Objects \ {o} : page[q] # page[o]
      BY <1>1, <1>3, <2>2 DEF PagesOwned
    <3> QED BY <1>1, <2>2, <3>1
  <2> QED BY <2>1, <2>2
<1>4. ASSUME NEW q \in mapped'
      PROVE  \E o \in Objects : page'[o] = q
  <2>1. CASE q = p
    BY <1>1, <2>1
  <2>2. CASE q # p
    <3>1. q \in mapped /\ q # page[d]
      BY <1>4, <2>2
    <3>2. PICK o \in Objects : page[o] = q
      BY <3>1 DEF PagesOwned
    <3> QED BY <1>1, <3>1, <3>2
  <2> QED BY <2>1, <2>2
<1> QED BY <1>2, <1>3, <1>4 DEF PagesOwned

LEMMA ThunkConstruct ==
  ASSUME PagesOwned, NEW o \in Objects, NEW i \in Instances, NEW p \in Pages,
         Thunks!Construct(o, i, p)
  PROVE  PagesOwned' /\ (MeansWhatItCalls => MeansWhatItCalls')
<1>1. /\ o \notin thunks /\ p \notin mapped
      /\ content' = [content EXCEPT ![p] = i]
  BY DEF Thunks!Construct
<1>2. /\ content' \in [Pages -> Instances \cup {Zeros}]
      /\ content'[p] = i /\ \A q \in Pages \ {p} : content'[q] = content[q]
  BY <1>1 DEF PagesOwned
<1>3. \A q \in Objects : page[q] # Null => page[q] \in Pages \ {p}
  BY <1>1 DEF PagesOwned
<1>4. CASE UNCHANGED <<page, mapped, thunks, means>>
  BY <1>2, <1>3, <1>4 DEF PagesOwned, MeansWhatItCalls
<1>5. CASE /\ page' = [page EXCEPT ![o] = p] /\ mapped' = mapped \cup {p}
           /\ thunks' = thunks \cup {o} /\ means' = [means EXCEPT ![o] = i]
  <2>1. page[o] = Null /\ mapped' = (mapped \ {page[o]}) \cup {p}
    BY <1>1, <1>5, ToolsAssumption DEF PagesOwned
  <2>2. PagesOwned'
    BY <1>1, <1>2, <1>5, <2>1, PageReplaced DEF PagesOwned
  <2>3. /\ page'[o] = p /\ means'[o] = i
        /\ \A q \in Objects \ {o} : page'[q] = page[q] /\ means'[q] = means[q]
    BY <1>5 DEF PagesOwned
  <2>4. MeansWhatItCalls => MeansWhatItCalls'
    BY <1>2, <1>3, <2>3, ToolsAssumption DEF MeansWhatItCalls
  <2> QED BY <2>2, <2>4
<1> QED BY <1>4, <1>5 DEF Thunks!Construct

(* A copy of another thunk has what that one has; a thunk copied to itself *)
(* is the one case where a page does not say what it should.               *)
LEMMA ThunkCopy ==
  ASSUME PagesOwned, NEW d \in Objects, NEW s \in Objects, NEW p \in Pages,
         NEW fails \in BOOLEAN, Thunks!Copy(d, s, p, fails)
  PROVE  /\ PagesOwned'
         /\ MeansWhatItCalls /\ "no_self_copy" \in ClientRules => MeansWhatItCalls'
<1>1. p \notin mapped /\ ("no_self_copy" \in ClientRules => d # s)
  BY DEF Thunks!Copy
<1>2. CASE page[s] = Null /\ d # s
  BY <1>2 DEF Thunks!Copy, PagesOwned, MeansWhatItCalls
<1>3. CASE ~(page[s] = Null /\ d # s)
  <2>1. /\ content' = [content EXCEPT ![p] = Thunks!Copied(d, s)]
        /\ \/ UNCHANGED <<page, mapped, thunks, means>>
           \/ /\ page' = [page EXCEPT ![d] = p]
              /\ mapped' = (mapped \ {page[d]}) \cup {p}
              /\ thunks' = thunks \cup {d}
              /\ means' = [means EXCEPT ![d] = means[s]]
    BY <1>3 DEF Thunks!Copy, Thunks!PagesAfterReset
  <2>2. Thunks!Copied(d, s) \in Instances \cup {Zeros} /\ (d # s => Thunks!Copied(d, s) = content[page[s]])
    BY <1>3 DEF Thunks!Copied, PagesOwned
  <2>3. /\ content' \in [Pages -> Instances \cup {Zeros}]
        /\ content'[p] = Thunks!Copied(d, s) /\ \A q \in Pages \ {p} : content'[q] = content[q]
    BY <2>1, <2>2 DEF PagesOwned
  <2>4. \A q \in Objects : page[q] # Null => page[q] \in Pages \ {p}
    BY <1>1 DEF PagesOwned
  <2>5. CASE UNCHANGED <<page, mapped, thunks, means>>
    BY <2>3, <2>4, <2>5 DEF PagesOwned, MeansWhatItCalls
  <2>6. CASE /\ page' = [page EXCEPT ![d] = p]
             /\ mapped' = (mapped \ {page[d]}) \cup {p}
             /\ thunks' = thunks \cup {d}
             /\ means' = [means EXCEPT ![d] = means[s]]
    <3>1. means' \in [Objects -> Instances \cup {Null}]
      BY <2>6 DEF PagesOwned
    <3>2. PagesOwned'
      BY <1>1, <2>3, <2>6, <3>1, PageReplaced
    <3>3. /\ page'[d] = p /\ means'[d] = means[s]
          /\ \A q \in Objects \ {d} : page'[q] = page[q] /\ means'[q] = means[q]
      BY <2>6 DEF PagesOwned
    <3>4. ASSUME MeansWhatItCalls, "no_self_copy" \in ClientRules
          PROVE  MeansWhatItCalls'
      <4> SUFFICES ASSUME NEW o \in Objects, means'[o] # Null
                   PROVE  page'[o] # Null /\ content'[page'[o]] = means'[o]
        BY DEF MeansWhatItCalls
      <4>1. CASE o = d
        <5>1. content'[p] = content[page[s]] /\ content[page[s]] = means[s]
          BY <1>1, <2>2, <2>3, <3>3, <3>4, <4>1 DEF MeansWhatItCalls
        <5> QED BY <3>3, <4>1, <5>1, ToolsAssumption
      <4>2. CASE o # d
        BY <2>3, <2>4, <3>3, <3>4, <4>2 DEF MeansWhatItCalls
      <4> QED BY <4>1, <4>2
    <3> QED BY <3>2, <3>4
  <2> QED BY <2>1, <2>5, <2>6
<1> QED BY <1>2, <1>3

LEMMA ThunkMove ==
  ASSUME PagesOwned, NEW d \in Objects, NEW s \in Objects, Thunks!Move(d, s)
  PROVE  PagesOwned' /\ (MeansWhatItCalls => MeansWhatItCalls')
<1>1. /\ d # s /\ s \in thunks
      /\ page' = [page EXCEPT ![d] = page[s], ![s] = Null]
      /\ mapped' = mapped \ {page[d]}
      /\ thunks' = thunks \cup {d}
      /\ means' = [means EXCEPT ![d] = means[s], ![s] = Null]
      /\ content' = content
  BY DEF Thunks!Move, Thunks!PagesAfterReset
<1>2. /\ page'[d] = page[s] /\ page'[s] = Null /\ means'[d] = means[s] /\ means'[s] = Null
      /\ \A q \in Objects \ {d, s} : page'[q] = page[q] /\ means'[q] = means[q]
      /\ page' \in [Objects -> Pages \cup {Null}] /\ means' \in [Objects -> Instances \cup {Null}]
  BY <1>1 DEF PagesOwned
<1>3. ASSUME NEW o \in Objects, page'[o] # Null
      PROVE  /\ o \in thunks' /\ page'[o] \in mapped'
             /\ \A q \in Objects \ {o} : page'[q] # page'[o]
  <2>1. CASE o = d
    BY <1>1, <1>2, <1>3, <2>1 DEF PagesOwned
  <2>2. CASE o # d
    <3>1. o # s /\ page'[o] = page[o]
      BY <1>2, <1>3, <2>2
    <3>2. /\ o \in thunks /\ page[o] \in mapped
          /\ \A q \in Objects \ {o} : page[q] # page[o]
      BY <1>3, <3>1 DEF PagesOwned
    <3> QED BY <1>1, <1>2, <1>3, <2>2, <3>1, <3>2
  <2> QED BY <2>1, <2>2
<1>4. ASSUME NEW q \in mapped'
      PROVE  \E o \in Objects : page'[o] = q
  <2>1. q \in mapped /\ q # page[d] /\ q \in Pages
    BY <1>1, <1>4 DEF PagesOwned
  <2>2. PICK o \in Objects : page[o] = q
    BY <2>1 DEF PagesOwned
  <2>3. CASE o = s
    BY <1>2, <2>2, <2>3
  <2>4. CASE o # s
    BY <1>2, <2>1, <2>2, <2>4
  <2> QED BY <2>3, <2>4
<1>5. PagesOwned'
  BY <1>1, <1>2, <1>3, <1>4 DEF PagesOwned
<1>6. MeansWhatItCalls => MeansWhatItCalls'
  BY <1>1, <1>2 DEF MeansWhatItCalls
<1> QED BY <1>5, <1>6

LEMMA ThunkDestroy ==
  ASSUME PagesOwned, NEW o \in Objects, Thunks!Destroy(o)
  PROVE  PagesOwned' /\ (MeansWhatItCalls => MeansWhatItCalls')
<1>1. /\ page' = [page EXCEPT ![o] = Null]
      /\ mapped' = mapped \ {page[o]}
      /\ thunks' = thunks \ {o}
      /\ means' = [means EXCEPT ![o] = Null]
      /\ content' = content
  BY DEF Thunks!Destroy, Thunks!PagesAfterReset
<1>2. /\ page'[o] = Null /\ means'[o] = Null
      /\ \A q \in Objects \ {o} : page'[q] = page[q] /\ means'[q] = means[q]
      /\ page' \in [Objects -> Pages \cup {Null}] /\ means' \in [Objects -> Instances \cup {Null}]
  BY <1>1 DEF PagesOwned
<1>3. \A q \in Objects : page'[q] # Null =>
        /\ q \in thunks' /\ page'[q] \in mapped'
        /\ \A e \in Objects \ {q} : page'[e] # page'[q]
  BY <1>1, <1>2 DEF PagesOwned
<1>4. \A p \in mapped' : \E q \in Objects : page'[q] = p
  BY <1>1, <1>2 DEF PagesOwned
<1>5. PagesOwned'
  BY <1>1, <1>2, <1>3, <1>4 DEF PagesOwned
<1>6. MeansWhatItCalls => MeansWhatItCalls'
  BY <1>1, <1>2 DEF MeansWhatItCalls
<1> QED BY <1>5, <1>6

LEMMA ThunkStepKeeps ==
  ASSUME PagesOwned, Thunks!Next \/ UNCHANGED thunkVars
  PROVE  /\ PagesOwned'
         /\ MeansWhatItCalls /\ "no_self_copy" \in ClientRules => MeansWhatItCalls'
<1>1. CASE UNCHANGED thunkVars
  BY <1>1 DEF thunkVars, PagesOwned, MeansWhatItCalls
<1>2. ASSUME NEW o \in Objects, Thunks!DefaultConstruct(o)
      PROVE  PagesOwned' /\ (MeansWhatItCalls => MeansWhatItCalls')
  BY <1>2 DEF Thunks!DefaultConstruct, PagesOwned, MeansWhatItCalls
<1> QED
  BY <1>1, <1>2, ThunkConstruct, ThunkCopy, ThunkMove, ThunkDestroy DEF Thunks!Next

LEMMA ThunkInit ==
  ASSUME Init
  PROVE  PagesOwned /\ MeansWhatItCalls
<1>1. Thunks!Init
  BY Zenon DEF Init
<1> QED BY <1>1 DEF Thunks!Init, PagesOwned, MeansWhatItCalls

(* No page of a thunk is leaked, through all copies, moves, assignments    *)
(* and failures, a copy of a thunk to itself included (the unique_ptr of   *)
(* Thunk).                                                                 *)
THEOREM NoPageLeakedAlways ==
  Spec => []NoPageLeaked
<1>1. Init => PagesOwned
  BY ThunkInit
<1>2. PagesOwned /\ [Next]_vars => PagesOwned'
  BY OneToolAtATime, ThunkStepKeeps
<1>3. PagesOwned => NoPageLeaked
  BY DEF PagesOwned, NoPageLeaked, Thunks!NoPageLeaked
<1> QED BY <1>1, <1>2, <1>3, PTL DEF Spec

(* A thunk calls the instance it was made or copied for, from a page of    *)
(* its own, if no thunk is copied to itself (operator= of Thunk).          *)
THEOREM ThunkCallsItsOwnAlways ==
  ASSUME "no_self_copy" \in ClientRules
  PROVE  Spec => []ThunkCallsItsOwn
<1>1. Init => PagesOwned /\ MeansWhatItCalls
  BY ThunkInit
<1>2. PagesOwned /\ MeansWhatItCalls /\ [Next]_vars => (PagesOwned /\ MeansWhatItCalls)'
  BY OneToolAtATime, ThunkStepKeeps
<1>3. PagesOwned /\ MeansWhatItCalls => ThunkCallsItsOwn
  BY DEF PagesOwned, MeansWhatItCalls, ThunkCallsItsOwn, Thunks!ThunkCallsItsOwn
<1> QED BY <1>1, <1>2, <1>3, PTL DEF Spec
-----------------------------------------------------------------------------
(* Bound member functions: a delegate calls the one instance bound to it,  *)
(* which lives; a thread that found a delegate free is the only one that   *)
(* binds, so it is free until that thread has bound it.                    *)
CallbackInv ==
  /\ func \in [Ids -> Instances \cup {Null}]
  /\ asks \in [Threads -> (Ids \X Instances) \cup {Null}]
  /\ bound \subseteq Ids \X Instances
  /\ \A b \in bound : func[b[1]] = b[2] /\ b[2] \in instances
  /\ \A t \in Threads : asks[t] # Null =>
       /\ func[asks[t][1]] = Null /\ asks[t][2] \in instances
       /\ \A u \in Threads \ {t} : asks[u] = Null

(* While one thread binds at a time and bound instances are kept, every    *)
(* step of bindInstance, a callback or a destructor keeps that.            *)
LEMMA CallbackStepKeeps ==
  ASSUME CallbackInv, {"one_binder", "outlives"} \subseteq ClientRules,
         Callbacks!Next \/ UNCHANGED callbackVars
  PROVE  CallbackInv'
<1>1. CASE UNCHANGED callbackVars
  BY <1>1 DEF callbackVars, CallbackInv
<1>2. ASSUME NEW t \in Threads, NEW id \in Ids, NEW i \in Instances, Callbacks!Check(t, id, i)
      PROVE  CallbackInv'
  <2>1. /\ \A u \in Threads : asks[u] = Null
        /\ i \in instances
        /\ UNCHANGED <<func, instances, bound, called>>
    BY <1>2 DEF Callbacks!Check
  <2>2. CASE func[id] = Null
    <3>1. asks' = [asks EXCEPT ![t] = <<id, i>>]
      BY <1>2, <2>2 DEF Callbacks!Check, Callbacks!IsFree
    <3>2. asks'[t] = <<id, i>> /\ \A u \in Threads \ {t} : asks'[u] = Null
      BY <2>1, <3>1 DEF CallbackInv
    <3>3. asks' \in [Threads -> (Ids \X Instances) \cup {Null}]
      BY <3>1 DEF CallbackInv
    <3> QED BY <2>1, <2>2, <3>2, <3>3 DEF CallbackInv
  <2>3. CASE func[id] # Null
    <3>1. asks' = [asks EXCEPT ![t] = Null]
      BY <1>2, <2>3 DEF Callbacks!Check, Callbacks!IsFree
    <3> QED BY <2>1, <3>1 DEF CallbackInv
  <2> QED BY <2>2, <2>3
<1>3. ASSUME NEW t \in Threads, Callbacks!Bind(t)
      PROVE  CallbackInv'
  <2>1. PICK id \in Ids, i \in Instances : asks[t] = <<id, i>>
    BY <1>3 DEF Callbacks!Bind, CallbackInv
  <2>2. /\ func[id] = Null /\ i \in instances
        /\ \A u \in Threads \ {t} : asks[u] = Null
        /\ func' = [func EXCEPT ![id] = i]
        /\ bound' = bound \cup {<<id, i>>}
        /\ asks' = [asks EXCEPT ![t] = Null]
        /\ instances' = instances
    BY <1>3, <2>1 DEF Callbacks!Bind, CallbackInv
  <2>3. \A b \in bound : b[1] # id
    BY <2>2, ToolsAssumption DEF CallbackInv
  <2>4. \A u \in Threads : asks'[u] = Null
    BY <2>2 DEF CallbackInv
  <2>5. \A b \in bound' : func'[b[1]] = b[2] /\ b[2] \in instances'
    BY <2>2, <2>3 DEF CallbackInv
  <2>6. /\ func' \in [Ids -> Instances \cup {Null}]
        /\ asks' \in [Threads -> (Ids \X Instances) \cup {Null}]
        /\ bound' \subseteq Ids \X Instances
    BY <2>2 DEF CallbackInv
  <2> QED BY <2>4, <2>5, <2>6 DEF CallbackInv
<1>4. ASSUME NEW id \in Ids, NEW i \in Instances, Callbacks!Callback(id, i)
      PROVE  CallbackInv'
  BY <1>4 DEF Callbacks!Callback, CallbackInv
<1>5. ASSUME NEW i \in Instances, Callbacks!DestroyInstance(i)
      PROVE  CallbackInv'
  <2>1. /\ \A id \in Ids : <<id, i>> \notin bound
        /\ \A t \in Threads : asks[t] # Null => asks[t][2] # i
        /\ instances' = instances \ {i}
        /\ UNCHANGED <<func, asks, bound>>
    BY <1>5 DEF Callbacks!DestroyInstance
  <2>2. \A b \in bound : b[2] # i
    BY <2>1 DEF CallbackInv
  <2> QED BY <2>1, <2>2 DEF CallbackInv
<1> QED BY <1>1, <1>2, <1>3, <1>4, <1>5 DEF Callbacks!Next

(* A callback reaches the instance it was bound to, and that one exists    *)
(* (the check of bindInstance), if no two threads bind at once and bound   *)
(* instances are not destroyed.                                            *)
THEOREM CallbackReachesBoundAlways ==
  ASSUME {"one_binder", "outlives"} \subseteq ClientRules
  PROVE  Spec => CallbackReachesBound
<1>1. Init => CallbackInv
  <2>1. Init => Callbacks!Init
    BY Zenon DEF Init
  <2> QED BY <2>1 DEF Callbacks!Init, CallbackInv
<1>2. CallbackInv /\ [Next]_vars => CallbackInv'
  BY OneToolAtATime, CallbackStepKeeps
<1>3. CallbackInv =>
        \A id \in Ids, i \in Instances :
          Callbacks!Callback(id, i) => called' = i /\ i \in instances
  <2> SUFFICES ASSUME CallbackInv, NEW id \in Ids, NEW i \in Instances, Callbacks!Callback(id, i)
               PROVE  called' = i /\ i \in instances
    OBVIOUS
  <2>1. <<id, i>> \in bound /\ called' = func[id]
    BY DEF Callbacks!Callback
  <2> QED BY <2>1 DEF CallbackInv
<1>4. CallbackInv /\ [Next]_vars =>
        [\A id \in Ids, i \in Instances :
           Callbacks!Callback(id, i) => called' = i /\ i \in instances]_vars
  BY <1>3
<1> QED BY <1>1, <1>2, <1>4, PTL DEF Spec, CallbackReachesBound
-----------------------------------------------------------------------------
(* Deep pointers: as no page on the way is a guard page, whatever a read   *)
(* or a write raises is what the handlers take.                            *)
PointerInv ==
  /\ right \in Pointers!Rights \ {"guard"}
  /\ walk # "terminated"

LEMMA RaisesIsHandled ==
  ASSUME PointerInv, NEW kind, Pointers!Raises(kind) # "nothing"
  PROVE  Pointers!Raises(kind) \in Pointers!Handled
BY DEF PointerInv, Pointers!Raises, Pointers!Handled

(* No step of a walk, of its client or of another thread ends the process. *)
LEMMA PointerStepKeeps ==
  ASSUME PointerInv, "no_guards" \in ClientRules, Pointers!Next \/ UNCHANGED pointerVars
  PROVE  PointerInv'
<1>1. CASE UNCHANGED pointerVars
  BY <1>1 DEF pointerVars, PointerInv
<1>2. ASSUME NEW p, Pointers!Assign(p)
      PROVE  PointerInv'
  BY <1>2 DEF Pointers!Assign, Pointers!memory, PointerInv, Pointers!Rights
<1>3. CASE Pointers!Begin
  BY <1>3 DEF Pointers!Begin, Pointers!memory, PointerInv, Pointers!Rights
<1>4. CASE Pointers!Follow
  <2>1. UNCHANGED right
    BY <1>4 DEF Pointers!Follow, Pointers!memory
  <2>2. walk' # "terminated"
    BY <1>4, RaisesIsHandled DEF Pointers!Follow, Pointers!Stops, Pointers!Inspected, PointerInv
  <2> QED BY <2>1, <2>2 DEF PointerInv, Pointers!Rights
<1>5. ASSUME NEW kind, Pointers!Access(kind)
      PROVE  PointerInv'
  <2>1. UNCHANGED right
    BY <1>5 DEF Pointers!Access
  <2>2. walk' # "terminated"
    BY <1>5, RaisesIsHandled DEF Pointers!Access, Pointers!Stops
  <2> QED BY <2>1, <2>2 DEF PointerInv, Pointers!Rights
<1>6. ASSUME NEW a, NEW v, Pointers!OtherStores(a, v)
      PROVE  PointerInv'
  BY <1>6 DEF Pointers!OtherStores, PointerInv, Pointers!Rights
<1>7. ASSUME NEW r \in Pointers!Rights, Pointers!OtherProtects(r)
      PROVE  PointerInv'
  BY <1>7 DEF Pointers!OtherProtects, PointerInv, Pointers!Rights
<1> QED BY <1>1, <1>2, <1>3, <1>4, <1>5, <1>6, <1>7 DEF Pointers!Next

(* An access that fails does not end the process, whichever pointers and   *)
(* rights other threads change behind the range checks, if no page on the  *)
(* way is a guard page (the handlers of get, set and getAddress).          *)
THEOREM NeverTerminatesAlways ==
  ASSUME "no_guards" \in ClientRules
  PROVE  Spec => []NeverTerminates
<1>1. Init => PointerInv
  <2>1. Init => Pointers!Init
    BY Zenon DEF Init
  <2> QED BY <2>1 DEF Pointers!Init, PointerInv, Pointers!Rights
<1>2. PointerInv /\ [Next]_vars => PointerInv'
  BY OneToolAtATime, PointerStepKeeps
<1>3. PointerInv => NeverTerminates
  BY DEF PointerInv, NeverTerminates, Pointers!NeverTerminates
<1> QED BY <1>1, <1>2, <1>3, PTL DEF Spec
-----------------------------------------------------------------------------
(* Assembler: what was pushed and not cleared has been emitted, in its     *)
(* place, or is staged.                                                    *)
Text == Seq((Instructions \cup {"mov"}) \X Int)

AssemblerInv ==
  /\ staged \in Text /\ emitted \in Text
  /\ pushed = emitted \o staged

(* The low bits of a value that has no others are the value.               *)
LEMMA InDomainIsKept ==
  ASSUME NEW v, Asm!InDomain(v)
  PROVE  v \in Int /\ Asm!LowBits(v) = v
<1>1. 2 ^ Bits \in Nat /\ v \in Int /\ 0 <= v /\ v < 2 ^ Bits
  BY ToolsAssumption DEF Asm!InDomain
<1>2. \A m \in Nat : 0 <= v /\ v < m => v % m = v
  BY <1>1
<1> QED BY <1>1, <1>2 DEF Asm!LowBits

(* An instruction and its operand are staged as they were pushed.          *)
LEMMA PushBackKeeps ==
  ASSUME AssemblerInv, NEW i \in Instructions \cup {"mov"}, NEW v, Asm!PushBack(i, v)
  PROVE  AssemblerInv'
<1> DEFINE S == (Instructions \cup {"mov"}) \X Int
           e == <<i, v>>
<1>1. Asm!LowBits(v) = v /\ e \in S
  BY InDomainIsKept DEF Asm!PushBack
<1>2. staged' = Append(staged, e) /\ pushed' = Append(pushed, e) /\ emitted' = emitted
  BY <1>1 DEF Asm!PushBack
<1>3. staged \in Seq(S) /\ emitted \in Seq(S) /\ pushed = emitted \o staged
  BY DEF AssemblerInv, Text
<1> HIDE DEF S, e
<1>4. emitted \o staged \in Seq(S) /\ <<e>> \in Seq(S) /\ Append(staged, e) \in Seq(S)
  BY <1>1, <1>3, ConcatProperties
<1>5. /\ Append(staged, e) = staged \o <<e>>
      /\ Append(emitted \o staged, e) = (emitted \o staged) \o <<e>>
  BY <1>1, <1>3, <1>4, AppendIsConcat
<1>6. pushed' = emitted' \o staged'
  BY <1>2, <1>3, <1>4, <1>5, ConcatAssociative
<1> QED BY <1>2, <1>3, <1>4, <1>6 DEF AssemblerInv, Text, S

(* With buffers that are large enough, no call of the Assembler loses or   *)
(* repeats an instruction.                                                 *)
LEMMA AssemblerStepKeeps ==
  ASSUME AssemblerInv, "big_buffers" \in ClientRules, Asm!Next \/ UNCHANGED asmVars
  PROVE  AssemblerInv'
<1>0. staged \in Text /\ emitted \in Text /\ pushed = emitted \o staged
  BY DEF AssemblerInv
<1>e. << >> \in Text /\ \A s \in Text : s \o << >> = s
  BY EmptySeq, ConcatEmptySeq DEF Text
<1>1. CASE UNCHANGED asmVars
  BY <1>1 DEF asmVars, AssemblerInv
<1>2. ASSUME NEW i \in Instructions \cup {"mov"}, NEW v, Asm!PushBack(i, v)
      PROVE  AssemblerInv'
  BY <1>2, PushBackKeeps
<1>3. CASE Asm!Clear
  BY <1>0, <1>e, <1>3 DEF Asm!Clear, AssemblerInv
<1>4. CASE Asm!AssembleFails
  BY <1>0, <1>4 DEF Asm!AssembleFails, AssemblerInv
<1>5. ASSUME NEW room \in 0 .. MaxPushed, Asm!Assemble(room)
      PROVE  AssemblerInv'
  <2>1. Len(staged) \in Nat /\ room \in Int
    BY <1>0, LenProperties DEF Text
  <2>2. ~(room < Len(staged))
    BY <1>5, <2>1 DEF Asm!Assemble
  <2>3. staged' = << >> /\ emitted' = emitted \o staged /\ pushed' = pushed
    BY <1>5, <2>2 DEF Asm!Assemble, Asm!TextAfter
  <2>4. emitted' \in Text
    BY <1>0, <2>3, ConcatProperties DEF Text
  <2> QED BY <1>0, <1>e, <2>3, <2>4 DEF AssemblerInv
<1> QED BY <1>1, <1>2, <1>3, <1>4, <1>5 DEF Asm!Next

(* Every instruction that is not cleared is assembled once, in its place   *)
(* and with the operand that was given, or is still staged, however many   *)
(* calls failed before, if buffers hold what is staged (assemble() and     *)
(* domain_cast).                                                           *)
THEOREM EmittedOnceAlways ==
  ASSUME "big_buffers" \in ClientRules
  PROVE  Spec => []EmittedOnce
<1>1. Init => AssemblerInv
  <2>1. Init => Asm!Init
    BY Zenon DEF Init
  <2>2. << >> \in Text /\ << >> \o << >> = << >>
    BY EmptySeq, ConcatEmptySeq DEF Text
  <2> QED BY <2>1, <2>2 DEF Asm!Init, AssemblerInv
<1>2. AssemblerInv /\ [Next]_vars => AssemblerInv'
  BY OneToolAtATime, AssemblerStepKeeps
<1>3. AssemblerInv => EmittedOnce
  BY DEF AssemblerInv, EmittedOnce, Asm!EmittedOnce
<1> QED BY <1>1, <1>2, <1>3, PTL DEF Spec
-----------------------------------------------------------------------------
(* The machine code: the registers there are, and what they and the stack  *)
(* can hold.                                                               *)
Registers == Code!General \cup {Code!Xmm[n] : n \in 1 .. 16}

CodeValues ==
  Registers \cup {"caller", "local", "junk", "lost", "user", "callback", "data", "patched",
                  "this", "page", "hook", "behind", "member", "1", "0", "a", "b", "c"}

(* Every register outside S holds what it held where the code was entered. *)
SameBut(S) ==
  /\ reg \in [Registers -> CodeValues]
  /\ \A r \in Registers \ S : reg[r] = Code!Entered[r]

(* The code has pushed d words above what the caller left.                 *)
Depth(d) ==
  /\ stack \in Seq(CodeValues)
  /\ Len(stack) - d \in {1, 2}
  /\ stack[1] = "caller"
  /\ use = "callback" => Len(stack) = d + 2

(* In front of the n-th instruction of a jump to t that leaves v in rax:   *)
(* the other registers outside S are as they were.                         *)
Jumping(n, S, v, t) ==
  /\ n \in 1 .. 4
  /\ Depth(IF n = 1 THEN 0 ELSE 1)
  /\ SameBut({"rax"} \cup S)
  /\ reg["rax"] = IF n = 3 THEN t ELSE v
  /\ n \in {2, 3} => stack[Len(stack)] = v
  /\ n = 4 => stack[Len(stack)] = t

(* The first n registers that pushAll saves are on the stack, and the      *)
(* slots of the frame in S hold their registers.                           *)
Saved(n) == \A k \in 1 .. n : stack[2 + k] = Code!Entered[Code!PushOrder[k]]
Slots(S) == \A n \in S : stack[33 - n] = Code!Entered[Code!Xmm[n]]

(* What popAll does not restore, and a callback can therefore change.      *)
Lossy == {"xmm0", "xmm1", "xmm14"}
Lost  == IF enabled THEN Lossy ELSE {}

(* What an InlinePatch leaves in rcx, where the displaced instructions are *)
(* in the page, and what the code in front of them may have changed.       *)
RcxIs == IF enabled THEN "patched" ELSE Code!Entered["rcx"]
DisplacedAt == IF use = "callback" THEN 71 ELSE 7
Altered == IF use = "callback" THEN Lost ELSE {"rcx"}

(* What holds in front of instruction c of a page: where it checks the     *)
(* flag, saves the registers, fills the slots and calls, loads from the    *)
(* slots, and pops.                                                        *)
Checking(c) ==
  /\ c \in {1, 5} => Depth(0) /\ SameBut({})
  /\ c \in {2, 3, 4} => Depth(1) /\ SameBut({"rax"}) /\ stack[Len(stack)] = Code!Entered["rax"]
  /\ c = 3 => reg["rax"] = IF enabled THEN "1" ELSE "0"
  /\ c \in {4, 5} => flags = IF enabled THEN "lost" ELSE "equal"

Saving(c) == Depth(c - 6) /\ SameBut({}) /\ Saved(c - 6)

Storing(c) ==
  /\ Depth(30) /\ Saved(14) /\ Slots({n \in 1 .. 16 : n <= c - 21})
  /\ SameBut(IF c <= 37 THEN {} ELSE {"rcx", "rax"})

(* The registers that slots m and above cannot have restored yet.          *)
VolatileXmm(m) == {Code!Xmm[n] : n \in {k \in 1 .. 6 : k <= m}}
Unloaded(m) == (Code!Volatile \cap Code!General) \cup Lossy \cup VolatileXmm(m)
Loading(c) == Depth(30) /\ Saved(14) /\ Slots(3 .. 16) /\ SameBut(Unloaded(56 - c))

(* The registers that the m pops to come will restore.                     *)
Unpopped(m) == {Code!PushOrder[k] : k \in 1 .. m} \cup Lossy
Popping(c) == Depth(71 - c) /\ Saved(71 - c) /\ SameBut(Unpopped(71 - c))

(* The frame of a callback as a whole, and the page around it.             *)
InFrame(c) ==
  /\ c \in 6 .. 20 => Saving(c)
  /\ c \in 21 .. 39 => Storing(c)
  /\ c \in 40 .. 56 => Loading(c)
  /\ c \in 57 .. 70 => Popping(c)

OnPage(c) ==
  /\ c \in 1 .. 5 => Checking(c)
  /\ c \in 6 .. DisplacedAt - 1 =>
       enabled /\ IF use = "callback" THEN InFrame(c) ELSE Depth(0) /\ SameBut({})
  /\ c = DisplacedAt => Depth(0) /\ SameBut(Altered)
  /\ c > DisplacedAt => Jumping(c - DisplacedAt, Altered, "data", "behind")
  /\ use = "patch" /\ c >= DisplacedAt => reg["rcx"] = RcxIs

(* n of the thunk's four moves are done.                                   *)
Shifted(n) ==
  /\ SameBut({"rcx", "rdx", "r8", "r9"} \cup IF n = 4 THEN {"rax"} ELSE {})
  /\ reg["r9"]  = IF n >= 1 THEN Code!Entered["r8"] ELSE Code!Entered["r9"]
  /\ reg["r8"]  = IF n >= 2 THEN Code!Entered["rdx"] ELSE Code!Entered["r8"]
  /\ reg["rdx"] = IF n >= 3 THEN Code!Entered["rcx"] ELSE Code!Entered["rdx"]
  /\ reg["rcx"] = IF n >= 4 THEN "this" ELSE Code!Entered["rcx"]

(* What the code is given, if the client keeps the promises.               *)
CodeInputs ==
  /\ use \in {"patch", "callback", "hook", "original", "thunk"}
  /\ enabled \in BOOLEAN
  /\ shape = "plain"
  /\ arity \in 0 .. 3
  /\ returns = "scalar"
  /\ use # "thunk" => arity = 0

(* The invariant: at every place, in front of every instruction, what the  *)
(* registers and the stack hold.                                           *)
CodeInv ==
  /\ CodeInputs
  /\ place \in {"entry", "trampoline", "page", "original", "thunk", "hook", "behind", "member"}
  /\ counter \in Nat \ {0}
  /\ place = "entry" => counter = 1 /\ Depth(0) /\ SameBut({})
  /\ place \in {"entry", "trampoline"} => use \in {"patch", "callback", "hook"}
  /\ place \in {"entry", "trampoline", "hook"} => flags = "kept"
  /\ place = "trampoline" =>
       Jumping(counter, {}, Code!Entered["rax"], IF use = "hook" THEN "hook" ELSE "page")
  /\ place = "page" => use \in {"patch", "callback"} /\ OnPage(counter)
  /\ place = "original" => use = "original" /\ Jumping(counter, {}, Code!Entered["rax"], "behind")
  /\ place = "thunk" =>
       /\ use = "thunk"
       /\ counter <= 4 => Depth(0) /\ SameBut({"rcx", "rdx", "r8", "r9"}) /\ Shifted(counter - 1)
       /\ counter > 4 =>
            /\ Shifted(4)
            /\ Jumping(counter - 4, {"rcx", "rdx", "r8", "r9"}, Code!Entered["rax"], "member")
  /\ place = "hook" => use = "hook" /\ Depth(0) /\ SameBut({})
  /\ place = "behind" =>
       /\ Depth(0)
       /\ use \in {"patch", "callback", "original"}
       /\ use = "original" => SameBut({})
       /\ use # "original" => SameBut({"rax"} \cup Altered) /\ reg["rax"] = "data"
       /\ use = "patch" => reg["rcx"] = RcxIs
  /\ place = "member" => Depth(0) /\ use = "thunk" /\ Shifted(4)

-----------------------------------------------------------------------------
(* The instructions as sequences: what a concatenation holds where.        *)
Operations ==
  {"push", "pop", "set", "xchg", "mov", "flag", "cmp", "je", "jmp", "store", "load", "call", "lea"}
AnyInstruction ==
  {<<"reserve">>, <<"release">>, <<"ret">>}
    \cup (Operations \X (CodeValues \cup Nat))
    \cup (Operations \X (CodeValues \cup Nat) \X CodeValues)

Listing(s, n) == s \in Seq(AnyInstruction) /\ Len(s) = n

JoinedListing(u, s, m, t, n) ==
  /\ Listing(u, m + n)
  /\ \A i \in 1 .. m : u[i] = s[i]
  /\ \A i \in m + 1 .. m + n : u[i] = t[i - m]

(* Two listings in a row are a listing.                                    *)
LEMMA ListingsJoined ==
  ASSUME NEW s, NEW t, NEW m \in Nat, NEW n \in Nat, Listing(s, m), Listing(t, n)
  PROVE  JoinedListing(s \o t, s, m, t, n)
  BY DEF Listing, JoinedListing

(* The registers by name.                                                  *)
LEMMA RegistersAre ==
  Registers = {"rax", "rbx", "rcx", "rdx", "rsi", "rdi", "r8", "r9",
               "r10", "r11", "r12", "r13", "r14", "r15"}
                \cup {"xmm0", "xmm1", "xmm2", "xmm3", "xmm4", "xmm5", "xmm6", "xmm7", "xmm8",
                      "xmm9", "xmm10", "xmm11", "xmm12", "xmm13", "xmm14", "xmm15"}
  BY DEF Registers, Code!General, Code!Xmm

(* The instructions of a jump.                                             *)
LEMMA JumpText ==
  ASSUME NEW t \in CodeValues
  PROVE  /\ Listing(Code!JumpThrough(t), 4)
         /\ Code!JumpThrough(t)[1] = <<"push", "rax">>
         /\ Code!JumpThrough(t)[2] = <<"set", "rax", t>>
         /\ Code!JumpThrough(t)[3] = <<"xchg", "rax">>
         /\ Code!JumpThrough(t)[4] = <<"ret">>
<1>1. "rax" \in CodeValues
  BY RegistersAre DEF CodeValues
<1>2. <<"push", "rax">> \in AnyInstruction
  BY <1>1 DEF AnyInstruction, Operations
<1>3. <<"set", "rax", t>> \in AnyInstruction
  BY <1>1 DEF AnyInstruction, Operations
<1>4. <<"xchg", "rax">> \in AnyInstruction
  BY <1>1 DEF AnyInstruction, Operations
<1>5. <<"ret">> \in AnyInstruction
  BY <1>1 DEF AnyInstruction, Operations
<1> QED BY <1>2, <1>3, <1>4, <1>5 DEF Code!JumpThrough, Listing

(* The instructions that check the flag of a patch.                        *)
LEMMA CheckText ==
  /\ Listing(Code!CheckText, 4)
  /\ Code!CheckText[1] = <<"push", "rax">>
  /\ Code!CheckText[2] = <<"flag", "rax">>
  /\ Code!CheckText[3] = <<"cmp", "rax">>
  /\ Code!CheckText[4] = <<"pop", "rax">>
<1>1. "rax" \in CodeValues
  BY RegistersAre DEF CodeValues
<1>2. \A op \in Operations : <<op, "rax">> \in AnyInstruction
  BY <1>1 DEF AnyInstruction
<1>3. /\ <<"push", "rax">> \in AnyInstruction /\ <<"flag", "rax">> \in AnyInstruction
      /\ <<"cmp", "rax">> \in AnyInstruction /\ <<"pop", "rax">> \in AnyInstruction
  BY <1>2 DEF Operations
<1> QED BY <1>3 DEF Code!CheckText, Listing

(* pushAll pushes registers.                                               *)
LEMMA Pushes ==
  /\ Listing([i \in 1 .. 14 |-> <<"push", Code!PushOrder[i]>>], 14)
  /\ \A i \in 1 .. 14 : Code!PushOrder[i] \in Registers
<1>1. \A i \in 1 .. 14 : Code!PushOrder[i] \in Code!General
  BY DEF Code!PushOrder, Code!General
<1>2. Code!General \subseteq Registers
  BY DEF Registers
<1>3. \A i \in 1 .. 14 : <<"push", Code!PushOrder[i]>> \in AnyInstruction
  BY <1>1, <1>2 DEF AnyInstruction, Operations, CodeValues
<1> QED BY <1>1, <1>2, <1>3 DEF Listing

(* popAll pops in the opposite order, and no register occurs twice.        *)
LEMMA Orders ==
  /\ \A i \in 1 .. 14 : Code!PopOrder[i] = Code!PushOrder[15 - i]
  /\ \A i, j \in 1 .. 14 : Code!PushOrder[i] = Code!PushOrder[j] => i = j
  /\ \A i, j \in 1 .. 16 : Code!Xmm[i] = Code!Xmm[j] => i = j
  /\ \A i \in 1 .. 14, j \in 1 .. 16 : Code!PushOrder[i] # Code!Xmm[j]
<1>1.  \A i \in 1 .. 14 : Code!PopOrder[i] = Code!PushOrder[15 - i]
  BY DEF Code!PushOrder, Code!PopOrder
<1>2.  \A i, j \in 1 .. 14 : Code!PushOrder[i] = Code!PushOrder[j] => i = j
  BY DEF Code!PushOrder
<1>3.  \A i, j \in 1 .. 16 : Code!Xmm[i] = Code!Xmm[j] => i = j
  BY DEF Code!Xmm
<1>4.  \A i \in 1 .. 14, j \in 1 .. 16 : Code!PushOrder[i] # Code!Xmm[j]
  BY DEF Code!Xmm, Code!PushOrder
<1> QED BY <1>1, <1>2, <1>3, <1>4

(* The instructions of pushAll.                                            *)
LEMMA PushAllText ==
  /\ Listing(Code!PushAll, 31)
  /\ \A i \in 1 .. 14 : Code!PushAll[i] = <<"push", Code!PushOrder[i]>>
  /\ Code!PushAll[15] = <<"reserve">>
  /\ \A i \in 16 .. 31 : Code!PushAll[i] = <<"store", i - 15, Code!Xmm[i - 15]>>
<1> DEFINE pushes == [i \in 1 .. 14 |-> <<"push", Code!PushOrder[i]>>]
           space  == <<<<"reserve">>>>
           stores == [n \in 1 .. 16 |-> <<"store", n, Code!Xmm[n]>>]
           first  == pushes \o space
<1>1. Listing(pushes, 14) /\ \A i \in 1 .. 14 : pushes[i] = <<"push", Code!PushOrder[i]>>
  BY Pushes
<1>2. Listing(space, 1) /\ space[1] = <<"reserve">>
  <2>1. <<"reserve">> \in AnyInstruction
    BY DEF AnyInstruction
  <2> QED BY <2>1 DEF Listing
<1>3. Listing(stores, 16) /\ \A n \in 1 .. 16 : stores[n] = <<"store", n, Code!Xmm[n]>>
  <2>1. \A n \in 1 .. 16 : Code!Xmm[n] \in CodeValues
    BY DEF Registers, CodeValues
  <2>2. \A n \in 1 .. 16 : <<"store", n, Code!Xmm[n]>> \in AnyInstruction
    BY <2>1 DEF AnyInstruction, Operations
  <2> QED BY <2>2 DEF Listing
<1>4. Code!PushAll = first \o stores
  BY DEF Code!PushAll
<1> HIDE DEF pushes, space, stores
<1>5. JoinedListing(first, pushes, 14, space, 1)
  BY <1>1, <1>2, ListingsJoined
<1> HIDE DEF first
<1>6. Listing(first, 15)
  BY <1>5 DEF JoinedListing
<1>7. JoinedListing(Code!PushAll, first, 15, stores, 16)
  BY <1>3, <1>4, <1>6, ListingsJoined
<1>8. Listing(Code!PushAll, 31)
  BY <1>7 DEF JoinedListing
<1>9. \A i \in 1 .. 15 : Code!PushAll[i] = first[i]
  BY <1>7 DEF JoinedListing
<1>10. \A i \in 16 .. 31 : Code!PushAll[i] = stores[i - 15]
  BY <1>7 DEF JoinedListing
<1>11. \A i \in 1 .. 14 : Code!PushAll[i] = <<"push", Code!PushOrder[i]>>
  BY <1>1, <1>5, <1>9 DEF JoinedListing
<1>12. first[15] = space[1]
  BY <1>5 DEF JoinedListing
<1> QED BY <1>2, <1>3, <1>8, <1>9, <1>10, <1>11, <1>12

(* The instructions of popAll.                                             *)
LEMMA PopAllText ==
  /\ Listing(Code!PopAll, 31)
  /\ \A i \in 1 .. 16 : Code!PopAll[i] = <<"load", 17 - i, Code!LoadedFrom(17 - i)>>
  /\ Code!PopAll[17] = <<"release">>
  /\ \A i \in 18 .. 31 : Code!PopAll[i] = <<"pop", Code!PushOrder[32 - i]>>
<1> DEFINE loads == [i \in 1 .. 16 |-> <<"load", 17 - i, Code!LoadedFrom(17 - i)>>]
           space == <<<<"release">>>>
           pops  == [i \in 1 .. 14 |-> <<"pop", Code!PopOrder[i]>>]
           first == loads \o space
<1>1. Listing(loads, 16)
      /\ \A i \in 1 .. 16 : loads[i] = <<"load", 17 - i, Code!LoadedFrom(17 - i)>>
  <2>1. \A n \in 1 .. 16 : Code!LoadedFrom(n) \in CodeValues
    BY DEF Registers, CodeValues, Code!LoadedFrom
  <2>2. \A i \in 1 .. 16 : 17 - i \in 1 .. 16
    OBVIOUS
  <2>3. \A i \in 1 .. 16 : <<"load", 17 - i, Code!LoadedFrom(17 - i)>> \in AnyInstruction
    BY <2>1, <2>2 DEF AnyInstruction, Operations
  <2> QED BY <2>3 DEF Listing
<1>2. Listing(space, 1) /\ space[1] = <<"release">>
  <2>1. <<"release">> \in AnyInstruction
    BY DEF AnyInstruction
  <2> QED BY <2>1 DEF Listing
<1>3. Listing(pops, 14) /\ \A i \in 1 .. 14 : pops[i] = <<"pop", Code!PushOrder[15 - i]>>
  <2>1. \A i \in 1 .. 14 : Code!PopOrder[i] \in CodeValues
    BY Orders, Pushes DEF CodeValues
  <2>2. \A i \in 1 .. 14 : <<"pop", Code!PopOrder[i]>> \in AnyInstruction
    BY <2>1 DEF AnyInstruction, Operations
  <2>3. Listing(pops, 14)
    BY <2>2 DEF Listing
  <2> QED BY <2>3, Orders
<1>4. Code!PopAll = first \o pops
  BY DEF Code!PopAll
<1> HIDE DEF loads, space, pops
<1>5. JoinedListing(first, loads, 16, space, 1)
  BY <1>1, <1>2, ListingsJoined
<1> HIDE DEF first
<1>6. Listing(first, 17)
  BY <1>5 DEF JoinedListing
<1>7. JoinedListing(Code!PopAll, first, 17, pops, 14)
  BY <1>3, <1>4, <1>6, ListingsJoined
<1>8. Listing(Code!PopAll, 31)
  BY <1>7 DEF JoinedListing
<1>9. \A i \in 1 .. 17 : Code!PopAll[i] = first[i]
  BY <1>7 DEF JoinedListing
<1>10. \A i \in 18 .. 31 : Code!PopAll[i] = pops[i - 17]
  BY <1>7 DEF JoinedListing
<1>11. \A i \in 1 .. 16 : Code!PopAll[i] = <<"load", 17 - i, Code!LoadedFrom(17 - i)>>
  BY <1>1, <1>5, <1>9 DEF JoinedListing
<1>12. first[17] = space[1]
  BY <1>5 DEF JoinedListing
<1>13. \A i \in 18 .. 31 : i - 17 \in 1 .. 14 /\ 15 - (i - 17) = 32 - i
  OBVIOUS
<1>14. \A i \in 18 .. 31 : Code!PopAll[i] = <<"pop", Code!PushOrder[32 - i]>>
  BY <1>3, <1>10, <1>13
<1> QED BY <1>2, <1>8, <1>9, <1>11, <1>12, <1>14

(* The instructions of a callback: save, call, restore.                    *)
LEMMA CallbackText ==
  /\ Listing(Code!CallbackText, 65)
  /\ \A i \in 1 .. 31 : Code!CallbackText[i] = Code!PushAll[i]
  /\ Code!CallbackText[32] = <<"set", "rcx", "user">>
  /\ Code!CallbackText[33] = <<"set", "rax", "callback">>
  /\ Code!CallbackText[34] = <<"call", "rax">>
  /\ \A i \in 35 .. 65 : Code!CallbackText[i] = Code!PopAll[i - 34]
<1> DEFINE calls == <<<<"set", "rcx", "user">>, <<"set", "rax", "callback">>, <<"call", "rax">>>>
           first == Code!PushAll \o calls
<1>1. /\ Listing(calls, 3)
      /\ calls[1] = <<"set", "rcx", "user">>
      /\ calls[2] = <<"set", "rax", "callback">>
      /\ calls[3] = <<"call", "rax">>
  <2>1. {"rax", "rcx", "user", "callback"} \subseteq CodeValues
    BY RegistersAre DEF CodeValues
  <2>2. /\ <<"set", "rcx", "user">> \in AnyInstruction
        /\ <<"set", "rax", "callback">> \in AnyInstruction
        /\ <<"call", "rax">> \in AnyInstruction
    BY <2>1 DEF AnyInstruction, Operations
  <2> QED BY <2>2 DEF Listing
<1>2. Code!CallbackText = first \o Code!PopAll
  BY DEF Code!CallbackText
<1> HIDE DEF calls
<1>3. JoinedListing(first, Code!PushAll, 31, calls, 3)
  BY <1>1, PushAllText, ListingsJoined
<1> HIDE DEF first
<1>4. first[32] = calls[1] /\ first[33] = calls[2] /\ first[34] = calls[3]
  BY <1>3 DEF JoinedListing
<1>5. Listing(first, 34)
  BY <1>3 DEF JoinedListing
<1>6. JoinedListing(Code!CallbackText, first, 34, Code!PopAll, 31)
  BY <1>2, <1>5, PopAllText, ListingsJoined
<1>7. Listing(Code!CallbackText, 65)
  BY <1>6 DEF JoinedListing
<1>8. \A i \in 1 .. 34 : Code!CallbackText[i] = first[i]
  BY <1>6 DEF JoinedListing
<1>9. \A i \in 35 .. 65 : Code!CallbackText[i] = Code!PopAll[i - 34]
  BY <1>6 DEF JoinedListing
<1>10. \A i \in 1 .. 31 : Code!CallbackText[i] = Code!PushAll[i]
  BY <1>3, <1>8 DEF JoinedListing
<1> QED BY <1>1, <1>4, <1>7, <1>8, <1>9, <1>10

(* The instructions of a page around a patch of n instructions.            *)
LEMMA PageText ==
  ASSUME NEW n \in Nat, Listing(Code!PatchText, n), shape = "plain"
  PROVE  /\ \A i \in 1 .. 4 : Code!PageText[i] = Code!CheckText[i]
         /\ Code!PageText[5] = <<"je", n + 6>>
         /\ \A i \in 6 .. n + 5 : Code!PageText[i] = Code!PatchText[i - 5]
         /\ Code!PageText[n + 6] = <<"set", "rax", "data">>
         /\ \A i \in n + 7 .. n + 10 : Code!PageText[i] = Code!JumpThrough("behind")[i - (n + 6)]
<1> DEFINE je   == <<<<"je", n + 6>>>>
           data == <<<<"set", "rax", "data">>>>
           behind == Code!JumpThrough("behind")
           text == Code!PatchText
           checked == Code!CheckText \o je
           patched == checked \o text
           displaced == patched \o data
<1>1. Len(Code!CheckText \o text) + 2 = n + 6
  <2>1. JoinedListing(Code!CheckText \o text, Code!CheckText, 4, text, n)
    BY CheckText, ListingsJoined
  <2> QED BY <2>1 DEF JoinedListing, Listing
<1>2. Code!PageText = displaced \o behind
  BY <1>1 DEF Code!PageText, Code!Displaced
<1>3. /\ Listing(je, 1) /\ je[1] = <<"je", n + 6>>
      /\ Listing(data, 1) /\ data[1] = <<"set", "rax", "data">>
  <2>1. <<"je", n + 6>> \in AnyInstruction
    BY DEF AnyInstruction, Operations
  <2>2. {"rax", "data"} \subseteq CodeValues
    BY RegistersAre DEF CodeValues
  <2>3. <<"set", "rax", "data">> \in AnyInstruction
    BY <2>2 DEF AnyInstruction, Operations
  <2> QED BY <2>1, <2>3 DEF Listing
<1>4. Listing(behind, 4)
  BY JumpText DEF CodeValues
<1> HIDE DEF je, data, behind, text
<1>5. JoinedListing(checked, Code!CheckText, 4, je, 1)
  BY <1>3, CheckText, ListingsJoined
<1> HIDE DEF checked
<1>6. Listing(checked, 5) /\ checked[5] = je[1]
  BY <1>5 DEF JoinedListing
<1>7. Listing(text, n)
  BY DEF text
<1>8. JoinedListing(patched, checked, 5, text, n)
  BY <1>6, <1>7, ListingsJoined
<1> HIDE DEF patched
<1>9. Listing(patched, 5 + n) /\ 5 + n \in Nat
  BY <1>8 DEF JoinedListing
<1>10. JoinedListing(displaced, patched, 5 + n, data, 1)
  BY <1>3, <1>9, ListingsJoined
<1> HIDE DEF displaced
<1>11. Listing(displaced, n + 6)
  <2>1. (5 + n) + 1 = n + 6
    OBVIOUS
  <2> QED BY <1>10, <2>1 DEF JoinedListing
<1>12. JoinedListing(Code!PageText, displaced, n + 6, behind, 4)
  BY <1>2, <1>4, <1>11, ListingsJoined
<1>13. \A i \in 1 .. n + 6 : Code!PageText[i] = displaced[i]
  BY <1>12 DEF JoinedListing
<1>14. \A i \in 1 .. n + 5 : displaced[i] = patched[i]
  BY <1>10 DEF JoinedListing
<1>15. displaced[n + 6] = data[1]
  <2>1. n + 6 \in (5 + n) + 1 .. (5 + n) + 1 /\ (n + 6) - (5 + n) = 1
    OBVIOUS
  <2> QED BY <1>10, <2>1 DEF JoinedListing
<1>16. \A i \in 1 .. 5 : patched[i] = checked[i]
  BY <1>8 DEF JoinedListing
<1>17. \A i \in 6 .. n + 5 : patched[i] = text[i - 5]
  BY <1>8 DEF JoinedListing
<1>18. \A i \in 1 .. 5 : Code!PageText[i] = checked[i]
  BY <1>13, <1>14, <1>16
<1>19. \A i \in 1 .. 4 : Code!PageText[i] = Code!CheckText[i]
  BY <1>5, <1>18 DEF JoinedListing
<1>20. Code!PageText[5] = <<"je", n + 6>>
  BY <1>3, <1>6, <1>18
<1>21. \A i \in 6 .. n + 5 : Code!PageText[i] = text[i - 5]
  BY <1>13, <1>14, <1>17
<1>22. Code!PageText[n + 6] = <<"set", "rax", "data">>
  BY <1>3, <1>13, <1>15
<1>23. \A i \in n + 7 .. n + 10 : Code!PageText[i] = behind[i - (n + 6)]
  BY <1>12 DEF JoinedListing
<1> QED BY <1>19, <1>20, <1>21, <1>22, <1>23 DEF behind, text

(* The page of an InlinePatch, instruction by instruction.                 *)
LEMMA PatchPage ==
  ASSUME use = "patch", shape = "plain"
  PROVE  /\ \A i \in 1 .. 4 : Code!PageText[i] = Code!CheckText[i]
         /\ Code!PageText[5] = <<"je", 7>>
         /\ Code!PageText[6] = <<"set", "rcx", "patched">>
         /\ Code!PageText[7] = <<"set", "rax", "data">>
         /\ \A i \in 8 .. 11 : Code!PageText[i] = Code!JumpThrough("behind")[i - 7]
<1>1. Listing(Code!PatchText, 1) /\ Code!PatchText[1] = <<"set", "rcx", "patched">>
  <2>1. {"rcx", "patched"} \subseteq CodeValues
    BY RegistersAre DEF CodeValues
  <2>2. <<"set", "rcx", "patched">> \in AnyInstruction
    BY <2>1 DEF AnyInstruction, Operations
  <2> QED BY <2>2 DEF Listing, Code!PatchText
<1>2. /\ \A i \in 1 .. 4 : Code!PageText[i] = Code!CheckText[i]
      /\ Code!PageText[5] = <<"je", 1 + 6>>
      /\ \A i \in 6 .. 1 + 5 : Code!PageText[i] = Code!PatchText[i - 5]
      /\ Code!PageText[1 + 6] = <<"set", "rax", "data">>
      /\ \A i \in 1 + 7 .. 1 + 10 : Code!PageText[i] = Code!JumpThrough("behind")[i - (1 + 6)]
  BY <1>1, PageText
<1>3. Code!PageText[6] = Code!PatchText[1]
  BY <1>2
<1> QED BY <1>1, <1>2, <1>3

(* The page of an InlineCallback, instruction by instruction.              *)
LEMMA CallbackPage ==
  ASSUME use = "callback", shape = "plain"
  PROVE  /\ \A i \in 1 .. 4 : Code!PageText[i] = Code!CheckText[i]
         /\ Code!PageText[5] = <<"je", 71>>
         /\ \A i \in 6 .. 19 : Code!PageText[i] = <<"push", Code!PushOrder[i - 5]>>
         /\ Code!PageText[20] = <<"reserve">>
         /\ \A i \in 21 .. 36 : Code!PageText[i] = <<"store", i - 20, Code!Xmm[i - 20]>>
         /\ Code!PageText[37] = <<"set", "rcx", "user">>
         /\ Code!PageText[38] = <<"set", "rax", "callback">>
         /\ Code!PageText[39] = <<"call", "rax">>
         /\ \A i \in 40 .. 55 : Code!PageText[i] = <<"load", 56 - i, Code!LoadedFrom(56 - i)>>
         /\ Code!PageText[56] = <<"release">>
         /\ \A i \in 57 .. 70 : Code!PageText[i] = <<"pop", Code!PushOrder[71 - i]>>
         /\ Code!PageText[71] = <<"set", "rax", "data">>
         /\ \A i \in 72 .. 75 : Code!PageText[i] = Code!JumpThrough("behind")[i - 71]
<1>1. Listing(Code!PatchText, 65) /\ Code!PatchText = Code!CallbackText
  BY CallbackText DEF Code!PatchText
<1>2. /\ \A i \in 1 .. 4 : Code!PageText[i] = Code!CheckText[i]
      /\ Code!PageText[5] = <<"je", 65 + 6>>
      /\ \A i \in 6 .. 65 + 5 : Code!PageText[i] = Code!PatchText[i - 5]
      /\ Code!PageText[65 + 6] = <<"set", "rax", "data">>
      /\ \A i \in 65 + 7 .. 65 + 10 : Code!PageText[i] = Code!JumpThrough("behind")[i - (65 + 6)]
  BY <1>1, PageText
<1>3. \A i \in 6 .. 70 : Code!PageText[i] = Code!CallbackText[i - 5]
  BY <1>1, <1>2
<1>4. \A i \in 6 .. 36 : Code!PageText[i] = Code!PushAll[i - 5]
  BY <1>3, CallbackText
<1>5. \A i \in 40 .. 70 : Code!PageText[i] = Code!PopAll[i - 39]
  <2>1. \A i \in 40 .. 70 : i - 5 \in 35 .. 65 /\ (i - 5) - 34 = i - 39
    OBVIOUS
  <2> QED BY <1>3, <2>1, CallbackText
<1>6. \A i \in 6 .. 19 : Code!PageText[i] = <<"push", Code!PushOrder[i - 5]>>
  BY <1>4, PushAllText
<1>7. Code!PageText[20] = <<"reserve">>
  BY <1>4, PushAllText
<1>8. \A i \in 21 .. 36 : Code!PageText[i] = <<"store", i - 20, Code!Xmm[i - 20]>>
  <2>1. \A i \in 21 .. 36 : i - 5 \in 16 .. 31 /\ (i - 5) - 15 = i - 20
    OBVIOUS
  <2> QED BY <1>4, <2>1, PushAllText
<1>9. /\ Code!PageText[37] = <<"set", "rcx", "user">>
      /\ Code!PageText[38] = <<"set", "rax", "callback">>
      /\ Code!PageText[39] = <<"call", "rax">>
  BY <1>3, CallbackText
<1>10. \A i \in 40 .. 55 : Code!PageText[i] = <<"load", 56 - i, Code!LoadedFrom(56 - i)>>
  <2>1. \A i \in 40 .. 55 : i - 39 \in 1 .. 16 /\ 17 - (i - 39) = 56 - i
    OBVIOUS
  <2> QED BY <1>5, <2>1, PopAllText
<1>11. Code!PageText[56] = <<"release">>
  BY <1>5, PopAllText
<1>12. \A i \in 57 .. 70 : Code!PageText[i] = <<"pop", Code!PushOrder[71 - i]>>
  <2>1. \A i \in 57 .. 70 : i - 39 \in 18 .. 31 /\ 32 - (i - 39) = 71 - i
    OBVIOUS
  <2> QED BY <1>5, <2>1, PopAllText
<1>13. /\ Code!PageText[5] = <<"je", 71>>
       /\ Code!PageText[71] = <<"set", "rax", "data">>
       /\ \A i \in 72 .. 75 : Code!PageText[i] = Code!JumpThrough("behind")[i - 71]
  BY <1>2
<1> QED BY <1>2, <1>6, <1>7, <1>8, <1>9, <1>10, <1>11, <1>12, <1>13

-----------------------------------------------------------------------------
(* The effects of the instructions, by operation.                          *)
Junk == [n \in 1 .. 16 |-> "junk"]

RegistersAfter(used) ==
  [r \in DOMAIN reg |-> IF r \in Code!Volatile /\ "registers" \in used THEN "lost" ELSE reg[r]]

SlotsAfter(used) ==
  [n \in DOMAIN stack |->
     IF n \in {Len(stack), Len(stack) - 1} /\ "slots" \in used THEN "lost" ELSE stack[n]]

NextInstruction == place' = place /\ counter' = counter + 1

(* A step executes the instruction the counter is at.                      *)
LEMMA Executed ==
  ASSUME Code!Next, NEW i, Code!Instruction = i
  PROVE  /\ UNCHANGED <<use, enabled, shape, arity, returns>>
         /\ place \in DOMAIN Code!Code
         /\ i[1] = "push" => /\ NextInstruction /\ stack' = Append(stack, reg[i[2]])
                             /\ UNCHANGED <<reg, flags>>
         /\ i[1] = "pop" => /\ NextInstruction /\ stack' = Code!Front(stack)
                            /\ reg' = [reg EXCEPT ![i[2]] = Code!Last(stack)]
                            /\ UNCHANGED flags
         /\ i[1] = "xchg" => /\ NextInstruction /\ stack' = Append(Code!Front(stack), reg[i[2]])
                             /\ reg' = [reg EXCEPT ![i[2]] = Code!Last(stack)]
                             /\ UNCHANGED flags
         /\ i[1] = "mov" => /\ NextInstruction /\ reg' = [reg EXCEPT ![i[2]] = reg[i[3]]]
                            /\ UNCHANGED <<flags, stack>>
         /\ i[1] = "set" => /\ NextInstruction /\ reg' = [reg EXCEPT ![i[2]] = i[3]]
                            /\ UNCHANGED <<flags, stack>>
         /\ i[1] = "flag" => /\ NextInstruction
                             /\ reg' = [reg EXCEPT ![i[2]] = IF enabled THEN "1" ELSE "0"]
                             /\ UNCHANGED <<flags, stack>>
         /\ i[1] = "cmp" => /\ NextInstruction
                            /\ flags' = IF reg[i[2]] = "0" THEN "equal" ELSE "lost"
                            /\ UNCHANGED <<reg, stack>>
         /\ i[1] = "je" => /\ place' = place
                           /\ counter' = IF flags = "equal" THEN i[2] ELSE counter + 1
                           /\ UNCHANGED <<reg, flags, stack>>
         /\ i[1] = "jmp" => /\ place' = i[2] /\ counter' = 1
                            /\ UNCHANGED <<reg, flags, stack>>
         /\ i[1] = "reserve" => /\ NextInstruction /\ stack' = stack \o Junk
                                /\ UNCHANGED <<reg, flags>>
         /\ i[1] = "release" => /\ NextInstruction /\ stack' = SubSeq(stack, 1, Len(stack) - 16)
                                /\ UNCHANGED <<reg, flags>>
         /\ i[1] = "store" => /\ NextInstruction
                              /\ stack' = [stack EXCEPT ![Len(stack) - i[2] + 1] = reg[i[3]]]
                              /\ UNCHANGED <<reg, flags>>
         /\ i[1] = "load" => /\ NextInstruction
                             /\ reg' = [reg EXCEPT ![i[3]] = stack[Len(stack) - i[2] + 1]]
                             /\ UNCHANGED <<flags, stack>>
         /\ i[1] = "call" =>
              /\ NextInstruction
              /\ \E used \in SUBSET {"registers", "slots"} :
                   reg' = RegistersAfter(used) /\ stack' = SlotsAfter(used)
         /\ i[1] = "ret" => /\ place' = Code!Last(stack) /\ counter' = 1
                            /\ stack' = Code!Front(stack)
                            /\ UNCHANGED <<reg, flags>>
<1> USE DEF Code!Next, Code!Push, Code!Pop, Code!Exchange, Code!Move, Code!Compare, Code!Branch,
            Code!Frame, Code!Call, Code!Ret, Code!At, Code!Continues, Code!Goes, Code!Sets,
            Code!Top, Code!Front, Code!Last, Code!inputs, NextInstruction, Junk
<1>1. UNCHANGED <<use, enabled, shape, arity, returns>>
  OBVIOUS
<1>2. place \in DOMAIN Code!Code
  OBVIOUS
<1>3. i[1] = "push" => /\ NextInstruction /\ stack' = Append(stack, reg[i[2]])
                       /\ UNCHANGED <<reg, flags>>
  OBVIOUS
<1>4. i[1] = "pop" => /\ NextInstruction /\ stack' = Code!Front(stack)
                      /\ reg' = [reg EXCEPT ![i[2]] = Code!Last(stack)]
                      /\ UNCHANGED flags
  OBVIOUS
<1>5. i[1] = "xchg" => /\ NextInstruction /\ stack' = Append(Code!Front(stack), reg[i[2]])
                       /\ reg' = [reg EXCEPT ![i[2]] = Code!Last(stack)]
                       /\ UNCHANGED flags
  OBVIOUS
<1>6. i[1] = "mov" => /\ NextInstruction /\ reg' = [reg EXCEPT ![i[2]] = reg[i[3]]]
                      /\ UNCHANGED <<flags, stack>>
  OBVIOUS
<1>7. i[1] = "set" => /\ NextInstruction /\ reg' = [reg EXCEPT ![i[2]] = i[3]]
                      /\ UNCHANGED <<flags, stack>>
  OBVIOUS
<1>8. i[1] = "flag" => /\ NextInstruction
                       /\ reg' = [reg EXCEPT ![i[2]] = IF enabled THEN "1" ELSE "0"]
                       /\ UNCHANGED <<flags, stack>>
  OBVIOUS
<1>9. i[1] = "cmp" => /\ NextInstruction
                      /\ flags' = IF reg[i[2]] = "0" THEN "equal" ELSE "lost"
                      /\ UNCHANGED <<reg, stack>>
  OBVIOUS
<1>10. i[1] = "je" => /\ place' = place
                      /\ counter' = IF flags = "equal" THEN i[2] ELSE counter + 1
                      /\ UNCHANGED <<reg, flags, stack>>
  OBVIOUS
<1>11. i[1] = "jmp" => /\ place' = i[2] /\ counter' = 1
                       /\ UNCHANGED <<reg, flags, stack>>
  OBVIOUS
<1>12. i[1] = "reserve" => /\ NextInstruction /\ stack' = stack \o Junk
                           /\ UNCHANGED <<reg, flags>>
  OBVIOUS
<1>13. i[1] = "release" => /\ NextInstruction /\ stack' = SubSeq(stack, 1, Len(stack) - 16)
                           /\ UNCHANGED <<reg, flags>>
  OBVIOUS
<1>14. i[1] = "store" => /\ NextInstruction
                         /\ stack' = [stack EXCEPT ![Len(stack) - i[2] + 1] = reg[i[3]]]
                         /\ UNCHANGED <<reg, flags>>
  OBVIOUS
<1>15. i[1] = "load" => /\ NextInstruction
                        /\ reg' = [reg EXCEPT ![i[3]] = stack[Len(stack) - i[2] + 1]]
                        /\ UNCHANGED <<flags, stack>>
  OBVIOUS
<1>16. i[1] = "call" =>
         /\ NextInstruction
         /\ \E used \in SUBSET {"registers", "slots"} :
              reg' = RegistersAfter(used) /\ stack' = SlotsAfter(used)
  BY DEF RegistersAfter, SlotsAfter
<1>17. i[1] = "ret" => /\ place' = Code!Last(stack) /\ counter' = 1
                       /\ stack' = Code!Front(stack)
                       /\ UNCHANGED <<reg, flags>>
  OBVIOUS
<1> QED BY <1>1, <1>2, <1>3, <1>4, <1>5, <1>6, <1>7, <1>8, <1>9, <1>10, <1>11, <1>12,
          <1>13, <1>14, <1>15, <1>16, <1>17

(* No instruction changes what the code is given.                          *)
SameInputs == UNCHANGED <<use, enabled, shape, arity, returns>>

(* What registers hold where the code is entered; a thunk is entered with  *)
(* its arguments in registers.                                             *)
LEMMA EnteredIs ==
  ASSUME CodeInputs
  PROVE  /\ Code!Entered \in [Registers -> CodeValues]
         /\ arity >= 1 => Code!Entered["rcx"] = "a"
         /\ arity >= 2 => Code!Entered["rdx"] = "b"
         /\ arity >= 3 => Code!Entered["r8"] = "c"
<1> DEFINE abc == <<"a", "b", "c">>
<1>1. /\ abc \in Seq({"a", "b", "c"}) /\ Len(abc) = 3 /\ abc[1] = "a" /\ abc[2] = "b" /\ abc[3] = "c"
  OBVIOUS
<1> HIDE DEF abc
<1>2. Code!Passed = Code!Arguments /\ Code!Arguments = SubSeq(abc, 1, arity)
  BY <1>1 DEF Code!Passed, Code!Arguments, CodeInputs, abc
<1>3. Len(Code!Passed) = arity /\ \A i \in 1 .. arity : Code!Passed[i] = abc[i]
  BY <1>1, <1>2 DEF CodeInputs
<1>4. DOMAIN Code!Passed = 1 .. arity /\ \A i \in 1 .. arity : Code!Passed[i] \in {"a", "b", "c"}
  BY <1>1, <1>2, <1>3 DEF CodeInputs
<1>5. \A i, j \in 1 .. 4 : Code!ArgumentRegisters[i] = Code!ArgumentRegisters[j] => i = j
  BY DEF Code!ArgumentRegisters
<1> DEFINE arrives(i, r) == i \in 1 .. arity /\ Code!ArgumentRegisters[i] = r
           at(r) == CHOOSE i \in DOMAIN Code!Passed : Code!ArgumentRegisters[i] = r
<1>6. Registers = Code!General \cup Code!ToSet(Code!Xmm)
  BY DEF Registers, Code!ToSet, Code!Xmm
<1>7. Code!Entered = [r \in Registers |-> IF \E i \in DOMAIN Code!Passed : Code!ArgumentRegisters[i] = r
                                           THEN Code!Passed[at(r)] ELSE r]
  BY <1>6 DEF Code!Entered
<1>8. ASSUME NEW r, NEW i \in 1 .. arity, Code!ArgumentRegisters[i] = r
      PROVE  at(r) = i
  BY <1>4, <1>5, <1>8 DEF CodeInputs
<1> HIDE DEF at
<1>9. ASSUME NEW r \in Registers, NEW i \in 1 .. arity, Code!ArgumentRegisters[i] = r
      PROVE  Code!Entered[r] = Code!Passed[i]
  BY <1>4, <1>7, <1>8, <1>9
<1>10. ASSUME NEW r \in Registers
       PROVE  Code!Entered[r] \in CodeValues
  BY <1>4, <1>7, <1>9, <1>10 DEF CodeValues
<1>11. Code!ArgumentRegisters[1] = "rcx" /\ Code!ArgumentRegisters[2] = "rdx" /\ Code!ArgumentRegisters[3] = "r8"
  BY DEF Code!ArgumentRegisters
<1>12. {"rcx", "rdx", "r8"} \subseteq Registers
  BY RegistersAre
<1>13. arity >= 1 => Code!Entered["rcx"] = Code!Passed[1]
  BY <1>9, <1>11, <1>12 DEF CodeInputs
<1>14. arity >= 2 => Code!Entered["rdx"] = Code!Passed[2]
  BY <1>9, <1>11, <1>12 DEF CodeInputs
<1>15. arity >= 3 => Code!Entered["r8"] = Code!Passed[3]
  BY <1>9, <1>11, <1>12 DEF CodeInputs
<1> QED BY <1>1, <1>3, <1>7, <1>10, <1>13, <1>14, <1>15 DEF CodeInputs

(* What they held there does not change.                                   *)
LEMMA EnteredStays ==
  ASSUME SameInputs
  PROVE  Code!Entered' = Code!Entered
  BY DEF SameInputs, Code!Entered, Code!Passed, Code!Arguments

(* What pushing does to the stack.                                         *)
LEMMA Pushed ==
  ASSUME NEW d \in Nat, Depth(d), NEW v \in CodeValues, stack' = Append(stack, v), use' = use
  PROVE  /\ Depth(d + 1)'
         /\ Len(stack') = Len(stack) + 1
         /\ stack'[Len(stack')] = v
         /\ \A k \in 1 .. Len(stack) : stack'[k] = stack[k]
  BY DEF Depth

(* What popping does to the stack.                                         *)
LEMMA Popped ==
  ASSUME NEW d \in Nat \ {0}, Depth(d), stack' = Code!Front(stack), use' = use
  PROVE  /\ Depth(d - 1)'
         /\ Len(stack') = Len(stack) - 1
         /\ \A k \in 1 .. Len(stack') : stack'[k] = stack[k]
  BY DEF Depth, Code!Front

(* What exchanging the top of the stack does to it.                        *)
LEMMA Exchanged ==
  ASSUME NEW d \in Nat \ {0}, Depth(d), NEW v \in CodeValues,
         stack' = Append(Code!Front(stack), v), use' = use
  PROVE  /\ Depth(d)'
         /\ Len(stack') = Len(stack)
         /\ stack'[Len(stack')] = v
  BY DEF Depth, Code!Front

(* What setting a register does to the registers.                          *)
LEMMA Loaded ==
  ASSUME NEW S, SameBut(S), NEW r \in Registers, NEW v \in CodeValues,
         reg' = [reg EXCEPT ![r] = v], SameInputs
  PROVE  /\ reg'[r] = v
         /\ \A q \in Registers \ {r} : reg'[q] = reg[q]
         /\ SameBut(S \cup {r})'
         /\ v = Code!Entered[r] => SameBut(S \ {r})'
  BY EnteredStays DEF SameBut

(* A step within a jump, and the step that leaves it: the target is        *)
(* reached with rax restored and the stack as it was.                      *)
LEMMA JumpStep ==
  ASSUME NEW S, NEW v \in CodeValues, NEW t \in CodeValues, NEW n \in 1 .. 4, Jumping(n, S, v, t),
         Code!Next, Code!Instruction = Code!JumpThrough(t)[n]
  PROVE  /\ SameInputs /\ flags' = flags
         /\ \A r \in Registers \ {"rax"} : reg'[r] = reg[r]
         /\ n < 4 => place' = place /\ counter' = counter + 1 /\ Jumping(n + 1, S, v, t)'
         /\ n = 4 => place' = t /\ counter' = 1 /\ Depth(0)' /\ SameBut({"rax"} \cup S)' /\ reg'["rax"] = v
<1>1. "rax" \in Registers
  BY RegistersAre
<1>2. SameInputs
  BY Executed DEF SameInputs
<1>3. Code!Entered' = Code!Entered
  BY <1>2, EnteredStays
<1>4. use' = use
  BY <1>2 DEF SameInputs
<1>5. CASE n = 1
  <2>1. Code!Instruction = <<"push", "rax">>
    BY <1>5, JumpText
  <2>2. NextInstruction /\ stack' = Append(stack, reg["rax"]) /\ UNCHANGED <<reg, flags>>
    BY <2>1, Executed
  <2>3. Depth(0) /\ reg["rax"] = v
    BY <1>5 DEF Jumping
  <2>4. Depth(0 + 1)' /\ stack'[Len(stack')] = v
    BY <1>4, <2>2, <2>3, Pushed
  <2>5. SameBut({"rax"} \cup S)'
    BY <1>3, <2>2 DEF Jumping, SameBut
  <2> QED BY <1>2, <1>5, <2>2, <2>3, <2>4, <2>5 DEF Jumping, NextInstruction
<1>6. CASE n = 2
  <2>1. Code!Instruction = <<"set", "rax", t>>
    BY <1>6, JumpText
  <2>2. NextInstruction /\ reg' = [reg EXCEPT !["rax"] = t] /\ UNCHANGED <<flags, stack>>
    BY <2>1, Executed
  <2>3. SameBut({"rax"} \cup S)
    BY DEF Jumping
  <2>4. /\ reg'["rax"] = t
        /\ \A q \in Registers \ {"rax"} : reg'[q] = reg[q]
        /\ SameBut({"rax"} \cup S)'
    <3>1. SameBut(({"rax"} \cup S) \cup {"rax"})'
      BY <1>1, <1>2, <2>2, <2>3, Loaded
    <3>2. ({"rax"} \cup S) \cup {"rax"} = {"rax"} \cup S
      OBVIOUS
    <3> QED BY <1>1, <1>2, <2>2, <2>3, <3>1, <3>2, Loaded
  <2>5. Depth(1) /\ stack[Len(stack)] = v
    BY <1>6 DEF Jumping
  <2>6. Depth(1)' /\ stack'[Len(stack')] = v
    BY <1>4, <2>2, <2>5 DEF Depth
  <2> QED BY <1>2, <1>6, <2>2, <2>4, <2>6 DEF Jumping, NextInstruction
<1>7. CASE n = 3
  <2>1. Code!Instruction = <<"xchg", "rax">>
    BY <1>7, JumpText
  <2>2. NextInstruction /\ stack' = Append(Code!Front(stack), reg["rax"]) /\ UNCHANGED flags
        /\ reg' = [reg EXCEPT !["rax"] = Code!Last(stack)]
    BY <2>1, Executed
  <2>3. Depth(1) /\ stack[Len(stack)] = v /\ reg["rax"] = t /\ SameBut({"rax"} \cup S)
    BY <1>7 DEF Jumping
  <2>4. reg' = [reg EXCEPT !["rax"] = v]
    BY <2>2, <2>3 DEF Code!Last
  <2>5. /\ reg'["rax"] = v
        /\ \A q \in Registers \ {"rax"} : reg'[q] = reg[q]
        /\ SameBut({"rax"} \cup S)'
    <3>1. SameBut(({"rax"} \cup S) \cup {"rax"})'
      BY <1>1, <1>2, <2>4, <2>3, Loaded
    <3>2. ({"rax"} \cup S) \cup {"rax"} = {"rax"} \cup S
      OBVIOUS
    <3> QED BY <1>1, <1>2, <2>4, <2>3, <3>1, <3>2, Loaded
  <2>6. Depth(1)' /\ stack'[Len(stack')] = t
    BY <1>4, <2>2, <2>3, Exchanged
  <2> QED BY <1>2, <1>7, <2>2, <2>5, <2>6 DEF Jumping, NextInstruction
<1>8. CASE n = 4
  <2>1. Code!Instruction = <<"ret">>
    BY <1>8, JumpText
  <2>2. place' = Code!Last(stack) /\ counter' = 1 /\ stack' = Code!Front(stack) /\ UNCHANGED <<reg, flags>>
    BY <2>1, Executed
  <2>3. Depth(1) /\ stack[Len(stack)] = t /\ reg["rax"] = v /\ SameBut({"rax"} \cup S)
    BY <1>8 DEF Jumping
  <2>4. place' = t
    BY <2>2, <2>3 DEF Code!Last
  <2>5. Depth(1 - 1)'
    BY <1>4, <2>2, <2>3, Popped
  <2>6. SameBut({"rax"} \cup S)'
    BY <1>3, <2>2, <2>3 DEF SameBut
  <2> QED BY <1>2, <1>8, <2>2, <2>3, <2>4, <2>5, <2>6
<1> QED BY <1>5, <1>6, <1>7, <1>8

(* More registers may differ.                                              *)
LEMMA SameOutside ==
  ASSUME NEW S, NEW T, S \subseteq T, SameBut(S)
  PROVE  SameBut(T)
  BY DEF SameBut

(* What depends on what the code is given does not change.                 *)
LEMMA InputsStay ==
  ASSUME CodeInputs, SameInputs
  PROVE  CodeInputs' /\ Altered' = Altered /\ DisplacedAt' = DisplacedAt /\ RcxIs' = RcxIs /\ Lossy' = Lossy
  BY EnteredStays DEF CodeInputs, SameInputs, Altered, DisplacedAt, RcxIs, Lost, Lossy

(* Which instruction the counter is at.                                    *)
LEMMA CodeIs ==
  /\ DOMAIN Code!Code = {"entry", "trampoline", "page", "original", "thunk"}
  /\ place = "entry" => Code!Instruction = <<<<"jmp", "trampoline">>>>[counter]
  /\ place = "trampoline" =>
       Code!Instruction = Code!JumpThrough(IF use = "hook" THEN "hook" ELSE "page")[counter]
  /\ place = "page" => Code!Instruction = Code!PageText[counter]
  /\ place = "original" => Code!Instruction = Code!JumpThrough("behind")[counter]
  /\ place = "thunk" => Code!Instruction = (Code!ShiftArguments \o Code!JumpThrough("member"))[counter]
<1> DEFINE target == IF use = "hook" THEN "hook" ELSE "page"
           entry == <<<<"jmp", "trampoline">>>>
           through(t) == Code!JumpThrough(t)
           thunk == Code!ShiftArguments \o through("member")
           texts == [entry |-> entry, trampoline |-> through(target), page |-> Code!PageText,
                     original |-> through("behind"), thunk |-> thunk]
<1>1. Code!Code = texts /\ Code!Instruction = Code!Code[place][counter]
  BY DEF Code!Code, Code!Instruction
<1> HIDE DEF target, entry, through, thunk
<1>2. /\ DOMAIN texts = {"entry", "trampoline", "page", "original", "thunk"}
      /\ texts["entry"] = entry
      /\ texts["trampoline"] = through(target)
      /\ texts["page"] = Code!PageText
      /\ texts["original"] = through("behind")
      /\ texts["thunk"] = thunk
  OBVIOUS
<1> HIDE DEF texts
<1>3. /\ place = "entry" => Code!Instruction = entry[counter]
      /\ place = "trampoline" => Code!Instruction = through(target)[counter]
      /\ place = "page" => Code!Instruction = Code!PageText[counter]
      /\ place = "original" => Code!Instruction = through("behind")[counter]
      /\ place = "thunk" => Code!Instruction = thunk[counter]
  BY <1>1, <1>2
<1> QED BY <1>1, <1>2, <1>3 DEF target, entry, through, thunk

(* A step where a page checks its flag.                                    *)
LEMMA CheckStep ==
  ASSUME CodeInv, Code!Next, place = "page", counter \in 1 .. 5
  PROVE  SameInputs /\ place' = "page" /\ counter' \in Nat \ {0} /\ OnPage(counter)'
<1> DEFINE E == Code!Entered["rax"]
<1>1. /\ "rax" \in Registers
      /\ SameInputs
      /\ Code!Entered' = Code!Entered
      /\ use' = use /\ enabled' = enabled
      /\ Code!Entered["rax"] \in CodeValues
      /\ Checking(counter)
  BY RegistersAre, Executed, EnteredStays, EnteredIs DEF SameInputs, CodeInv, OnPage
<1>2. /\ \A i \in 1 .. 4 : Code!PageText[i] = Code!CheckText[i]
      /\ Code!PageText[5] = <<"je", DisplacedAt>>
  <2>1. CASE use = "patch"
    BY <2>1, PatchPage DEF CodeInv, CodeInputs, DisplacedAt
  <2>2. CASE use = "callback"
    BY <2>2, CallbackPage DEF CodeInv, CodeInputs, DisplacedAt
  <2> QED BY <2>1, <2>2 DEF CodeInv
<1>3. Code!Instruction = Code!PageText[counter]
  BY CodeIs
<1>4. DisplacedAt \in {7, 71} /\ DisplacedAt' = DisplacedAt
  BY <1>1, InputsStay DEF DisplacedAt, CodeInv
<1>5. ASSUME NEW c \in 2 .. 5, counter + 1 = c, NextInstruction, Checking(c)'
      PROVE  SameInputs /\ place' = "page" /\ counter' \in Nat \ {0} /\ OnPage(counter)'
  BY <1>1, <1>4, <1>5 DEF OnPage, NextInstruction
<1>6. CASE counter = 1
  <2>1. Code!Instruction = <<"push", "rax">>
    BY <1>2, <1>3, <1>6, CheckText
  <2>2. NextInstruction /\ stack' = Append(stack, reg["rax"]) /\ UNCHANGED <<reg, flags>>
    BY <2>1, Executed
  <2>3. Depth(0) /\ SameBut({})
    BY <1>1, <1>6 DEF Checking
  <2>4. reg["rax"] = Code!Entered["rax"]
    BY <1>1, <2>3 DEF SameBut
  <2>5. PICK v \in CodeValues : v = Code!Entered["rax"]
    BY <1>1
  <2>6. Depth(0 + 1)' /\ stack'[Len(stack')] = v
    BY <1>1, <2>2, <2>3, <2>4, <2>5, Pushed
  <2>7. SameBut({"rax"})'
    BY <1>1, <2>2, <2>3 DEF SameBut
  <2>8. Checking(2)'
    BY <1>1, <2>5, <2>6, <2>7 DEF Checking
  <2> QED BY <1>5, <1>6, <2>2, <2>8
<1>7. CASE counter = 2
  <2>1. Code!Instruction = <<"flag", "rax">>
    BY <1>2, <1>3, <1>7, CheckText
  <2>2. PICK v \in CodeValues : v = IF enabled THEN "1" ELSE "0"
    BY DEF CodeValues
  <2>3. NextInstruction /\ reg' = [reg EXCEPT !["rax"] = v] /\ UNCHANGED <<flags, stack>>
    BY <2>1, <2>2, Executed
  <2>4. Depth(1) /\ SameBut({"rax"}) /\ stack[Len(stack)] = Code!Entered["rax"]
    BY <1>1, <1>7 DEF Checking
  <2>5. reg'["rax"] = v /\ SameBut({"rax"} \cup {"rax"})'
    BY <1>1, <2>3, <2>4, Loaded
  <2>6. SameBut({"rax"})'
    BY <2>5, SameOutside
  <2>7. Depth(1)'
    BY <1>1, <2>3, <2>4 DEF Depth
  <2>8. Checking(3)'
    BY <1>1, <2>2, <2>3, <2>4, <2>5, <2>6, <2>7 DEF Checking
  <2> QED BY <1>5, <1>7, <2>3, <2>8
<1>8. CASE counter = 3
  <2>1. Code!Instruction = <<"cmp", "rax">>
    BY <1>2, <1>3, <1>8, CheckText
  <2>2. NextInstruction /\ flags' = (IF reg["rax"] = "0" THEN "equal" ELSE "lost") /\ UNCHANGED <<reg, stack>>
    BY <2>1, Executed
  <2>3. /\ Depth(1) /\ SameBut({"rax"}) /\ stack[Len(stack)] = Code!Entered["rax"]
        /\ reg["rax"] = IF enabled THEN "1" ELSE "0"
    BY <1>1, <1>8 DEF Checking
  <2>4. Depth(1)' /\ SameBut({"rax"})'
    BY <1>1, <2>2, <2>3 DEF Depth, SameBut
  <2>5. Checking(4)'
    BY <1>1, <2>2, <2>3, <2>4 DEF Checking
  <2> QED BY <1>5, <1>8, <2>2, <2>5
<1>9. CASE counter = 4
  <2>1. Code!Instruction = <<"pop", "rax">>
    BY <1>2, <1>3, <1>9, CheckText
  <2>2. PICK v \in CodeValues : v = Code!Entered["rax"]
    BY <1>1
  <2>3. Depth(1) /\ SameBut({"rax"}) /\ stack[Len(stack)] = v /\ flags = IF enabled THEN "lost" ELSE "equal"
    BY <1>1, <1>9, <2>2 DEF Checking
  <2>4. NextInstruction /\ stack' = Code!Front(stack) /\ reg' = [reg EXCEPT !["rax"] = v] /\ UNCHANGED flags
    BY <2>1, <2>3, Executed DEF Code!Last
  <2>5. SameBut({"rax"} \ {"rax"})'
    BY <1>1, <2>2, <2>3, <2>4, Loaded
  <2>6. SameBut({})'
    BY <2>5, SameOutside
  <2>7. Depth(1 - 1)'
    BY <1>1, <2>3, <2>4, Popped
  <2>8. Checking(5)'
    BY <1>1, <2>3, <2>4, <2>6, <2>7 DEF Checking
  <2> QED BY <1>5, <1>9, <2>4, <2>8
<1>10. CASE counter = 5
  <2>1. Code!Instruction = <<"je", DisplacedAt>>
    BY <1>2, <1>3, <1>10
  <2>2. /\ place' = place /\ counter' = (IF flags = "equal" THEN DisplacedAt ELSE counter + 1)
        /\ UNCHANGED <<reg, flags, stack>>
    BY <2>1, Executed
  <2>3. Depth(0) /\ SameBut({}) /\ flags = IF enabled THEN "lost" ELSE "equal"
    BY <1>1, <1>10 DEF Checking
  <2>4. Depth(0)' /\ SameBut({})'
    BY <1>1, <2>2, <2>3 DEF Depth, SameBut
  <2>5. CASE enabled
    <3>1. counter' = 6
      BY <1>10, <2>2, <2>3, <2>5
    <3>2. Saving(6)'
      BY <2>4 DEF Saving, Saved
    <3>3. InFrame(6)'
      BY <3>2 DEF InFrame
    <3> QED BY <1>1, <1>4, <2>2, <2>4, <2>5, <3>1, <3>3 DEF OnPage
  <2>6. CASE ~enabled
    <3>1. counter' = DisplacedAt
      BY <2>2, <2>3, <2>6
    <3>2. SameBut(Altered)'
      BY <2>4, SameOutside DEF SameBut
    <3>3. "rcx" \in Registers
      BY RegistersAre
    <3>4. reg'["rcx"] = RcxIs'
      BY <1>1, <2>4, <2>6, <3>3 DEF RcxIs, SameBut
    <3> QED BY <1>1, <1>4, <2>2, <2>4, <3>1, <3>2, <3>4 DEF OnPage
  <2> QED BY <2>5, <2>6
<1> QED BY <1>6, <1>7, <1>8, <1>9, <1>10

(* What reserving the slots does to the stack.                             *)
LEMMA Reserved ==
  ASSUME NEW d \in Nat, Depth(d), stack' = stack \o Junk, use' = use
  PROVE  /\ Depth(d + 16)'
         /\ \A k \in 1 .. Len(stack) : stack'[k] = stack[k]
<1>1. Junk \in Seq(CodeValues) /\ Len(Junk) = 16
  BY DEF CodeValues, Junk
<1>2. stack \in Seq(CodeValues) /\ Len(stack) \in Nat /\ stack[1] = "caller" /\ Len(stack) >= 1
  BY DEF Depth
<1>3. /\ stack' \in Seq(CodeValues)
      /\ Len(stack') = Len(stack) + Len(Junk)
      /\ \A k \in 1 .. Len(stack) + Len(Junk) :
           stack'[k] = IF k <= Len(stack) THEN stack[k] ELSE Junk[k - Len(stack)]
  BY <1>1, <1>2, ConcatProperties, Zenon
<1>4. \A k \in 1 .. Len(stack) : stack'[k] = stack[k]
  BY <1>1, <1>2, <1>3
<1> QED BY <1>1, <1>2, <1>3, <1>4 DEF Depth

(* What releasing the slots does to the stack.                             *)
LEMMA Released ==
  ASSUME NEW d \in Nat, d >= 16, Depth(d), stack' = SubSeq(stack, 1, Len(stack) - 16), use' = use
  PROVE  /\ Depth(d - 16)'
         /\ Len(stack') = Len(stack) - 16
         /\ \A k \in 1 .. Len(stack') : stack'[k] = stack[k]
  BY DEF Depth

(* What storing to a slot does to the stack.                               *)
LEMMA SlotStored ==
  ASSUME NEW d \in Nat, Depth(d), NEW p \in 2 .. Len(stack), NEW v \in CodeValues,
         stack' = [stack EXCEPT ![p] = v], use' = use
  PROVE  /\ Depth(d)'
         /\ Len(stack') = Len(stack)
         /\ stack'[p] = v
         /\ \A k \in 1 .. Len(stack) \ {p} : stack'[k] = stack[k]
<1>1. stack \in Seq(CodeValues) /\ Len(stack) \in Nat /\ p \in 1 .. Len(stack)
  BY DEF Depth
<1>2. /\ stack' \in Seq(CodeValues)
      /\ Len(stack') = Len(stack)
      /\ \A j \in 1 .. Len(stack) : stack'[j] = IF j = p THEN v ELSE stack[j]
  <2>1. /\ [stack EXCEPT ![p] = v] \in Seq(CodeValues)
        /\ Len([stack EXCEPT ![p] = v]) = Len(stack)
        /\ \A j \in 1 .. Len(stack) : [stack EXCEPT ![p] = v][j] = IF j = p THEN v ELSE stack[j]
    BY <1>1, ExceptSeq
  <2> QED BY <2>1
<1>3. 1 \in 1 .. Len(stack) /\ 1 # p
  BY <1>1
<1> QED BY <1>1, <1>2, <1>3 DEF Depth

-----------------------------------------------------------------------------
(* What is known in front of every instruction of a callback's frame.      *)
LEMMA FrameStep ==
  ASSUME CodeInv, Code!Next, place = "page", use = "callback", NEW c \in 6 .. 70, counter = c
  PROVE  /\ SameInputs /\ use' = use /\ Code!Entered' = Code!Entered
         /\ Code!Entered \in [Registers -> CodeValues]
         /\ enabled /\ InFrame(c)
         /\ Code!Instruction = Code!PageText[c]
         /\ shape = "plain"
<1>1. SameInputs
  BY Executed DEF SameInputs
<1>2. Code!Entered' = Code!Entered /\ use' = use
  BY <1>1, EnteredStays DEF SameInputs
<1>3. CodeInputs /\ OnPage(c)
  BY DEF CodeInv
<1>4. Code!Entered \in [Registers -> CodeValues]
  BY <1>3, EnteredIs
<1>5. DisplacedAt = 71
  BY DEF DisplacedAt
<1>6. enabled /\ InFrame(c)
  BY <1>3, <1>5 DEF OnPage
<1> QED BY <1>1, <1>2, <1>3, <1>4, <1>6, CodeIs DEF CodeInputs

(* pushAll saves one more register.                                        *)
LEMMA SavingStep ==
  ASSUME CodeInv, Code!Next, place = "page", use = "callback", NEW c \in 6 .. 19, counter = c
  PROVE  NextInstruction /\ Saving(c + 1)'
<1> DEFINE k == c - 5
<1>1. /\ SameInputs /\ use' = use /\ Code!Entered' = Code!Entered
      /\ Code!Entered \in [Registers -> CodeValues]
      /\ InFrame(c)
      /\ Code!Instruction = Code!PageText[c]
      /\ shape = "plain"
  BY FrameStep
<1>2. Depth(c - 6) /\ SameBut({}) /\ Saved(c - 6)
  BY <1>1 DEF InFrame, Saving
<1>3. Code!Instruction = <<"push", Code!PushOrder[k]>>
  BY <1>1, CallbackPage
<1>4. Code!PushOrder[k] \in Registers
  BY Pushes
<1>5. PICK v \in CodeValues : v = Code!Entered[Code!PushOrder[k]]
  BY <1>1, <1>4
<1>6. reg[Code!PushOrder[k]] = v
  BY <1>2, <1>4, <1>5 DEF SameBut
<1>7. NextInstruction /\ stack' = Append(stack, v) /\ UNCHANGED <<reg, flags>>
  BY <1>3, <1>6, Executed
<1>8. c - 6 \in Nat /\ (c - 6) + 1 = (c + 1) - 6
  OBVIOUS
<1>9. /\ Depth((c - 6) + 1)'
      /\ Len(stack') = Len(stack) + 1
      /\ stack'[Len(stack')] = v
      /\ \A j \in 1 .. Len(stack) : stack'[j] = stack[j]
  BY <1>1, <1>2, <1>7, <1>8, Pushed
<1>10. Len(stack) = (c - 6) + 2
  BY <1>2 DEF Depth
<1>11. SameBut({})'
  BY <1>1, <1>2, <1>7 DEF SameBut
<1>12. ASSUME NEW j \in 1 .. (c + 1) - 6
       PROVE  stack'[2 + j] = Code!Entered'[Code!PushOrder[j]]
  <2>1. CASE j = k
    <3>1. Len(stack') = 2 + j
      BY <1>9, <1>10, <2>1
    <3> QED BY <1>1, <1>5, <1>9, <2>1, <3>1
  <2>2. CASE j # k
    <3>1. j \in 1 .. c - 6 /\ 2 + j \in 1 .. Len(stack)
      BY <1>10, <2>2
    <3> QED BY <1>1, <1>2, <1>9, <3>1 DEF Saved
  <2> QED BY <2>1, <2>2
<1>13. Saved((c + 1) - 6)'
  BY <1>12 DEF Saved, Code!PushOrder
<1> QED BY <1>7, <1>8, <1>9, <1>11, <1>13 DEF Saving

(* pushAll reserves the slots.                                             *)
LEMMA ReserveStep ==
  ASSUME CodeInv, Code!Next, place = "page", use = "callback", counter = 20
  PROVE  NextInstruction /\ Storing(21)'
<1>1. /\ SameInputs /\ use' = use /\ Code!Entered' = Code!Entered
      /\ InFrame(20)
      /\ Code!Instruction = Code!PageText[20]
      /\ shape = "plain"
  BY FrameStep
<1>2. Depth(14) /\ SameBut({}) /\ Saved(14)
  BY <1>1 DEF InFrame, Saving
<1>3. Code!Instruction = <<"reserve">>
  BY <1>1, CallbackPage
<1>4. NextInstruction /\ stack' = stack \o Junk /\ UNCHANGED <<reg, flags>>
  BY <1>3, Executed
<1>5. Depth(14 + 16)' /\ \A k \in 1 .. Len(stack) : stack'[k] = stack[k]
  BY <1>1, <1>2, <1>4, Reserved
<1>6. Len(stack) = 16
  BY <1>2 DEF Depth
<1>7. Saved(14)'
  BY <1>1, <1>2, <1>5, <1>6 DEF Saved, Code!PushOrder
<1>8. SameBut({})'
  BY <1>1, <1>2, <1>4 DEF SameBut
<1> QED BY <1>4, <1>5, <1>7, <1>8 DEF Storing, Slots

(* pushAll stores one more register.                                       *)
LEMMA StoringStep ==
  ASSUME CodeInv, Code!Next, place = "page", use = "callback", NEW c \in 21 .. 36, counter = c
  PROVE  NextInstruction /\ Storing(c + 1)'
<1> DEFINE n == c - 20
<1>1. /\ SameInputs /\ use' = use /\ Code!Entered' = Code!Entered
      /\ Code!Entered \in [Registers -> CodeValues]
      /\ InFrame(c)
      /\ Code!Instruction = Code!PageText[c]
      /\ shape = "plain"
  BY FrameStep
<1>2. Depth(30) /\ SameBut({}) /\ Saved(14) /\ Slots({m \in 1 .. 16 : m <= c - 21})
  BY <1>1 DEF InFrame, Storing
<1>3. Code!Instruction = <<"store", n, Code!Xmm[n]>>
  BY <1>1, CallbackPage
<1>4. Code!Xmm[n] \in Registers
  BY DEF Registers
<1>5. PICK v \in CodeValues : v = Code!Entered[Code!Xmm[n]]
  BY <1>1, <1>4
<1>6. reg[Code!Xmm[n]] = v
  BY <1>2, <1>4, <1>5 DEF SameBut
<1>7. Len(stack) = 32
  BY <1>2 DEF Depth
<1>8. NextInstruction /\ stack' = [stack EXCEPT ![Len(stack) - n + 1] = v] /\ UNCHANGED <<reg, flags>>
  BY <1>3, <1>6, Executed
<1>9. Len(stack) - n + 1 = 33 - n /\ 33 - n \in 2 .. Len(stack)
  BY <1>7
<1>10. /\ Depth(30)'
       /\ stack'[33 - n] = v
       /\ \A i \in 1 .. Len(stack) \ {33 - n} : stack'[i] = stack[i]
  BY <1>1, <1>2, <1>8, <1>9, SlotStored
<1>11. \A i \in 1 .. 32 : i # 33 - n => stack'[i] = stack[i]
  BY <1>7, <1>10
<1>12. Saved(14)'
  BY <1>1, <1>2, <1>11 DEF Saved, Code!PushOrder
<1>13. ASSUME NEW m \in 1 .. 16, m <= (c + 1) - 21
       PROVE  stack'[33 - m] = Code!Entered'[Code!Xmm[m]]
  <2>1. CASE m = n
    BY <1>1, <1>5, <1>10, <2>1
  <2>2. CASE m # n
    <3>1. m <= c - 21 /\ 33 - m \in 1 .. 32 /\ 33 - m # 33 - n
      BY <1>13, <2>2
    <3> QED BY <1>1, <1>2, <1>11, <3>1 DEF Slots
  <2> QED BY <2>1, <2>2
<1>14. Slots({m \in 1 .. 16 : m <= (c + 1) - 21})'
  BY <1>13 DEF Slots, Code!Xmm
<1>15. SameBut({})'
  BY <1>1, <1>2, <1>8 DEF SameBut
<1> QED BY <1>8, <1>10, <1>12, <1>14, <1>15 DEF Storing

(* The arguments of the call are set.                                      *)
LEMMA CallingStep ==
  ASSUME CodeInv, Code!Next, place = "page", use = "callback", NEW c \in {37, 38}, counter = c
  PROVE  NextInstruction /\ Storing(c + 1)'
<1>1. /\ SameInputs /\ use' = use /\ Code!Entered' = Code!Entered
      /\ InFrame(c)
      /\ Code!Instruction = Code!PageText[c]
      /\ shape = "plain"
  BY FrameStep
<1>2. Depth(30) /\ Saved(14) /\ Slots({m \in 1 .. 16 : m <= c - 21})
      /\ SameBut(IF c <= 37 THEN {} ELSE {"rcx", "rax"})
  BY <1>1 DEF InFrame, Storing
<1>3. SameBut({"rcx", "rax"})
  BY <1>2 DEF SameBut
<1>4. PICK r \in {"rcx", "rax"}, v \in {"user", "callback"} : Code!Instruction = <<"set", r, v>>
  BY <1>1, CallbackPage
<1>5. r \in Registers /\ v \in CodeValues
  BY RegistersAre DEF CodeValues
<1>6. NextInstruction /\ reg' = [reg EXCEPT ![r] = v] /\ UNCHANGED <<flags, stack>>
  BY <1>4, Executed
<1>7. SameBut({"rcx", "rax"} \cup {r})'
  BY <1>1, <1>3, <1>5, <1>6, Loaded
<1>8. SameBut({"rcx", "rax"})'
  BY <1>7 DEF SameBut
<1>9. Depth(30)'
  BY <1>1, <1>2, <1>6 DEF Depth
<1>10. Saved(14)'
  BY <1>1, <1>2, <1>6 DEF Saved, Code!PushOrder
<1>11. Slots({m \in 1 .. 16 : m <= c - 21})'
  BY <1>1, <1>2, <1>6 DEF Slots, Code!Xmm
<1>12. Slots({m \in 1 .. 16 : m <= (c + 1) - 21})'
  BY <1>11 DEF Slots
<1> QED BY <1>6, <1>8, <1>9, <1>10, <1>12 DEF Storing

(* The callback returns: what it saved below the slots that are its own is *)
(* still there.                                                            *)
LEMMA CallStep ==
  ASSUME CodeInv, Code!Next, place = "page", use = "callback", counter = 39
  PROVE  NextInstruction /\ Loading(40)'
<1>1. /\ SameInputs /\ use' = use /\ Code!Entered' = Code!Entered
      /\ InFrame(39)
      /\ Code!Instruction = Code!PageText[39]
      /\ shape = "plain"
  BY FrameStep
<1>2. Depth(30) /\ Saved(14) /\ Slots(1 .. 16) /\ SameBut({"rcx", "rax"})
  BY <1>1 DEF InFrame, Storing, Slots
<1>3. Code!Instruction = <<"call", "rax">>
  BY <1>1, CallbackPage
<1>4. PICK used \in SUBSET {"registers", "slots"} :
        reg' = RegistersAfter(used) /\ stack' = SlotsAfter(used)
  BY <1>3, Executed
<1>5. NextInstruction
  BY <1>3, Executed
<1>6. stack \in Seq(CodeValues) /\ Len(stack) = 32 /\ stack[1] = "caller" /\ DOMAIN stack = 1 .. 32
  BY <1>2 DEF Depth
<1>7. /\ stack' \in Seq(CodeValues) /\ Len(stack') = 32
      /\ \A n \in 1 .. 30 : stack'[n] = stack[n]
  <2>1. "lost" \in CodeValues /\ \A n \in 1 .. 32 : stack[n] \in CodeValues
    BY <1>6 DEF CodeValues
  <2> QED BY <1>4, <1>6, <2>1 DEF SlotsAfter
<1>8. Depth(30)'
  BY <1>1, <1>6, <1>7, <1>2 DEF Depth
<1>9. Saved(14)'
  <2>1. ASSUME NEW k \in 1 .. 14
        PROVE  stack'[2 + k] = Code!Entered[Code!PushOrder[k]]
    <3>1. 2 + k \in 1 .. 30
      OBVIOUS
    <3> QED BY <1>2, <1>7, <3>1 DEF Saved
  <2> QED BY <1>1, <2>1 DEF Saved, Code!PushOrder
<1>10. Slots(3 .. 16)'
  <2>1. ASSUME NEW m \in 3 .. 16
        PROVE  stack'[33 - m] = Code!Entered[Code!Xmm[m]]
    <3>1. 33 - m \in 1 .. 30 /\ m \in 1 .. 16
      OBVIOUS
    <3> QED BY <1>2, <1>7, <3>1 DEF Slots
  <2> QED BY <1>1, <2>1 DEF Slots, Code!Xmm
<1>11. /\ reg' \in [Registers -> CodeValues]
       /\ \A r \in Registers \ Code!Volatile : reg'[r] = reg[r]
  BY <1>2, <1>4 DEF SameBut, CodeValues, RegistersAfter
<1>12. Code!Volatile \subseteq Unloaded(16) /\ {"rcx", "rax"} \subseteq Unloaded(16)
  BY DEF Unloaded, VolatileXmm, Code!Volatile, Code!General
<1>13. SameBut(Unloaded(16))'
  BY <1>1, <1>2, <1>11, <1>12 DEF SameBut, Unloaded, VolatileXmm, Lossy, Code!Volatile,
                                      Code!General, Code!Xmm
<1> QED BY <1>5, <1>8, <1>9, <1>10, <1>13 DEF Loading

(* popAll loads one register from its slot, but xmm14 also from that of    *)
(* xmm11.                                                                  *)
LEMMA LoadingStep ==
  ASSUME CodeInv, Code!Next, place = "page", use = "callback", NEW c \in 40 .. 55, counter = c
  PROVE  NextInstruction /\ Loading(c + 1)'
<1> DEFINE n == 56 - c
           r == Code!LoadedFrom(n)
<1>1. /\ SameInputs /\ use' = use /\ Code!Entered' = Code!Entered
      /\ Code!Entered \in [Registers -> CodeValues]
      /\ InFrame(c)
      /\ Code!Instruction = Code!PageText[c]
      /\ shape = "plain"
  BY FrameStep
<1>2. Depth(30) /\ Saved(14) /\ Slots(3 .. 16) /\ SameBut(Unloaded(n))
  BY <1>1 DEF InFrame, Loading
<1>3. Code!Instruction = <<"load", n, r>>
  BY <1>1, CallbackPage
<1>4. n \in 1 .. 16 /\ (c + 1) \in Int /\ 56 - (c + 1) = n - 1
  OBVIOUS
<1>5. r \in Registers /\ r = (IF n = 12 THEN Code!Xmm[15] ELSE Code!Xmm[n])
  BY DEF Registers, Code!LoadedFrom
<1>6. stack \in Seq(CodeValues) /\ Len(stack) = 32
  BY <1>2 DEF Depth
<1>7. PICK v \in CodeValues : v = stack[33 - n]
  <2>1. PICK j \in 1 .. Len(stack) : j = 33 - n
    BY <1>4, <1>6
  <2>2. stack[j] \in CodeValues
    BY <1>6, ElementOfSeq
  <2> QED BY <2>1, <2>2
<1>8. Len(stack) - n + 1 = 33 - n
  BY <1>6
<1> HIDE DEF r
<1>9. NextInstruction /\ reg' = [reg EXCEPT ![r] = v] /\ UNCHANGED <<flags, stack>>
  BY <1>3, <1>7, <1>8, Executed
<1>10. Depth(30)'
  BY <1>1, <1>2, <1>9 DEF Depth
<1>11. Saved(14)'
  BY <1>1, <1>2, <1>9 DEF Saved, Code!PushOrder
<1>12. Slots(3 .. 16)'
  BY <1>1, <1>2, <1>9 DEF Slots, Code!Xmm
<1>13. SameBut(Unloaded(n) \cup {r})' /\ (v = Code!Entered[r] => SameBut(Unloaded(n) \ {r})')
  BY <1>1, <1>2, <1>5, <1>9, Loaded
<1>14. SameBut(Unloaded(n - 1))'
  <2>1. Unloaded(n) \ {Code!Xmm[n]} \subseteq Unloaded(n - 1)
    BY DEF Unloaded, VolatileXmm
  <2>2. Code!Xmm[15] = "xmm14" /\ "xmm14" \in Lossy /\ Code!Xmm[1] \in Lossy /\ Code!Xmm[2] \in Lossy
    BY DEF Code!Xmm, Lossy
  <2>3. Lossy \subseteq Unloaded(n - 1)
    BY DEF Unloaded
  <2>4. CASE n \in {1, 2}
    <3>1. r = Code!Xmm[n] /\ r \in Lossy
      BY <1>5, <2>2, <2>4
    <3>2. Unloaded(n) \cup {r} \subseteq Unloaded(n - 1)
      BY <2>1, <2>3, <3>1
    <3> QED BY <1>13, <3>2, SameOutside
           DEF SameBut, Unloaded, VolatileXmm, Code!Volatile, Code!General, Code!Xmm
  <2>5. CASE n = 12
    <3>1. r \in Lossy
      BY <1>5, <2>2, <2>5
    <3>2. Unloaded(n) \subseteq Unloaded(n - 1)
      BY <2>5 DEF Unloaded, VolatileXmm
    <3> QED BY <1>13, <2>3, <3>1, <3>2 DEF SameBut
  <2>6. CASE n \in 3 .. 16 /\ n # 12
    <3>1. r = Code!Xmm[n] /\ v = Code!Entered[r]
      BY <1>2, <1>5, <1>7, <2>6 DEF Slots
    <3> QED BY <1>13, <2>1, <3>1 DEF SameBut
  <2> QED BY <1>4, <2>4, <2>5, <2>6
<1> QED BY <1>4, <1>9, <1>10, <1>11, <1>12, <1>14 DEF Loading

(* popAll releases the slots.                                              *)
LEMMA ReleaseStep ==
  ASSUME CodeInv, Code!Next, place = "page", use = "callback", counter = 56
  PROVE  NextInstruction /\ Popping(57)'
<1>1. /\ SameInputs /\ use' = use /\ Code!Entered' = Code!Entered
      /\ InFrame(56)
      /\ Code!Instruction = Code!PageText[56]
      /\ shape = "plain"
  BY FrameStep
<1>2. Depth(30) /\ Saved(14) /\ SameBut(Unloaded(0))
  BY <1>1 DEF InFrame, Loading
<1>3. Code!Instruction = <<"release">>
  BY <1>1, CallbackPage
<1>4. NextInstruction /\ stack' = SubSeq(stack, 1, Len(stack) - 16) /\ UNCHANGED <<reg, flags>>
  BY <1>3, Executed
<1>5. /\ Depth(30 - 16)'
      /\ Len(stack') = Len(stack) - 16
      /\ \A k \in 1 .. Len(stack') : stack'[k] = stack[k]
  BY <1>1, <1>2, <1>4, Released
<1>6. Len(stack) = 32
  BY <1>2 DEF Depth
<1>7. Saved(14)'
  BY <1>1, <1>2, <1>5, <1>6 DEF Saved, Code!PushOrder
<1>8. Unloaded(0) \subseteq Unpopped(14)
  <2>1. VolatileXmm(0) = {}
    BY DEF VolatileXmm
  <2>2. \A r \in Code!General : \E k \in 1 .. 14 : r = Code!PushOrder[k]
    BY DEF Code!General, Code!PushOrder
  <2> QED BY <2>1, <2>2 DEF Unloaded, Unpopped
<1>9. SameBut(Unpopped(14))'
  BY <1>1, <1>2, <1>4, <1>8 DEF SameBut, Unpopped, Lossy, Code!PushOrder
<1> QED BY <1>4, <1>5, <1>7, <1>9 DEF Popping

(* popAll restores one register.                                           *)
LEMMA PoppingStep ==
  ASSUME CodeInv, Code!Next, place = "page", use = "callback", NEW c \in 57 .. 70, counter = c
  PROVE  NextInstruction /\ Popping(c + 1)'
<1>0. PICK k \in 1 .. 14 : k = 71 - c
  OBVIOUS
<1> DEFINE r == Code!PushOrder[k]
<1>1. /\ SameInputs /\ use' = use /\ Code!Entered' = Code!Entered
      /\ Code!Entered \in [Registers -> CodeValues]
      /\ InFrame(c)
      /\ Code!Instruction = Code!PageText[c]
      /\ shape = "plain"
  BY FrameStep
<1>2. Depth(k) /\ Saved(k) /\ SameBut(Unpopped(k))
  BY <1>0, <1>1 DEF InFrame, Popping
<1>3. Code!Instruction = <<"pop", r>>
  BY <1>0, <1>1, CallbackPage
<1>4. k \in Nat \ {0} /\ 71 - (c + 1) = k - 1
  BY <1>0
<1>5. r \in Registers
  BY Pushes
<1>6. Len(stack) = 2 + k
  BY <1>2 DEF Depth
<1>7. PICK v \in CodeValues : v = Code!Entered[r]
  BY <1>1, <1>5
<1>8. Code!Last(stack) = v
  <2>1. k \in 1 .. k
    OBVIOUS
  <2>2. stack[2 + k] = v
    BY <1>2, <1>7, <2>1 DEF Saved
  <2> QED BY <1>6, <2>2 DEF Code!Last
<1> HIDE DEF r
<1>9. NextInstruction /\ stack' = Code!Front(stack) /\ reg' = [reg EXCEPT ![r] = v]
  BY <1>3, <1>8, Executed
<1>10. /\ Depth(k - 1)'
       /\ Len(stack') = Len(stack) - 1
       /\ \A j \in 1 .. Len(stack') : stack'[j] = stack[j]
  BY <1>1, <1>2, <1>4, <1>9, Popped
<1>11. Saved(k - 1)'
  <2>1. ASSUME NEW j \in 1 .. k - 1
        PROVE  stack'[2 + j] = Code!Entered[Code!PushOrder[j]]
    <3>1. 2 + j \in 1 .. Len(stack') /\ j \in 1 .. k
      BY <1>6, <1>10
    <3> QED BY <1>2, <1>10, <3>1 DEF Saved
  <2> QED BY <1>1, <2>1 DEF Saved, Code!PushOrder
<1>12. SameBut(Unpopped(k) \ {r})'
  BY <1>1, <1>2, <1>5, <1>7, <1>9, Loaded
<1>13. Unpopped(k) \ {r} \subseteq Unpopped(k - 1)
  BY DEF Unpopped, r
<1>14. SameBut(Unpopped(k - 1))'
  BY <1>12, <1>13 DEF SameBut, Unpopped, Lossy, Code!PushOrder
<1> QED BY <1>4, <1>9, <1>10, <1>11, <1>14 DEF Popping

(* A step within the frame of a callback.                                  *)
LEMMA FrameStepKeeps ==
  ASSUME CodeInv, Code!Next, place = "page", use = "callback", counter \in 6 .. 70
  PROVE  SameInputs /\ place' = "page" /\ counter' \in Nat \ {0} /\ OnPage(counter)'
<1>1. PICK c \in 6 .. 70 : counter = c
  OBVIOUS
<1>2. /\ SameInputs /\ use' = "callback" /\ enabled' = enabled /\ enabled
      /\ DisplacedAt' = 71 /\ Altered' = Lossy /\ Lossy' = Lossy
  <2>1. SameInputs /\ enabled /\ use' = use
    BY <1>1, FrameStep
  <2> QED BY <2>1 DEF SameInputs, DisplacedAt, Altered, Lost, Lossy
<1>3. ASSUME NextInstruction, c < 70, InFrame(c + 1)'
      PROVE  place' = "page" /\ counter' \in Nat \ {0} /\ OnPage(counter)'
  BY <1>1, <1>2, <1>3 DEF OnPage, NextInstruction
<1>4. CASE c \in 6 .. 19
  <2>1. NextInstruction /\ Saving(c + 1)'
    BY <1>1, <1>4, SavingStep
  <2>2. c + 1 \in 6 .. 20
    BY <1>4
  <2> QED BY <1>2, <1>3, <2>1, <2>2 DEF InFrame
<1>5. CASE c \in 20 .. 38
  <2>1. NextInstruction /\ Storing(c + 1)'
    <3>1. CASE c = 20
      BY <1>1, <3>1, ReserveStep
    <3>2. CASE c \in 21 .. 36
      BY <1>1, <3>2, StoringStep
    <3>3. CASE c \in {37, 38}
      BY <1>1, <3>3, CallingStep
    <3> QED BY <1>5, <3>1, <3>2, <3>3
  <2>2. c + 1 \in 21 .. 39
    BY <1>5
  <2> QED BY <1>2, <1>3, <2>1, <2>2 DEF InFrame
<1>6. CASE c \in 39 .. 55
  <2>1. NextInstruction /\ Loading(c + 1)'
    <3>1. CASE c = 39
      BY <1>1, <3>1, CallStep
    <3>2. CASE c \in 40 .. 55
      BY <1>1, <3>2, LoadingStep
    <3> QED BY <1>6, <3>1, <3>2
  <2>2. c + 1 \in 40 .. 56
    BY <1>6
  <2> QED BY <1>2, <1>3, <2>1, <2>2 DEF InFrame
<1>7. CASE c \in 56 .. 69
  <2>1. NextInstruction /\ Popping(c + 1)'
    <3>1. CASE c = 56
      BY <1>1, <3>1, ReleaseStep
    <3>2. CASE c \in 57 .. 69
      BY <1>1, <3>2, PoppingStep
    <3> QED BY <1>7, <3>1, <3>2
  <2>2. c + 1 \in 57 .. 70
    BY <1>7
  <2> QED BY <1>2, <1>3, <2>1, <2>2 DEF InFrame
<1>8. CASE c = 70
  <2>1. NextInstruction /\ Popping(71)'
    BY <1>1, <1>8, PoppingStep
  <2>2. Depth(0)' /\ SameBut(Unpopped(0))'
    BY <2>1 DEF Popping
  <2>3. Unpopped(0)' = Lossy
    BY DEF Unpopped, Lossy
  <2>4. SameBut(Altered)'
    BY <1>2, <2>2, <2>3 DEF SameBut
  <2>5. counter' = 71 /\ place' = "page"
    BY <1>1, <1>8, <2>1 DEF NextInstruction
  <2> QED BY <1>2, <2>2, <2>4, <2>5 DEF OnPage
<1> QED BY <1>1, <1>2, <1>4, <1>5, <1>6, <1>7, <1>8

(* The step of an InlinePatch.                                             *)
LEMMA PatchStep ==
  ASSUME CodeInv, Code!Next, place = "page", use = "patch", counter = 6
  PROVE  SameInputs /\ place' = "page" /\ counter' \in Nat \ {0} /\ OnPage(counter)'
<1>1. /\ SameInputs /\ Code!Entered' = Code!Entered
      /\ use' = "patch" /\ enabled' = enabled /\ DisplacedAt = 7 /\ DisplacedAt' = 7
  BY Executed, EnteredStays DEF SameInputs, DisplacedAt
<1>2. enabled /\ Depth(0) /\ SameBut({}) /\ shape = "plain"
  BY <1>1 DEF CodeInv, OnPage, CodeInputs
<1>3. Code!Instruction = <<"set", "rcx", "patched">>
  BY <1>2, CodeIs, PatchPage
<1>4. NextInstruction /\ reg' = [reg EXCEPT !["rcx"] = "patched"] /\ UNCHANGED <<flags, stack>>
  BY <1>3, Executed
<1>5. "rcx" \in Registers /\ "patched" \in CodeValues
  BY RegistersAre DEF CodeValues
<1>6. reg'["rcx"] = "patched" /\ SameBut({} \cup {"rcx"})'
  BY <1>1, <1>2, <1>4, <1>5, Loaded
<1>7. Altered' = {"rcx"} /\ RcxIs' = "patched"
  BY <1>1, <1>2 DEF Altered, RcxIs
<1>8. SameBut(Altered)'
  BY <1>6, <1>7 DEF SameBut
<1>9. Depth(0)'
  BY <1>1, <1>2, <1>4 DEF Depth
<1>10. counter' = 7 /\ place' = "page"
  BY <1>4 DEF NextInstruction
<1> QED BY <1>1, <1>6, <1>7, <1>8, <1>9, <1>10 DEF OnPage

-----------------------------------------------------------------------------
(* The displaced instruction and the jump behind it.                       *)
LEMMA DisplacedText ==
  ASSUME CodeInv, place = "page"
  PROVE  /\ Code!PageText[DisplacedAt] = <<"set", "rax", "data">>
         /\ \A n \in 1 .. 4 : Code!PageText[DisplacedAt + n] = Code!JumpThrough("behind")[n]
<1>1. use \in {"patch", "callback"} /\ shape = "plain"
  BY DEF CodeInv, CodeInputs
<1>2. CASE use = "patch"
  <2>1. DisplacedAt = 7 /\ \A n \in 1 .. 4 : 7 + n \in 8 .. 11 /\ (7 + n) - 7 = n
    BY <1>2 DEF DisplacedAt
  <2> QED BY <1>1, <1>2, <2>1, PatchPage
<1>3. CASE use = "callback"
  <2>1. DisplacedAt = 71 /\ \A n \in 1 .. 4 : 71 + n \in 72 .. 75 /\ (71 + n) - 71 = n
    BY <1>3 DEF DisplacedAt
  <2> QED BY <1>1, <1>3, <2>1, CallbackPage
<1> QED BY <1>1, <1>2, <1>3

(* The step of the displaced instruction.                                  *)
LEMMA DisplacedStep ==
  ASSUME CodeInv, Code!Next, place = "page", counter = DisplacedAt
  PROVE  SameInputs /\ place' = "page" /\ counter' \in Nat \ {0} /\ OnPage(counter)'
<1>1. PICK S : S = Altered
  OBVIOUS
<1>2. PICK d \in Nat : d = DisplacedAt
  BY DEF DisplacedAt
<1>3. /\ SameInputs /\ Code!Entered' = Code!Entered /\ use' = use
      /\ DisplacedAt' = d /\ Altered' = S /\ RcxIs' = RcxIs
  <2>1. SameInputs /\ CodeInputs
    BY Executed DEF SameInputs, CodeInv
  <2> QED BY <1>1, <1>2, <2>1, EnteredStays, InputsStay DEF SameInputs
<1>4. Depth(0) /\ SameBut(S) /\ (use = "patch" => reg["rcx"] = RcxIs)
  BY <1>1, <1>2 DEF CodeInv, OnPage
<1>5. Code!Instruction = <<"set", "rax", "data">>
  BY CodeIs, DisplacedText
<1>6. NextInstruction /\ reg' = [reg EXCEPT !["rax"] = "data"] /\ UNCHANGED <<flags, stack>>
  BY <1>5, Executed
<1>7. "rax" \in Registers /\ "rcx" \in Registers \ {"rax"}
  BY RegistersAre
<1>8. /\ reg'["rax"] = "data" /\ SameBut(S \cup {"rax"})'
      /\ \A q \in Registers \ {"rax"} : reg'[q] = reg[q]
  <2>1. PICK v \in CodeValues : v = "data"
    BY DEF CodeValues
  <2>2. SameBut(S) /\ SameInputs /\ reg' = [reg EXCEPT !["rax"] = v]
    BY <1>3, <1>4, <1>6, <2>1
  <2>3. reg'["rax"] = v /\ SameBut(S \cup {"rax"})' /\ \A q \in Registers \ {"rax"} : reg'[q] = reg[q]
    BY <1>3, <1>7, <2>2 DEF SameBut
  <2> QED BY <2>1, <2>3
<1>9. Depth(0)'
  BY <1>3, <1>4, <1>6 DEF Depth
<1>10. Jumping(1, S, "data", "behind")'
  BY <1>8, <1>9 DEF Jumping, SameBut
<1>11. counter' = d + 1 /\ place' = "page"
  BY <1>2, <1>6 DEF NextInstruction
<1>12. (d + 1) - d = 1
  BY <1>2
<1>13. use = "patch" => reg'["rcx"] = RcxIs'
  BY <1>3, <1>4, <1>7, <1>8
<1>14. d > 6
  BY <1>2 DEF DisplacedAt
<1> QED BY <1>3, <1>10, <1>11, <1>12, <1>13, <1>14 DEF OnPage

(* A step of the jump back behind the displaced instructions.              *)
LEMMA BehindStep ==
  ASSUME CodeInv, Code!Next, place = "page", counter > DisplacedAt
  PROVE  CodeInv'
<1>1. PICK S : S = Altered
  OBVIOUS
<1>2. PICK d \in Nat : d = DisplacedAt
  BY DEF DisplacedAt
<1>3. CodeInputs /\ use \in {"patch", "callback"} /\ OnPage(counter) /\ counter \in Nat
  BY DEF CodeInv
<1>4. Jumping(counter - d, S, "data", "behind")
  BY <1>1, <1>2, <1>3 DEF OnPage
<1>5. PICK n \in 1 .. 4 : n = counter - d
  BY <1>4 DEF Jumping
<1>6. counter = d + n
  BY <1>2, <1>3, <1>5
<1>7. Code!Instruction = Code!JumpThrough("behind")[n]
  BY <1>2, <1>6, CodeIs, DisplacedText
<1>8. Jumping(n, S, "data", "behind") /\ "data" \in CodeValues /\ "behind" \in CodeValues
  BY <1>4, <1>5 DEF CodeValues
<1>9. /\ SameInputs
      /\ \A r \in Registers \ {"rax"} : reg'[r] = reg[r]
      /\ n < 4 => place' = place /\ counter' = counter + 1 /\ Jumping(n + 1, S, "data", "behind")'
      /\ n = 4 => /\ place' = "behind" /\ counter' = 1 /\ Depth(0)' /\ SameBut({"rax"} \cup S)'
                  /\ reg'["rax"] = "data"
  <2>1. PICK v \in CodeValues, t \in CodeValues : v = "data" /\ t = "behind"
    BY <1>8
  <2>2. Jumping(n, S, v, t)
    BY <1>8, <2>1
  <2>0. Code!Instruction = Code!JumpThrough(t)[n]
    BY <1>7, <2>1
  <2>3. /\ SameInputs
        /\ \A r \in Registers \ {"rax"} : reg'[r] = reg[r]
        /\ n < 4 => place' = place /\ counter' = counter + 1 /\ Jumping(n + 1, S, v, t)'
        /\ n = 4 => place' = t /\ counter' = 1 /\ Depth(0)' /\ SameBut({"rax"} \cup S)' /\ reg'["rax"] = v
    BY <2>0, <2>2, JumpStep
  <2> QED BY <2>1, <2>3
<1>10. /\ CodeInputs' /\ use' = use /\ DisplacedAt' = d /\ Altered' = S /\ RcxIs' = RcxIs
  BY <1>1, <1>2, <1>3, <1>9, InputsStay DEF SameInputs
<1>11. use = "patch" => reg'["rcx"] = RcxIs'
  <2>1. "rcx" \in Registers \ {"rax"}
    BY RegistersAre
  <2>2. use = "patch" => reg["rcx"] = RcxIs
    BY <1>2, <1>3, <1>6 DEF OnPage
  <2> QED BY <1>9, <1>10, <2>1, <2>2
<1>12. CASE n < 4
  <2>1. counter' = d + (n + 1) /\ (d + (n + 1)) - d = n + 1 /\ place' = "page"
    BY <1>2, <1>6, <1>9, <1>12
  <2>2. OnPage(counter)'
    <3>1. d > 6
      BY <1>2 DEF DisplacedAt
    <3> QED BY <1>9, <1>10, <1>11, <1>12, <2>1, <3>1 DEF OnPage
  <2> QED BY <1>2, <1>3, <1>10, <2>1, <2>2 DEF CodeInv
<1>13. CASE n = 4
  <2>1. SameBut({"rax"} \cup Altered)'
    BY <1>9, <1>10, <1>13
  <2> QED BY <1>3, <1>9, <1>10, <1>11, <1>13, <2>1 DEF CodeInv
<1> QED BY <1>12, <1>13

(* A step within a page.                                                   *)
LEMMA PageStep ==
  ASSUME CodeInv, Code!Next, place = "page"
  PROVE  CodeInv'
<1>1. use \in {"patch", "callback"} /\ OnPage(counter) /\ counter \in Nat \ {0} /\ CodeInputs
  BY DEF CodeInv
<1>2. ASSUME SameInputs /\ place' = "page" /\ counter' \in Nat \ {0} /\ OnPage(counter)'
      PROVE  CodeInv'
  <2>1. CodeInputs' /\ use' = use
    BY <1>1, <1>2, InputsStay DEF SameInputs
  <2> QED BY <1>1, <1>2, <2>1 DEF CodeInv
<1>3. \/ counter \in 1 .. 5
      \/ use = "patch" /\ counter = 6
      \/ use = "callback" /\ counter \in 6 .. 70
      \/ counter = DisplacedAt
      \/ counter > DisplacedAt
  BY <1>1 DEF DisplacedAt
<1> QED BY <1>2, <1>3, CheckStep, PatchStep, FrameStepKeeps, DisplacedStep, BehindStep

(* The jmp at the entrypoint.                                              *)
LEMMA EntryStep ==
  ASSUME CodeInv, Code!Next, place = "entry"
  PROVE  CodeInv'
<1>1. /\ SameInputs /\ Code!Entered' = Code!Entered /\ use' = use
      /\ CodeInputs' /\ use \in {"patch", "callback", "hook"}
      /\ counter = 1 /\ Depth(0) /\ SameBut({}) /\ flags = "kept"
  <2>1. SameInputs /\ CodeInputs
    BY Executed DEF SameInputs, CodeInv
  <2> QED BY <2>1, EnteredStays, InputsStay DEF SameInputs, CodeInv
<1>2. Code!Instruction = <<"jmp", "trampoline">>
  BY <1>1, CodeIs
<1>3. place' = "trampoline" /\ counter' = 1 /\ UNCHANGED <<reg, flags, stack>>
  BY <1>2, Executed
<1>4. "rax" \in Registers
  BY RegistersAre
<1>5. Depth(0)' /\ SameBut({"rax"})' /\ reg'["rax"] = Code!Entered'["rax"]
  BY <1>1, <1>3, <1>4 DEF Depth, SameBut
<1>6. Jumping(1, {}, Code!Entered["rax"], IF use = "hook" THEN "hook" ELSE "page")'
  BY <1>5 DEF Jumping, SameBut
<1> QED BY <1>1, <1>3, <1>6 DEF CodeInv

(* A step of the trampoline.                                               *)
LEMMA TrampolineStep ==
  ASSUME CodeInv, Code!Next, place = "trampoline"
  PROVE  CodeInv'
<1>1. PICK t \in {"hook", "page"} : t = IF use = "hook" THEN "hook" ELSE "page"
  OBVIOUS
<1>2. CodeInputs /\ use \in {"patch", "callback", "hook"} /\ flags = "kept" /\ counter \in 1 .. 4
  BY DEF CodeInv, Jumping
<1>3. Code!Entered \in [Registers -> CodeValues] /\ "rax" \in Registers /\ t \in CodeValues
  BY <1>2, EnteredIs, RegistersAre DEF CodeValues
<1>4. PICK v \in CodeValues : v = Code!Entered["rax"]
  BY <1>3
<1>5. PICK n \in 1 .. 4 : n = counter
  BY <1>2
<1>6. Jumping(n, {}, v, t)
  BY <1>1, <1>4, <1>5 DEF CodeInv
<1>7. Code!Instruction = Code!JumpThrough(t)[n]
  BY <1>1, <1>5, CodeIs
<1>8. /\ SameInputs /\ flags' = flags
      /\ n < 4 => place' = place /\ counter' = counter + 1 /\ Jumping(n + 1, {}, v, t)'
      /\ n = 4 => place' = t /\ counter' = 1 /\ Depth(0)' /\ SameBut({"rax"} \cup {})' /\ reg'["rax"] = v
  BY <1>3, <1>6, <1>7, JumpStep
<1>9. CodeInputs' /\ use' = use /\ Code!Entered' = Code!Entered
  BY <1>2, <1>8, InputsStay, EnteredStays DEF SameInputs
<1>10. CASE n < 4
  <2>1. place' = "trampoline" /\ counter' = n + 1
    BY <1>5, <1>8, <1>10
  <2>2. Jumping(counter, {}, Code!Entered["rax"], IF use = "hook" THEN "hook" ELSE "page")'
    BY <1>1, <1>4, <1>8, <1>9, <1>10, <2>1
  <2> QED BY <1>2, <1>8, <1>9, <2>1, <2>2 DEF CodeInv
<1>11. CASE n = 4
  <2>1. SameBut({})'
    BY <1>4, <1>8, <1>9, <1>11 DEF SameBut
  <2>2. CASE use = "hook"
    BY <1>1, <1>2, <1>8, <1>9, <1>11, <2>1, <2>2 DEF CodeInv
  <2>3. CASE use # "hook"
    <3>1. OnPage(1)'
      BY <1>8, <1>11, <2>1 DEF OnPage, Checking, DisplacedAt
    <3> QED BY <1>1, <1>2, <1>8, <1>9, <1>11, <2>3, <3>1 DEF CodeInv
  <2> QED BY <2>2, <2>3
<1> QED BY <1>10, <1>11

(* A step on the way back of a PrologHook.                                 *)
LEMMA OriginalStep ==
  ASSUME CodeInv, Code!Next, place = "original"
  PROVE  CodeInv'
<1>1. CodeInputs /\ use = "original" /\ counter \in 1 .. 4
  BY DEF CodeInv, Jumping
<1>2. Code!Entered \in [Registers -> CodeValues] /\ "rax" \in Registers /\ "behind" \in CodeValues
  BY <1>1, EnteredIs, RegistersAre DEF CodeValues
<1>3. PICK v \in CodeValues : v = Code!Entered["rax"]
  BY <1>2
<1>4. PICK n \in 1 .. 4 : n = counter
  BY <1>1
<1>5. Jumping(n, {}, v, "behind")
  BY <1>3, <1>4 DEF CodeInv
<1>6. Code!Instruction = Code!JumpThrough("behind")[n]
  BY <1>4, CodeIs
<1>7. /\ SameInputs
      /\ n < 4 => place' = place /\ counter' = counter + 1 /\ Jumping(n + 1, {}, v, "behind")'
      /\ n = 4 => /\ place' = "behind" /\ counter' = 1 /\ Depth(0)' /\ SameBut({"rax"} \cup {})'
                  /\ reg'["rax"] = v
  BY <1>2, <1>5, <1>6, JumpStep
<1>8. CodeInputs' /\ use' = use /\ Code!Entered' = Code!Entered
  BY <1>1, <1>7, InputsStay, EnteredStays DEF SameInputs
<1>9. CASE n < 4
  <2>1. place' = "original" /\ counter' = n + 1
    BY <1>4, <1>7, <1>9
  <2>2. Jumping(counter, {}, Code!Entered["rax"], "behind")'
    BY <1>3, <1>7, <1>8, <1>9, <2>1
  <2> QED BY <1>1, <1>8, <2>1, <2>2 DEF CodeInv
<1>10. CASE n = 4
  <2>1. SameBut({})'
    BY <1>3, <1>7, <1>8, <1>10 DEF SameBut
  <2> QED BY <1>1, <1>7, <1>8, <1>10, <2>1 DEF CodeInv
<1> QED BY <1>9, <1>10

-----------------------------------------------------------------------------
(* The instructions of a thunk.                                            *)
LEMMA ThunkText ==
  LET text == Code!ShiftArguments \o Code!JumpThrough("member")
  IN  /\ text[1] = <<"mov", "r9", "r8">>
      /\ text[2] = <<"mov", "r8", "rdx">>
      /\ text[3] = <<"mov", "rdx", "rcx">>
      /\ text[4] = <<"set", "rcx", "this">>
      /\ \A n \in 1 .. 4 : text[n + 4] = Code!JumpThrough("member")[n]
<1> DEFINE shift == Code!ShiftArguments
           jump == Code!JumpThrough("member")
           text == shift \o jump
<1>1. /\ Listing(shift, 4)
      /\ shift[1] = <<"mov", "r9", "r8">>
      /\ shift[2] = <<"mov", "r8", "rdx">>
      /\ shift[3] = <<"mov", "rdx", "rcx">>
      /\ shift[4] = <<"set", "rcx", "this">>
  <2>1. {"rcx", "rdx", "r8", "r9", "this"} \subseteq CodeValues
    BY RegistersAre DEF CodeValues
  <2>2. /\ <<"mov", "r9", "r8">> \in AnyInstruction /\ <<"mov", "r8", "rdx">> \in AnyInstruction
        /\ <<"mov", "rdx", "rcx">> \in AnyInstruction /\ <<"set", "rcx", "this">> \in AnyInstruction
    BY <2>1 DEF AnyInstruction, Operations
  <2> QED BY <2>2 DEF Listing, Code!ShiftArguments
<1>2. Listing(jump, 4)
  BY JumpText DEF CodeValues
<1> HIDE DEF shift, jump
<1>3. JoinedListing(text, shift, 4, jump, 4)
  BY <1>1, <1>2, ListingsJoined
<1> HIDE DEF text
<1>4. \A i \in 1 .. 4 : text[i] = shift[i]
  BY <1>3 DEF JoinedListing
<1>5. \A n \in 1 .. 4 : text[n + 4] = jump[n]
  <2>1. \A n \in 1 .. 4 : n + 4 \in 4 + 1 .. 4 + 4 /\ (n + 4) - 4 = n
    OBVIOUS
  <2> QED BY <1>3, <2>1 DEF JoinedListing
<1>6. /\ text[1] = shift[1] /\ text[2] = shift[2] /\ text[3] = shift[3] /\ text[4] = shift[4]
  BY <1>4
<1> QED BY <1>1, <1>5, <1>6 DEF text, shift, jump

(* A thunk moves one argument up.                                          *)
LEMMA ShiftStep ==
  ASSUME CodeInv, Code!Next, place = "thunk", counter \in 1 .. 4
  PROVE  CodeInv'
<1> DEFINE S == {"rcx", "rdx", "r8", "r9"}
<1>1. /\ CodeInputs /\ use = "thunk"
      /\ Depth(0) /\ SameBut(S) /\ Shifted(counter - 1)
  BY DEF CodeInv
<1>2. /\ SameInputs /\ Code!Entered' = Code!Entered /\ use' = use /\ CodeInputs'
  <2>1. SameInputs
    BY Executed DEF SameInputs
  <2> QED BY <1>1, <2>1, EnteredStays, InputsStay DEF SameInputs
<1>3. S \cup {"rax"} \subseteq Registers /\ "rax" \notin S
  BY RegistersAre
<1>4. PICK r \in S, v \in CodeValues :
        /\ NextInstruction /\ reg' = [reg EXCEPT ![r] = v] /\ UNCHANGED <<flags, stack>>
        /\ counter = 1 => r = "r9" /\ v = reg["r8"]
        /\ counter = 2 => r = "r8" /\ v = reg["rdx"]
        /\ counter = 3 => r = "rdx" /\ v = reg["rcx"]
        /\ counter = 4 => r = "rcx" /\ v = "this"
  <2>1. \A q \in S : reg[q] \in CodeValues
    BY <1>1, <1>3 DEF SameBut
  <2>2. CASE counter = 1
    <3>1. Code!Instruction = <<"mov", "r9", "r8">>
      BY <2>2, CodeIs, ThunkText
    <3>2. NextInstruction /\ reg' = [reg EXCEPT !["r9"] = reg["r8"]] /\ UNCHANGED <<flags, stack>>
      BY <3>1, Executed
    <3> "r9" \in S /\ reg["r8"] \in CodeValues
      BY <2>1
    <3> WITNESS "r9" \in S, reg["r8"] \in CodeValues
    <3> QED BY <2>2, <3>2
  <2>3. CASE counter = 2
    <3>1. Code!Instruction = <<"mov", "r8", "rdx">>
      BY <2>3, CodeIs, ThunkText
    <3>2. NextInstruction /\ reg' = [reg EXCEPT !["r8"] = reg["rdx"]] /\ UNCHANGED <<flags, stack>>
      BY <3>1, Executed
    <3> "r8" \in S /\ reg["rdx"] \in CodeValues
      BY <2>1
    <3> WITNESS "r8" \in S, reg["rdx"] \in CodeValues
    <3> QED BY <2>3, <3>2
  <2>4. CASE counter = 3
    <3>1. Code!Instruction = <<"mov", "rdx", "rcx">>
      BY <2>4, CodeIs, ThunkText
    <3>2. NextInstruction /\ reg' = [reg EXCEPT !["rdx"] = reg["rcx"]] /\ UNCHANGED <<flags, stack>>
      BY <3>1, Executed
    <3> "rdx" \in S /\ reg["rcx"] \in CodeValues
      BY <2>1
    <3> WITNESS "rdx" \in S, reg["rcx"] \in CodeValues
    <3> QED BY <2>4, <3>2
  <2>5. CASE counter = 4
    <3>1. Code!Instruction = <<"set", "rcx", "this">>
      BY <2>5, CodeIs, ThunkText
    <3>2. NextInstruction /\ reg' = [reg EXCEPT !["rcx"] = "this"] /\ UNCHANGED <<flags, stack>>
      BY <3>1, Executed
    <3>3. "this" \in CodeValues
      BY DEF CodeValues
    <3> "rcx" \in S
      OBVIOUS
    <3> WITNESS "rcx" \in S, "this" \in CodeValues
    <3> QED BY <2>5, <3>2
  <2> QED BY <2>2, <2>3, <2>4, <2>5
<1>5. /\ reg' \in [Registers -> CodeValues]
      /\ reg'[r] = v
      /\ \A q \in Registers \ {r} : reg'[q] = reg[q]
      /\ SameBut(S)'
  <2>1. reg'[r] = v /\ SameBut(S \cup {r})' /\ \A q \in Registers \ {r} : reg'[q] = reg[q]
    BY <1>1, <1>2, <1>3, <1>4, Loaded
  <2> QED BY <2>1 DEF SameBut
<1>6. Depth(0)' /\ place' = "thunk" /\ counter' = counter + 1
  BY <1>1, <1>2, <1>4 DEF Depth, NextInstruction
<1>7. /\ reg'["r9"]  = IF counter >= 1 THEN Code!Entered["r8"] ELSE Code!Entered["r9"]
      /\ reg'["r8"]  = IF counter >= 2 THEN Code!Entered["rdx"] ELSE Code!Entered["r8"]
      /\ reg'["rdx"] = IF counter >= 3 THEN Code!Entered["rcx"] ELSE Code!Entered["rdx"]
      /\ reg'["rcx"] = IF counter >= 4 THEN "this" ELSE Code!Entered["rcx"]
  BY <1>1, <1>3, <1>4, <1>5 DEF Shifted
<1>8. CASE counter < 4
  <2>1. SameBut(S)' /\ counter' \in 2 .. 4 /\ counter' - 1 = counter
    BY <1>5, <1>6, <1>8
  <2>2. Shifted(counter - 1)'
    BY <1>2, <1>5, <1>7, <2>1 DEF Shifted, SameBut
  <2> QED BY <1>1, <1>2, <1>6, <2>1, <2>2 DEF CodeInv
<1>9. CASE counter = 4
  <2>1. counter' = 5 /\ 5 - 4 = 1
    BY <1>6, <1>9
  <2>2. Shifted(4)'
    BY <1>2, <1>5, <1>7, <1>9 DEF Shifted, SameBut
  <2>3. reg'["rax"] = Code!Entered'["rax"]
    BY <1>2, <1>3, <1>5 DEF SameBut
  <2>4. Jumping(1, S, Code!Entered["rax"], "member")'
    BY <1>5, <1>6, <2>3 DEF Jumping, SameBut
  <2> QED BY <1>1, <1>2, <1>6, <2>1, <2>2, <2>4 DEF CodeInv
<1> QED BY <1>8, <1>9

(* A step of a thunk's jump to the member function.                        *)
LEMMA MemberStep ==
  ASSUME CodeInv, Code!Next, place = "thunk", counter > 4
  PROVE  CodeInv'
<1>1. PICK S : S = {"rcx", "rdx", "r8", "r9"}
  OBVIOUS
<1>2. CodeInputs /\ use = "thunk" /\ counter \in Nat /\ Shifted(4) /\ counter - 4 \in 1 .. 4
  BY DEF CodeInv, Jumping
<1>3. Code!Entered \in [Registers -> CodeValues] /\ "rax" \in Registers /\ S \subseteq Registers \ {"rax"}
  BY <1>1, <1>2, EnteredIs, RegistersAre
<1>4. PICK v \in CodeValues, t \in CodeValues : v = Code!Entered["rax"] /\ t = "member"
  BY <1>3 DEF CodeValues
<1>5. PICK n \in 1 .. 4 : n = counter - 4
  BY <1>2
<1>6. Jumping(n, S, v, t)
  BY <1>1, <1>4, <1>5 DEF CodeInv
<1>7. Code!Instruction = Code!JumpThrough(t)[n]
  <2>1. counter = n + 4
    BY <1>2, <1>5
  <2> QED BY <1>4, <2>1, CodeIs, ThunkText
<1>8. /\ SameInputs
      /\ \A r \in Registers \ {"rax"} : reg'[r] = reg[r]
      /\ n < 4 => place' = place /\ counter' = counter + 1 /\ Jumping(n + 1, S, v, t)'
      /\ n = 4 => place' = t /\ counter' = 1 /\ Depth(0)' /\ SameBut({"rax"} \cup S)' /\ reg'["rax"] = v
  BY <1>6, <1>7, JumpStep
<1>9. CodeInputs' /\ use' = use /\ Code!Entered' = Code!Entered
  BY <1>2, <1>8, InputsStay, EnteredStays DEF SameInputs
<1>10. SameBut({"rax"} \cup S)'
  BY <1>5, <1>8 DEF Jumping
<1>11. Shifted(4)'
  BY <1>1, <1>2, <1>3, <1>8, <1>9, <1>10 DEF Shifted, SameBut
<1>12. CASE n < 4
  <2>1. counter' = n + 5 /\ (n + 5) - 4 = n + 1 /\ place' = "thunk"
    BY <1>2, <1>5, <1>8, <1>12
  <2>2. Jumping(counter - 4, {"rcx", "rdx", "r8", "r9"}, Code!Entered["rax"], "member")'
    BY <1>1, <1>4, <1>8, <1>9, <1>12, <2>1
  <2> QED BY <1>2, <1>9, <1>11, <2>1, <2>2 DEF CodeInv
<1>13. CASE n = 4
  BY <1>2, <1>4, <1>8, <1>9, <1>11, <1>13 DEF CodeInv
<1> QED BY <1>12, <1>13

(* Every step keeps the invariant.                                         *)
LEMMA CodeStepKeeps ==
  ASSUME CodeInv, Code!Next
  PROVE  CodeInv'
<1>1. place \in DOMAIN Code!Code
  BY Executed
<1>2. place \in {"entry", "trampoline", "page", "original", "thunk"}
  BY <1>1, CodeIs
<1>3. CASE place = "thunk"
  <2>1. counter \in Nat \ {0}
    BY DEF CodeInv
  <2> QED BY <1>3, <2>1, ShiftStep, MemberStep
<1> QED BY <1>2, <1>3, EntryStep, TrampolineStep, PageStep, OriginalStep

-----------------------------------------------------------------------------
(* It holds where the code is entered.                                     *)
LEMMA CodeInit ==
  ASSUME {"scalar_results", "no_rip", "aligned"} \subseteq ClientRules, Init
  PROVE  CodeInv
<1>1. Code!Init
  BY DEF Init
<1>2. CodeInputs
  BY <1>1 DEF CodeInputs, Code!Init
<1>3. reg \in [Registers -> CodeValues] /\ SameBut({})
  BY <1>1, <1>2, EnteredIs DEF SameBut, Code!Init
<1>4. Depth(0)
  <2>1. stack \in {<<"caller">>, <<"caller", "local">>} /\ (use = "callback" => Len(stack) % 2 = 0)
    BY <1>1 DEF Code!Init
  <2>2. {"caller", "local"} \subseteq CodeValues
    BY DEF CodeValues
  <2>3. CASE stack = <<"caller">>
    <3>1. Len(stack) = 1 /\ stack[1] = "caller" /\ stack \in Seq(CodeValues) /\ 1 % 2 # 0
      BY <2>2, <2>3
    <3> QED BY <2>1, <3>1 DEF Depth
  <2>4. CASE stack = <<"caller", "local">>
    <3>1. Len(stack) = 2 /\ stack[1] = "caller" /\ stack \in Seq(CodeValues)
      BY <2>2, <2>4
    <3> QED BY <3>1 DEF Depth
  <2> QED BY <2>1, <2>3, <2>4
<1>5. "rax" \in Registers
  BY RegistersAre
<1>6. counter = 1 /\ flags = "kept" /\ place = IF use \in {"original", "thunk"} THEN use ELSE "entry"
  BY <1>1 DEF Code!Init
<1>7. CASE use \notin {"original", "thunk"}
  BY <1>2, <1>3, <1>4, <1>6, <1>7 DEF CodeInv, CodeInputs
<1>8. CASE use = "original"
  <2>1. Jumping(1, {}, Code!Entered["rax"], "behind")
    BY <1>3, <1>4, <1>5 DEF Jumping, SameBut
  <2> QED BY <1>2, <1>6, <1>8, <2>1 DEF CodeInv
<1>9. CASE use = "thunk"
  <2>1. {"rcx", "rdx", "r8", "r9"} \subseteq Registers
    BY RegistersAre
  <2>2. Shifted(0) /\ SameBut({"rcx", "rdx", "r8", "r9"})
    BY <1>3, <2>1 DEF Shifted, SameBut
  <2> QED BY <1>2, <1>4, <1>6, <1>9, <2>2 DEF CodeInv
<1> QED BY <1>7, <1>8, <1>9

(* The one call there is, that of a callback, is made with an aligned      *)
(* stack.                                                                  *)
LEMMA OnlyCallCalls ==
  ASSUME CodeInv, Code!At("call")
  PROVE  Len(stack) % 2 = 0
<1>1. place \in {"entry", "trampoline", "page", "original", "thunk"} /\ Code!Instruction[1] = "call"
  BY CodeIs DEF Code!At
<1>2. \A t \in CodeValues : \A n \in 1 .. 4 : Code!JumpThrough(t)[n][1] # "call"
  BY JumpText
<1>3. place # "entry"
  BY <1>1, CodeIs DEF CodeInv
<1>4. place # "trampoline"
  <2>1. {"hook", "page"} \subseteq CodeValues
    BY DEF CodeValues
  <2> QED BY <1>1, <1>2, <2>1, CodeIs DEF CodeInv, Jumping
<1>5. place # "original"
  <2>1. "behind" \in CodeValues
    BY DEF CodeValues
  <2> QED BY <1>1, <1>2, <2>1, CodeIs DEF CodeInv, Jumping
<1>6. place # "thunk"
  <2>1. SUFFICES ASSUME place = "thunk" PROVE FALSE
    OBVIOUS
  <2>2. counter \in 1 .. 4 \/ \E n \in 1 .. 4 : counter = n + 4
    <3>1. counter \in Nat \ {0} /\ (counter > 4 => counter - 4 \in 1 .. 4)
      BY <2>1 DEF CodeInv, Jumping
    <3>2. counter > 4 => counter = (counter - 4) + 4
      BY <3>1
    <3> QED BY <3>1, <3>2
  <2>3. "member" \in CodeValues
    BY DEF CodeValues
  <2>4. ASSUME NEW n \in 1 .. 4, counter = n + 4
        PROVE  FALSE
    <3>1. Code!Instruction = Code!JumpThrough("member")[n]
      BY <2>1, <2>4, CodeIs, ThunkText
    <3> QED BY <1>1, <1>2, <2>3, <3>1
  <2>5. CASE counter \in 1 .. 4
    <3>1. Code!Instruction[1] \in {"mov", "set"}
      <4>1. counter = 1 => Code!Instruction = <<"mov", "r9", "r8">>
        BY <2>1, CodeIs, ThunkText
      <4>2. counter = 2 => Code!Instruction = <<"mov", "r8", "rdx">>
        BY <2>1, CodeIs, ThunkText
      <4>3. counter = 3 => Code!Instruction = <<"mov", "rdx", "rcx">>
        BY <2>1, CodeIs, ThunkText
      <4>4. counter = 4 => Code!Instruction = <<"set", "rcx", "this">>
        BY <2>1, CodeIs, ThunkText
      <4> QED BY <2>5, <4>1, <4>2, <4>3, <4>4
    <3> QED BY <1>1, <3>1
  <2> QED BY <2>2, <2>4, <2>5
<1>7. CASE place = "page"
  <2>1. /\ use \in {"patch", "callback"} /\ shape = "plain" /\ counter \in Nat \ {0} /\ OnPage(counter)
        /\ Code!Instruction = Code!PageText[counter]
    BY <1>7, CodeIs DEF CodeInv, CodeInputs
  <2>2. counter \notin 1 .. 5
    <3>1. /\ \A i \in 1 .. 4 : Code!PageText[i] = Code!CheckText[i]
          /\ \E d \in {7, 71} : Code!PageText[5] = <<"je", d>>
      BY <2>1, PatchPage, CallbackPage
    <3>2. \A i \in 1 .. 4 : Code!CheckText[i][1] # "call"
      BY CheckText
    <3>3. Code!PageText[5][1] # "call"
      BY <3>1
    <3> QED BY <1>1, <2>1, <3>1, <3>2, <3>3
  <2>3. counter # DisplacedAt
    BY <1>1, <1>7, <2>1, DisplacedText
  <2>4. ~(counter > DisplacedAt)
    <3>1. SUFFICES ASSUME counter > DisplacedAt PROVE FALSE
      OBVIOUS
    <3>2. PICK n \in 1 .. 4 : n = counter - DisplacedAt
      BY <2>1, <3>1 DEF OnPage, Jumping
    <3>3. counter = DisplacedAt + n
      BY <2>1, <3>2 DEF DisplacedAt
    <3>4. "behind" \in CodeValues
      BY DEF CodeValues
    <3> QED BY <1>1, <1>2, <1>7, <2>1, <3>3, <3>4, DisplacedText
  <2>5. use = "callback" /\ counter \in 6 .. 70
    <3>1. use = "patch" => counter = 6
      BY <2>1, <2>2, <2>3, <2>4 DEF DisplacedAt
    <3>2. use = "patch" => Code!PageText[6] = <<"set", "rcx", "patched">>
      BY <2>1, PatchPage
    <3>3. use = "callback"
      BY <1>1, <2>1, <3>1, <3>2
    <3> QED BY <2>1, <2>2, <2>3, <2>4, <3>3 DEF DisplacedAt
  <2>6. counter = 39
    <3>1. counter \in 6 .. 19 => Code!Instruction[1] = "push"
      BY <2>1, <2>5, CallbackPage
    <3>2. counter \in 21 .. 36 => Code!Instruction[1] = "store"
      BY <2>1, <2>5, CallbackPage
    <3>3. counter \in 40 .. 55 => Code!Instruction[1] = "load"
      BY <2>1, <2>5, CallbackPage
    <3>4. counter \in 57 .. 70 => Code!Instruction[1] = "pop"
      BY <2>1, <2>5, CallbackPage
    <3>5. counter = 20 => Code!Instruction[1] = "reserve"
      BY <2>1, <2>5, CallbackPage
    <3>6. counter \in {37, 38} => Code!Instruction[1] = "set"
      BY <2>1, <2>5, CallbackPage
    <3>7. counter = 56 => Code!Instruction[1] = "release"
      BY <2>1, <2>5, CallbackPage
    <3> QED BY <1>1, <2>5, <3>1, <3>2, <3>3, <3>4, <3>5, <3>6, <3>7
  <2>7. Depth(30)
    BY <2>1, <2>5, <2>6 DEF OnPage, InFrame, Storing, DisplacedAt
  <2>8. Len(stack) = 32
    BY <2>5, <2>7 DEF Depth
  <2> QED BY <2>8
<1> QED BY <1>1, <1>3, <1>4, <1>5, <1>6, <1>7

(* A member function finds this and all arguments where it expects them.   *)
LEMMA MemberFindsArguments ==
  ASSUME CodeInputs, Shifted(4)
  PROVE  /\ Len(Code!Expected) <= 4
         /\ \A i \in DOMAIN Code!Expected : reg[Code!ArgumentRegisters[i]] = Code!Expected[i]
<1> DEFINE abc == <<"a", "b", "c">>
<1>1. abc \in Seq({"a", "b", "c"}) /\ Len(abc) = 3 /\ abc[1] = "a" /\ abc[2] = "b" /\ abc[3] = "c"
  OBVIOUS
<1> HIDE DEF abc
<1>2. PICK n \in 0 .. 3 : n = arity
  BY DEF CodeInputs
<1> DEFINE args == SubSeq(abc, 1, n)
           this == <<"this">>
<1>3. args \in Seq({"a", "b", "c"}) /\ Len(args) = n /\ \A i \in 1 .. n : args[i] = abc[i]
  BY <1>1, <1>2
<1>4. this \in Seq({"this"}) /\ Len(this) = 1 /\ this[1] = "this"
  OBVIOUS
<1>5. Code!Expected = this \o args
  BY <1>2, <1>3 DEF Code!Expected, Code!Arguments, CodeInputs, abc
<1> HIDE DEF args, this
<1>6. /\ Len(this \o args) = 1 + n
      /\ (this \o args)[1] = "this"
      /\ \A i \in 1 .. n : (this \o args)[i + 1] = args[i]
  <2>1. this \in Seq({"this", "a", "b", "c"}) /\ args \in Seq({"this", "a", "b", "c"})
    BY <1>3, <1>4
  <2>2. /\ Len(this \o args) = Len(this) + Len(args)
        /\ \A i \in 1 .. Len(this) + Len(args) :
             (this \o args)[i] = IF i <= Len(this) THEN this[i] ELSE args[i - Len(this)]
    BY <2>1, ConcatProperties, Zenon
  <2> QED BY <1>2, <1>3, <1>4, <2>2
<1>7. /\ Len(Code!Expected) = 1 + n /\ DOMAIN Code!Expected = 1 .. 1 + n
      /\ Code!Expected[1] = "this"
      /\ n >= 1 => Code!Expected[2] = "a"
      /\ n >= 2 => Code!Expected[3] = "b"
      /\ n >= 3 => Code!Expected[4] = "c"
  <2>1. this \o args \in Seq({"this", "a", "b", "c"})
    BY <1>3, <1>4
  <2> QED BY <1>1, <1>2, <1>3, <1>5, <1>6, <2>1
<1>8. /\ reg["rcx"] = "this"
      /\ n >= 1 => reg["rdx"] = "a"
      /\ n >= 2 => reg["r8"] = "b"
      /\ n >= 3 => reg["r9"] = "c"
  BY <1>2, EnteredIs DEF Shifted
<1>9. /\ Code!ArgumentRegisters[1] = "rcx" /\ Code!ArgumentRegisters[2] = "rdx"
      /\ Code!ArgumentRegisters[3] = "r8" /\ Code!ArgumentRegisters[4] = "r9"
  BY DEF Code!ArgumentRegisters
<1>10. ASSUME NEW i \in 1 .. 1 + n
       PROVE  reg[Code!ArgumentRegisters[i]] = Code!Expected[i]
  <2>1. i \in {1, 2, 3, 4} /\ n >= i - 1
    BY <1>2
  <2> QED BY <1>2, <1>7, <1>8, <1>9, <2>1
<1> QED BY <1>2, <1>7, <1>10

(* The invariant says what is not seen.                                    *)
LEMMA CodeInvShows ==
  ASSUME CodeInv
  PROVE  CodeTransparent
<1>1. CodeInputs
  BY DEF CodeInv
<1>2. "rax" \in Registers /\ "rcx" \in Registers
  BY RegistersAre
<1>3. place = "hook" => (\A r \in DOMAIN reg : Code!Kept(r)) /\ flags = "kept"
  BY DEF CodeInv, SameBut, Code!Kept
<1>4. ASSUME place = "behind", NEW r \in DOMAIN reg
      PROVE  Code!Kept(r) \/ (use = "callback" /\ enabled /\ r \in {"xmm0", "xmm1", "xmm14"})
  <2>1. CASE use = "original"
    BY <1>4, <2>1 DEF CodeInv, SameBut, Code!Kept
  <2>2. CASE use \in {"patch", "callback"}
    <3>1. SameBut({"rax"} \cup Altered) /\ reg["rax"] = "data" /\ (use = "patch" => reg["rcx"] = RcxIs)
      BY <1>4, <2>2 DEF CodeInv
    <3>2. r \in Registers
      BY <1>4, <3>1 DEF SameBut
    <3>3. CASE r = "rax"
      BY <2>2, <3>1, <3>3 DEF Code!Kept
    <3>4. CASE use = "patch" /\ r = "rcx"
      BY <3>1, <3>4 DEF Code!Kept, RcxIs
    <3>5. CASE use = "callback" /\ r \in Lost
      BY <3>5 DEF Lost, Lossy
    <3>6. CASE r # "rax" /\ r \notin Altered
      <4>1. reg[r] = Code!Entered[r]
        BY <3>1, <3>2, <3>6 DEF SameBut
      <4>2. use = "patch" => r # "rcx"
        BY <3>6 DEF Altered
      <4> QED BY <3>6, <4>1, <4>2 DEF Code!Kept
    <3> QED BY <2>2, <3>3, <3>4, <3>5, <3>6 DEF Altered
  <2> QED BY <1>4, <2>1, <2>2 DEF CodeInv
<1>5. place = "member" =>
        /\ Len(Code!Expected) <= 4
        /\ \A i \in DOMAIN Code!Expected : reg[Code!ArgumentRegisters[i]] = Code!Expected[i]
  BY <1>1, MemberFindsArguments DEF CodeInv
<1>6. place \notin DOMAIN Code!Code => ~Code!Unbalanced
  <2>1. SUFFICES ASSUME place \notin DOMAIN Code!Code, Code!Unbalanced PROVE FALSE
    OBVIOUS
  <2>2. Depth(0)
    BY <2>1, CodeIs DEF CodeInv
  <2>3. stack[1] = "caller"
    BY <2>2 DEF Depth
  <2>4. ~(Len(stack) > 2)
    <3>1. PICK n \in {1, 2} : n = Len(stack)
      BY <2>2 DEF Depth
    <3>2. ~(n > 2)
      OBVIOUS
    <3> QED BY <3>1, <3>2
  <2>5. Len(stack) > 2 \/ stack[1] # "caller"
    BY <2>1 DEF Code!Unbalanced
  <2>6. stack[1] # "caller"
    BY <2>4, <2>5
  <2> QED BY <2>3, <2>6
<1> QED BY <1>3, <1>4, <1>5, <1>6, OnlyCallCalls DEF CodeTransparent, Code!CodeTransparent

(* As of the other tools, a step is a step of the code or none of it.      *)
LEMMA CodeStepOrNone ==
  ASSUME [Next]_vars
  PROVE  Code!Next \/ UNCHANGED codeVars
  BY DEF vars, Next, PointerStep, StreamStep, CallbackStep, UniqueStep, ThunkStep, GuardStep,
         TextStep, HeaderStep, ImportStep, AsmStep, CodeStep

(* Where the code takes no step its invariant is kept.                     *)
LEMMA CodeUnchanged ==
  ASSUME CodeInv, UNCHANGED codeVars
  PROVE  CodeInv'
<1>1. SameInputs /\ UNCHANGED <<place, counter, reg, flags, stack>>
  BY DEF codeVars, SameInputs
<1>2. /\ CodeInputs' /\ Altered' = Altered /\ DisplacedAt' = DisplacedAt /\ RcxIs' = RcxIs
      /\ Code!Entered' = Code!Entered /\ use' = use /\ enabled' = enabled
  BY <1>1, InputsStay, EnteredStays DEF CodeInv, SameInputs
<1>3. \A S : SameBut(S)' = SameBut(S)
  BY <1>1, <1>2 DEF SameBut
<1>4. \A d : Depth(d)' = Depth(d)
  BY <1>1, <1>2 DEF Depth
<1>5. /\ \A n : Saved(n)' = Saved(n)
      /\ \A S : Slots(S)' = Slots(S)
  BY <1>1, <1>2 DEF Saved, Slots, Code!PushOrder, Code!Xmm
<1>6. \A n, S, v, t : Jumping(n, S, v, t)' = Jumping(n, S, v, t)
  BY <1>1, <1>3, <1>4 DEF Jumping
<1>7. \A n : Shifted(n)' = Shifted(n)
  BY <1>1, <1>2, <1>3 DEF Shifted
<1>8. \A c : Checking(c)' = Checking(c)
  BY <1>1, <1>2, <1>3, <1>4 DEF Checking
<1>9. \A c : InFrame(c)' = InFrame(c)
  <2>1. \A c : Saving(c)' = Saving(c)
    BY <1>3, <1>4, <1>5 DEF Saving
  <2>2. \A c : Storing(c)' = Storing(c)
    BY <1>3, <1>4, <1>5 DEF Storing
  <2>3. \A c : Loading(c)' = Loading(c)
    BY <1>3, <1>4, <1>5 DEF Loading, Unloaded, VolatileXmm, Lossy
  <2>4. \A c : Popping(c)' = Popping(c)
    BY <1>3, <1>4, <1>5 DEF Popping, Unpopped, Lossy
  <2> QED BY <2>1, <2>2, <2>3, <2>4 DEF InFrame
<1>10. \A c : OnPage(c)' = OnPage(c)
  BY <1>1, <1>2, <1>3, <1>4, <1>6, <1>8, <1>9 DEF OnPage
<1> QED BY <1>1, <1>2, <1>3, <1>4, <1>6, <1>7, <1>10 DEF CodeInv

(* A hook procedure, a member function and the function behind a patch     *)
(* find registers, flags and stack as CodeTransparent says, whatever the   *)
(* flag of the patch, the number of arguments and what a callback changes, *)
(* if thunks return no class, no displaced instruction addresses relative  *)
(* to rip, and callbacks are made where the stack is aligned               *)
(* (InlineDetour.cpp, InlinePatch.cpp, InlineCallbackHook.h,               *)
(* PrologHook.cpp, Thunk.h).                                               *)
THEOREM CodeTransparentAlways ==
  ASSUME {"scalar_results", "no_rip", "aligned"} \subseteq ClientRules
  PROVE  Spec => []CodeTransparent
<1>1. Init => CodeInv
  BY CodeInit
<1>2. CodeInv /\ [Next]_vars => CodeInv'
  BY CodeStepOrNone, CodeStepKeeps, CodeUnchanged
<1>3. CodeInv => CodeTransparent
  BY CodeInvShows
<1> QED BY <1>1, <1>2, <1>3, PTL DEF Spec
=============================================================================
