-------------------------------- MODULE Tools --------------------------------
(***************************************************************************)
(* The parts of the library that share no state: deep pointers,            *)
(* disassembler, bound member functions, unique objects, thunks, strings   *)
(* and patterns, images, assembler, scope guards and the machine code the  *)
(* library generates.  As no step of one can matter to another, a          *)
(* behaviour uses one of them, the others keep one initial state.          *)
(***************************************************************************)
EXTENDS Integers, Sequences

CONSTANTS MaxAddress, OffsetLists,                           (* DeepPointer  *)
          CodeSize, Lengths, Base, MaxCount,                 (* Disassembler *)
          Ids, Instances,                          (* MemberFunctionCallback *)
          Pages, Zeros,                                      (* Thunk        *)
          Spaces, Texts, Fragments, HexOf, Haystacks,        (* AOBScanner   *)
          PageCount, PageSize, FixedSize, NtSize, HeaderRegion,
          Images, MaxIndex,                                  (* ImageHeaders *)
          Tables, Ordinals, LowerCase,                       (* ImageImports *)
          Instructions, Invalid, Bits, Operands, MaxPushed,  (* Assembler    *)
          MaxDepth, MaxGuards,                               (* ScopeGuards  *)
          Threads, Objects, Null, MayFail, ClientRules

IsSequence(s) == Len(s) \in Nat /\ s = [i \in 1 .. Len(s) |-> s[i]]

(* Null is nothing a thunk, a delegate or a binder could hold instead, an  *)
(* address has some number of bits, and of a section it is one of the      *)
(* pages there can be; the other data are of their types in the code.  An  *)
(* image that is walked has an import descriptor.                          *)
ASSUME ToolsAssumption ==
  /\ Null \notin Pages \cup Instances
  /\ Null \notin Ids \X Instances
  /\ Bits \in Nat /\ 2 ^ Bits \in Nat
  /\ OffsetLists \subseteq Seq(Int)
  /\ CodeSize \in Nat /\ Base \in Int /\ Lengths \subseteq Nat
  /\ PageCount \in Nat /\ PageSize \in Nat \ {0}
  /\ FixedSize \in Int /\ NtSize \in Int /\ FixedSize <= NtSize
  /\ HeaderRegion \in Nat \ {0}
  /\ \A image \in Images :
       /\ image.lfanew \in Int /\ image.optional \in Int
       /\ image.sections \in Seq([address : 0 .. PageCount * PageSize, size : Nat])
  /\ \A t \in Texts \cup Fragments \cup Haystacks : IsSequence(t)
  /\ \A c \in DOMAIN HexOf : HexOf[c] \in 0 .. 15
  /\ "?" \notin DOMAIN HexOf
  /\ Tables \subseteq Seq([name : DOMAIN LowerCase, imports : Seq(DOMAIN LowerCase)]) \ {<< >>}

VARIABLES tool,
          base, offsets, cell, right, walk, addr, link, targets, changed,
          length, engine, code, size, address, pc, call, from, buffer, array, result,
          func, instances, asks, bound, called,
          locked, owns, uniques, hollow,
          page, content, mapped, thunks, means, faulted,
          str, pattern, bytes,
          committed, view, got,
          table, loadable, head, passed,
          staged, opened, pushed, emitted,
          scopes, flying, terminated,
          use, enabled, shape, arity, returns, place, counter, reg, flags, stack

Pointers  == INSTANCE DeepPointer
Streams   == INSTANCE Disassembler
Callbacks == INSTANCE MemberFunctionCallback WITH alive <- instances
Uniques   == INSTANCE Unique WITH alive <- uniques
Thunks    == INSTANCE Thunk WITH alive <- thunks
Scanner   == INSTANCE AOBScanner
Headers   == INSTANCE ImageHeaders
Imports   == INSTANCE ImageImports
Asm       == INSTANCE Assembler
Guards    == INSTANCE ScopeGuards
Code      == INSTANCE GeneratedCode WITH pc <- counter

pointerVars  == <<base, offsets, cell, right, walk, addr, link, targets, changed>>
streamVars   == <<length, engine, code, size, address, pc, call, from, buffer, array, result>>
callbackVars == <<func, instances, asks, bound, called>>
uniqueVars   == <<locked, owns, uniques, hollow>>
thunkVars    == <<page, content, mapped, thunks, means, faulted>>
textVars     == <<str, pattern, bytes>>
headerVars   == <<committed, view, got>>
importVars   == <<table, loadable, head, passed>>
asmVars      == <<staged, opened, pushed, emitted>>
guardVars    == <<scopes, flying, terminated>>
codeVars     == <<use, enabled, shape, arity, returns, place, counter, reg, flags, stack>>

objectVars == <<callbackVars, uniqueVars, thunkVars, guardVars>>
imageVars  == <<textVars, headerVars, importVars>>
vars       == <<tool, pointerVars, streamVars, objectVars, imageVars, asmVars, codeVars>>

-----------------------------------------------------------------------------
IdleTable == CHOOSE t \in Tables : \A d \in DOMAIN t : t[d].imports # << >>

Init ==
  /\ tool \in {"pointer", "stream", "callback", "unique", "thunk", "guards",
               "text", "headers", "imports", "assembler", "code"}
  /\ Pointers!Init /\ (tool # "pointer" => offsets = << >> /\ \A a \in DOMAIN cell : cell[a] = 0)
  /\ Streams!Init /\ (tool # "stream" => \A p \in DOMAIN length : length[p] = 0)
  /\ Callbacks!Init /\ Uniques!Init /\ Thunks!Init /\ Guards!Init
  /\ Scanner!ScannerInit /\ (tool # "text" => str = << >>)
  /\ Headers!Init /\ (tool # "headers" => committed = {})
  /\ Imports!Init /\ (tool # "imports" => loadable = {} /\ table = IdleTable)
  /\ Asm!Init
  /\ Code!Init /\ (tool # "code" => use = "patch" /\ ~enabled /\ shape = "plain" /\ Len(stack) = 1)

UseOf(t) == tool = t /\ UNCHANGED tool

PointerStep  == UseOf("pointer") /\ Pointers!Next
                /\ UNCHANGED <<streamVars, objectVars, imageVars, asmVars, codeVars>>
StreamStep   == UseOf("stream") /\ Streams!Next
                /\ UNCHANGED <<pointerVars, objectVars, imageVars, asmVars, codeVars>>
CallbackStep == UseOf("callback") /\ Callbacks!Next
                /\ UNCHANGED <<pointerVars, streamVars, uniqueVars, thunkVars, guardVars, imageVars, asmVars, codeVars>>
UniqueStep   == UseOf("unique") /\ Uniques!Next
                /\ UNCHANGED <<pointerVars, streamVars, callbackVars, thunkVars, guardVars, imageVars, asmVars, codeVars>>
ThunkStep    == UseOf("thunk") /\ Thunks!Next
                /\ UNCHANGED <<pointerVars, streamVars, callbackVars, uniqueVars, guardVars, imageVars, asmVars, codeVars>>
GuardStep    == UseOf("guards") /\ Guards!Next
                /\ UNCHANGED <<pointerVars, streamVars, callbackVars, uniqueVars, thunkVars, imageVars, asmVars, codeVars>>
TextStep     == UseOf("text") /\ Scanner!ScannerNext
                /\ UNCHANGED <<pointerVars, streamVars, objectVars, headerVars, importVars, asmVars, codeVars>>
HeaderStep   == UseOf("headers") /\ Headers!Next
                /\ UNCHANGED <<pointerVars, streamVars, objectVars, textVars, importVars, asmVars, codeVars>>
ImportStep   == UseOf("imports") /\ Imports!Advance
                /\ UNCHANGED <<pointerVars, streamVars, objectVars, textVars, headerVars, asmVars, codeVars>>
AsmStep      == UseOf("assembler") /\ Asm!Next
                /\ UNCHANGED <<pointerVars, streamVars, objectVars, imageVars, codeVars>>
CodeStep     == UseOf("code") /\ Code!Next
                /\ UNCHANGED <<pointerVars, streamVars, objectVars, imageVars, asmVars>>

Next ==
  \/ PointerStep \/ StreamStep \/ CallbackStep \/ UniqueStep \/ ThunkStep \/ GuardStep
  \/ TextStep \/ HeaderStep \/ ImportStep \/ AsmStep \/ CodeStep

Spec == Init /\ [][Next]_vars

-----------------------------------------------------------------------------
(* DeepPointer: get() and set() touch only an address the chain led to at  *)
(* some moment of the call.                                                *)
NoTornChain == Pointers!NoTornChain

(* DeepPointer: an access that fails does not end the process, although    *)
(* rights change behind the range checks.                                  *)
NeverTerminates == Pointers!NeverTerminates

(* Disassembler: a call returns the instructions its stream was at, with   *)
(* all details, although engine and buffer are shared, and frees its array.*)
ReturnsOwn == Streams!ReturnsOwn

(* bindInstance: a callback reaches the instance it was bound to.          *)
CallbackReachesBound ==
  [][\A id \in Ids, i \in Instances :
       Callbacks!Callback(id, i) => called' = i /\ i \in instances]_vars

(* Unique: at most one object is alive that was not moved from, and the    *)
(* mutex is held exactly as long as there is one.                          *)
OneInstance == Uniques!OneInstance

(* Thunk: a thunk calls the instance it was made or copied for, from a     *)
(* page of its own.                                                        *)
ThunkCallsItsOwn == Thunks!ThunkCallsItsOwn

(* Thunk: no copy, move, assignment or failure leaks a page.               *)
NoPageLeaked == Thunks!NoPageLeaked

(* ScopeExit: how a scope is left decides which guards run, whatever is    *)
(* thrown and caught meanwhile.                                            *)
GuardsFollowExit == Guards!GuardsFollowExit

(* StringUtil::replace: every match that begins outside earlier ones is    *)
(* replaced, and nothing else.                                             *)
ReplacesAllMatches == Scanner!ReplacesAllMatches

(* AOBPattern::fromString: a string gives a pattern exactly if it is pairs *)
(* of digits or question marks.                                            *)
PatternMeansString == Scanner!PatternMeansString

(* parseByteArrayString and fromString agree, and AOBScanner::find finds   *)
(* such a pattern where the bytes are.                                     *)
ParsersAgree == Scanner!ParsersAgree

(* ImageView: what the accessors of a view lead to is there.               *)
ReadsAreThere == Headers!ReadsAreThere

(* getImportAddressTableEntry finds what a walk with an ImportIterator     *)
(* finds.                                                                  *)
SearchAgreesWithWalk == Imports!SearchAgreesWithWalk

(* Assembler: what is staged is assembled once, whatever fails before.     *)
EmittedOnce == Asm!EmittedOnce

(* InlineDetour, InlinePatch, InlineCallback, PrologHook, Thunk: the code  *)
(* they generate is not seen by the code around it.                        *)
CodeTransparent == Code!CodeTransparent

(* InlinePatch_tests.cpp: a function that calls back goes on as if it had  *)
(* not: all registers that pushAll saves are restored.                     *)
RegistersRestored == Code!RegistersRestored

(* StringUtil.h: trim() removes all leading and trailing whitespace, and   *)
(* nothing else.                                                           *)
TrimRemovesWhitespace == Scanner!TrimRemovesWhitespace
=============================================================================
