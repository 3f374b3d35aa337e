---------------------------- MODULE GeneratedCode ----------------------------
(***************************************************************************)
(* The machine code the library writes: the jmp and the trampoline of a    *)
(* detour (src/InlineDetour.cpp), the page of an InlinePatch               *)
(* (src/InlinePatch.cpp) with the frame of an InlineCallback in it         *)
(* (include/B3L/InlineCallbackHook.h), the way back of a PrologHook        *)
(* (src/PrologHook.cpp) and the thunk that calls a member function         *)
(* (include/B3L/Thunk.h), run instruction by instruction.                  *)
(***************************************************************************)
EXTENDS Integers, SequencesExt

CONSTANT ClientRules  (* what the client promises, see below               *)

(***************************************************************************)
(* The promises a client may make:                                         *)
(*   "scalar_results": its thunks call functions that return no class;     *)
(*   "no_rip": it patches no instructions that address relative to rip;    *)
(*   "aligned": it calls back only from places where the stack is aligned, *)
(*       which at the entry of a function it is not.                       *)
(***************************************************************************)
VARIABLES use,      (* "patch", "callback", "hook", "original", "thunk"    *)
          enabled,  (* the flag of the patch                               *)
          shape,    (* of the displaced instructions: "plain" or "rip"     *)
          arity,    (* of the function a thunk calls: arguments            *)
          returns,  (*   and result, "scalar", "small" or "big" class      *)
          place,    (* the code that runs, or where control went           *)
          pc,       (* the instruction there                               *)
          reg,      (* what each register holds; at first, its name        *)
          flags,    (* "kept" or "lost"                                    *)
          stack     (* from the bottom; pushes of registers, and slots     *)

inputs == <<use, enabled, shape, arity, returns>>
vars   == <<inputs, place, pc, reg, flags, stack>>

General == {"rax", "rbx", "rcx", "rdx", "rsi", "rdi", "r8", "r9",
            "r10", "r11", "r12", "r13", "r14", "r15"}
Xmm     == <<"xmm0", "xmm1", "xmm2", "xmm3", "xmm4", "xmm5", "xmm6", "xmm7", "xmm8",
             "xmm9", "xmm10", "xmm11", "xmm12", "xmm13", "xmm14", "xmm15">>

(* The calling convention: registers of arguments, and what a called       *)
(* function may change besides the two slots above its return address.     *)
ArgumentRegisters == <<"rcx", "rdx", "r8", "r9">>
Volatile == {"rax", "rcx", "rdx", "r8", "r9", "r10", "r11"} \cup {Xmm[n] : n \in 1 .. 6}

(* Seeded faults: rsi and rdi are popped in the order of the pushes; rcx   *)
(* goes to rdx before rdx went to r8.                                      *)
PopsSwapped == <<"r15", "r14", "r13", "r12", "r11", "r10", "r9", "r8",
                 "rsi", "rdi", "rdx", "rcx", "rbx", "rax">>
ShiftsBackwards ==
  <<<<"mov", "rdx", "rcx">>, <<"mov", "r8", "rdx">>, <<"mov", "r9", "r8">>, <<"set", "rcx", "this">>>>

-----------------------------------------------------------------------------
(* The code, as sequences of <<operation, operands>>.  The library's way   *)
(* to jump anywhere without losing a register: the trampoline of a detour, *)
(* and the end of every other piece.                                       *)
JumpThrough(target) ==
  <<<<"push", "rax">>, <<"set", "rax", target>>, <<"xchg", "rax">>, <<"ret">>>>

PushOrder == <<"rax", "rbx", "rcx", "rdx", "rsi", "rdi", "r8", "r9",
               "r10", "r11", "r12", "r13", "r14", "r15">>
PopOrder  == <<"r15", "r14", "r13", "r12", "r11", "r10", "r9", "r8",
               "rdi", "rsi", "rdx", "rcx", "rbx", "rax">>

(* The register popAll loads from slot n: xmm14 gets that of xmm11 after   *)
(* its own, xmm11 gets none.                                               *)
LoadedFrom(n) == IF n = 12 THEN Xmm[15] ELSE Xmm[n]

PushAll ==
  [i \in 1 .. 14 |-> <<"push", PushOrder[i]>>] \o <<<<"reserve">>>>
    \o [n \in 1 .. 16 |-> <<"store", n, Xmm[n]>>]

PopAll ==
  [i \in 1 .. 16 |-> <<"load", 17 - i, LoadedFrom(17 - i)>>] \o <<<<"release">>>>
    \o [i \in 1 .. 14 |-> <<"pop", PopOrder[i]>>]

CallbackText ==
  PushAll \o <<<<"set", "rcx", "user">>, <<"set", "rax", "callback">>, <<"call", "rax">>>> \o PopAll

CheckText == <<<<"push", "rax">>, <<"flag", "rax">>, <<"cmp", "rax">>, <<"pop", "rax">>>>

(* The displaced instructions load what they find at an address.           *)
Displaced == IF shape = "rip" THEN <<<<"lea", "rax">>>> ELSE <<<<"set", "rax", "data">>>>

PatchText == IF use = "callback" THEN CallbackText ELSE <<<<"set", "rcx", "patched">>>>

PageText ==
  CheckText \o <<<<"je", Len(CheckText \o PatchText) + 2>>>> \o PatchText
    \o Displaced \o JumpThrough("behind")

ShiftArguments ==
  <<<<"mov", "r9", "r8">>, <<"mov", "r8", "rdx">>, <<"mov", "rdx", "rcx">>, <<"set", "rcx", "this">>>>

Code ==
  [entry      |-> <<<<"jmp", "trampoline">>>>,
   trampoline |-> JumpThrough(IF use = "hook" THEN "hook" ELSE "page"),
   page       |-> PageText,
   original   |-> JumpThrough("behind"),
   thunk      |-> ShiftArguments \o JumpThrough("member")]

-----------------------------------------------------------------------------
(* Where a caller puts the arguments of a function, and a member function  *)
(* expects them: a result of class type is written through a pointer, of   *)
(* member functions always, of others if it is big.                        *)
Arguments == SubSeq(<<"a", "b", "c">>, 1, arity)
Passed    == (IF returns = "big" THEN <<"result">> ELSE << >>) \o Arguments
Expected  == <<"this">> \o (IF returns = "scalar" THEN << >> ELSE <<"result">>) \o Arguments

Entered == [r \in General \cup ToSet(Xmm) |->
              IF \E i \in DOMAIN Passed : ArgumentRegisters[i] = r
              THEN Passed[CHOOSE i \in DOMAIN Passed : ArgumentRegisters[i] = r] ELSE r]

(* In front of a call the length of the stack is even where it is aligned. *)
Init ==
  /\ use \in {"patch", "callback", "hook", "original", "thunk"}
  /\ enabled \in BOOLEAN
  /\ shape \in {"plain"} \cup IF "no_rip" \in ClientRules THEN {} ELSE {"rip"}
  /\ arity \in 0 .. 3
  /\ returns \in {"scalar"} \cup IF "scalar_results" \in ClientRules THEN {} ELSE {"small", "big"}
  /\ use # "thunk" => arity = 0 /\ returns = "scalar"
  /\ place = IF use \in {"original", "thunk"} THEN use ELSE "entry"
  /\ pc = 1
  /\ reg = Entered
  /\ flags = "kept"
  /\ stack \in {<<"caller">>, <<"caller", "local">>}
  /\ use = "callback" /\ "aligned" \in ClientRules => Len(stack) % 2 = 0

-----------------------------------------------------------------------------
Instruction == Code[place][pc]

At(operation) == place \in DOMAIN Code /\ Instruction[1] = operation

Goes(target, n) == place' = target /\ pc' = n /\ UNCHANGED inputs
Continues       == Goes(place, pc + 1)

Top(n)    == Len(stack) - n + 1
Sets(r, v) == reg' = [reg EXCEPT ![r] = v]

Push ==
  /\ At("push")
  /\ stack' = Append(stack, reg[Instruction[2]])
  /\ Continues /\ UNCHANGED <<reg, flags>>

Pop ==
  /\ At("pop")
  /\ Sets(Instruction[2], Last(stack))
  /\ stack' = Front(stack)
  /\ Continues /\ UNCHANGED flags

(* xchg [rsp], register.                                                   *)
Exchange ==
  /\ At("xchg")
  /\ Sets(Instruction[2], Last(stack))
  /\ stack' = Append(Front(stack), reg[Instruction[2]])
  /\ Continues /\ UNCHANGED flags

(* The moves: from a register, of a constant, of the patch's flag, of an   *)
(* address that depends on where the instruction is.                       *)
Move ==
  /\ \/ At("mov") /\ Sets(Instruction[2], reg[Instruction[3]])
     \/ At("set") /\ Sets(Instruction[2], Instruction[3])
     \/ At("flag") /\ Sets(Instruction[2], IF enabled THEN "1" ELSE "0")
     \/ At("lea") /\ Sets(Instruction[2], IF place = "entry" THEN "data" ELSE "lost")
  /\ Continues /\ UNCHANGED <<flags, stack>>

(* cmp with zero: the flags are the answer.                                *)
Compare ==
  /\ At("cmp")
  /\ flags' = IF reg[Instruction[2]] = "0" THEN "equal" ELSE "lost"
  /\ Continues /\ UNCHANGED <<reg, stack>>

Branch ==
  /\ \/ At("je") /\ Goes(place, IF flags = "equal" THEN Instruction[2] ELSE pc + 1)
     \/ At("jmp") /\ Goes(Instruction[2], 1)
  /\ UNCHANGED <<reg, flags, stack>>

(* The frame's 16 slots; slot n is the n-th from the top.                  *)
Frame ==
  /\ \/ At("reserve") /\ stack' = stack \o [n \in 1 .. 16 |-> "junk"] /\ UNCHANGED reg
     \/ At("release") /\ stack' = SubSeq(stack, 1, Len(stack) - 16) /\ UNCHANGED reg
     \/ At("store") /\ stack' = [stack EXCEPT ![Top(Instruction[2])] = reg[Instruction[3]]]
                    /\ UNCHANGED reg
     \/ At("load") /\ Sets(Instruction[3], stack[Top(Instruction[2])]) /\ UNCHANGED stack
  /\ Continues /\ UNCHANGED flags

(* A called function uses all registers and slots that are its own, or     *)
(* only one of both, or none: the convention reserves the slots above its  *)
(* return address for its arguments.                                       *)
Call ==
  /\ At("call")
  /\ \E used \in SUBSET {"registers", "slots"} :
       /\ reg' = [r \in DOMAIN reg |-> IF r \in Volatile /\ "registers" \in used THEN "lost" ELSE reg[r]]
       /\ stack' = [i \in DOMAIN stack |->
                      IF i \in {Top(1), Top(2)} /\ "slots" \in used THEN "lost" ELSE stack[i]]
  /\ flags' = "lost"
  /\ Continues

Ret ==
  /\ At("ret")
  /\ stack' = Front(stack)
  /\ Goes(Last(stack), 1)
  /\ UNCHANGED <<reg, flags>>

Next == Push \/ Pop \/ Exchange \/ Move \/ Compare \/ Branch \/ Frame \/ Call \/ Ret

Spec == Init /\ [][Next]_vars

-----------------------------------------------------------------------------
(* What a register should hold where control goes on behind the displaced  *)
(* instructions: what they and an enabled patch set, and else what it held.*)
Kept(r) ==
  reg[r] = IF r = "rax" /\ use \in {"patch", "callback"} THEN "data"
           ELSE IF r = "rcx" /\ use = "patch" /\ enabled THEN "patched"
           ELSE Entered[r]

Unbalanced == Len(stack) > 2 \/ stack[1] # "caller"

(* The code the library puts between a caller and what it calls shows      *)
(* neither: a hook procedure finds every register, flag and return address *)
(* as the function would, a member function all arguments where it expects *)
(* them, and a patched function goes on with what the displaced            *)
(* instructions set and all else as it was, but for the flags, and for     *)
(* xmm0, xmm1 and xmm14 behind a callback, which is called with an aligned *)
(* stack.                                                                  *)
CodeTransparent ==
  /\ place = "hook" => (\A r \in DOMAIN reg : Kept(r)) /\ flags = "kept"
  /\ place = "behind" =>
       \A r \in DOMAIN reg :
         Kept(r) \/ (use = "callback" /\ enabled /\ r \in {"xmm0", "xmm1", "xmm14"})
  /\ place = "member" =>
       /\ Len(Expected) <= 4
       /\ \A i \in DOMAIN Expected : reg[ArgumentRegisters[i]] = Expected[i]
  /\ place \notin DOMAIN Code => ~Unbalanced
  /\ At("call") => Len(stack) % 2 = 0

(* An enabled InlineCallback leaves the function all the registers that    *)
(* pushAll saves.                                                          *)
RegistersRestored == place = "behind" => \A r \in DOMAIN reg : Kept(r)
=============================================================================
