---------------------------- MODULE Disassembler ----------------------------
(***************************************************************************)
(* Disassembler and StreamDisassembler (include/B3L/Disassembler.h,        *)
(* src/Disassembler.cpp).  The engine is opened by the first call; a       *)
(* stream is three fields that advance together and decodes into one       *)
(* buffer of the whole process; a block is decoded into an array of its    *)
(* own.  Either is copied, instruction by instruction, and may fail to be. *)
(***************************************************************************)
EXTENDS Integers, Sequences

CONSTANTS Threads,     (* each reads a stream of its own                   *)
          CodeSize,    (* bytes of code                                    *)
          Lengths,     (* lengths of instructions                          *)
          Base,        (* the address the first byte is said to have       *)
          MaxCount,    (* bound: instructions asked of a block             *)
          MayFail,     (* the engine or memory for a copy may be missing   *)
          ClientRules  (* "one_reader": no two threads decode at once      *)

VARIABLES length,   (* the length of the instruction at each byte; 0 where *)
                    (* there is none                                       *)
          engine,   (* "none", "plain", or "detailed" after the option     *)
          code,     (* of each stream: where it reads,                     *)
          size,     (*   how many bytes are left,                          *)
          address,  (*   and the address it reports                        *)
          pc,       (* "idle", "opening", "option", "ready" or "copying"   *)
          call,     (* what each thread called, and the count asked of it  *)
          from,     (* history: where the stream was when the call began   *)
          buffer,   (* the instruction a stream decoded last, and whether  *)
                    (* it was made to hold details                         *)
          array,    (* what each thread's block was decoded into           *)
          result    (* what the last call of each thread returned          *)

vars == <<length, engine, code, size, address, pc, call, from, buffer, array, result>>

Places  == 0 .. CodeSize - 1

(* A seeded fault: the array is freed behind the loop that copies it.      *)
FreedByLoop(t, ok) == IF ok THEN << >> ELSE array[t]

-----------------------------------------------------------------------------
(* Whether the engine finds a whole instruction in what is left.           *)
Decodes(p, left) == p \in Places /\ length[p] > 0 /\ length[p] <= left

Instruction(p, a, detail) == [at |-> p, address |-> a, detail |-> detail]

(* What cs_disasm finds: up to n instructions, any number for 0.           *)
Block(p, left, a, n) ==
  LET found[k \in 0 .. CodeSize] ==
        IF k = 0 THEN << >>
        ELSE LET done == found[k - 1]
                 next == IF done = << >> THEN p ELSE done[k - 1].at + length[done[k - 1].at]
             IN IF Len(done) = k - 1 /\ (n = 0 \/ k <= n) /\ Decodes(next, left - (next - p))
                THEN Append(done, Instruction(next, a + (next - p), engine))
                ELSE done
  IN found[CodeSize]

(* The array of a block, whether all of it was copied or not.              *)
Freed(t, ok) == << >>

Calls == [what : {"read", "peek"}, count : {1}] \cup [what : {"block"}, count : 0 .. MaxCount]

Init ==
  /\ length \in [Places -> Lengths \cup {0}]
  /\ engine = "none"
  /\ code = [t \in Threads |-> 0]
  /\ size = [t \in Threads |-> CodeSize]
  /\ address = [t \in Threads |-> Base]
  /\ pc = [t \in Threads |-> "idle"]
  /\ call = [t \in Threads |-> CHOOSE c \in Calls : c.what = "read"]
  /\ from = [t \in Threads |-> 0]
  /\ buffer = [detail |-> "none", holds |-> << >>]
  /\ array = [t \in Threads |-> << >>]
  /\ result = [t \in Threads |-> << >>]

-----------------------------------------------------------------------------
Goes(t, step) == pc' = [pc EXCEPT ![t] = step]

(* A call looks whether there is an engine.                                *)
Begin(t, what) ==
  /\ pc[t] = "idle"
  /\ "one_reader" \in ClientRules => \A u \in Threads : pc[u] = "idle"
  /\ Goes(t, IF engine = "none" THEN "opening" ELSE "ready")
  /\ call' = [call EXCEPT ![t] = what]
  /\ from' = [from EXCEPT ![t] = code[t]]
  /\ result' = [result EXCEPT ![t] = << >>]
  /\ UNCHANGED <<length, engine, code, size, address, buffer, array>>

(* cs_open may fail, and the call throws; only then the option is set.     *)
OpenEngine(t) ==
  /\ \/ pc[t] = "opening" /\ engine' = "plain" /\ Goes(t, "option")
     \/ pc[t] = "opening" /\ MayFail /\ Goes(t, "idle") /\ UNCHANGED engine
     \/ pc[t] = "option" /\ engine' = "detailed" /\ Goes(t, "ready")
  /\ UNCHANGED <<length, code, size, address, call, from, buffer, array, result>>

(* read() or peek(): the buffer is made once, filled, and the three fields *)
(* move, of the stream or of peek()'s copy of them.                        *)
Decode(t) ==
  /\ pc[t] = "ready" /\ call[t].what # "block"
  /\ LET detail == IF buffer.detail = "none" THEN engine ELSE buffer.detail
         finds  == Decodes(code[t], size[t])
         n      == IF finds /\ call[t].what = "read" THEN length[code[t]] ELSE 0
     IN /\ Goes(t, IF finds THEN "copying" ELSE "idle")
        /\ buffer' = [detail |-> detail,
                      holds |-> IF finds THEN <<Instruction(code[t], address[t], detail)>> ELSE buffer.holds]
        /\ code' = [code EXCEPT ![t] = @ + n]
        /\ size' = [size EXCEPT ![t] = @ - n]
        /\ address' = [address EXCEPT ![t] = @ + n]
  /\ UNCHANGED <<length, engine, call, from, array, result>>

(* disassemble(code, size, address, count).                                *)
DecodeBlock(t) ==
  /\ pc[t] = "ready" /\ call[t].what = "block"
  /\ array' = [array EXCEPT ![t] = Block(code[t], size[t], address[t], call[t].count)]
  /\ Goes(t, IF array'[t] = << >> THEN "idle" ELSE "copying")
  /\ UNCHANGED <<length, engine, code, size, address, call, from, buffer, result>>

(* The copies are made, or one of them throws.                             *)
Copy(t) ==
  /\ pc[t] = "copying"
  /\ \E ok \in {TRUE} \cup IF MayFail THEN {FALSE} ELSE {} :
       /\ result' = [result EXCEPT ![t] = IF ~ok THEN << >>
                                          ELSE IF call[t].what # "block" THEN buffer.holds
                                          ELSE array[t]]
       /\ array' = [array EXCEPT ![t] = Freed(t, ok)]
  /\ Goes(t, "idle")
  /\ UNCHANGED <<length, engine, code, size, address, call, from, buffer>>

Next == \E t \in Threads : \/ \E what \in Calls : Begin(t, what)
                           \/ OpenEngine(t) \/ Decode(t) \/ DecodeBlock(t) \/ Copy(t)

Spec == Init /\ [][Next]_vars

-----------------------------------------------------------------------------
(* A call returns, with all details, the instructions from where its       *)
(* stream was when it began and with the addresses they are said to have,  *)
(* a peek and the read after it the same one (the engine and the buffer    *)
(* are shared); and leaves no array behind.                                *)
ReturnsOwn ==
  \A t \in Threads : pc[t] = "idle" =>
    /\ array[t] = << >>
    /\ \A i \in DOMAIN result[t] :
         LET r == result[t][i] IN
         /\ r.at = IF i = 1 THEN from[t] ELSE result[t][i - 1].at + length[result[t][i - 1].at]
         /\ r.address = Base + r.at /\ r.detail = "detailed"
=============================================================================
