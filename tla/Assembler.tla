------------------------------ MODULE Assembler ------------------------------
(***************************************************************************)
(* Assembler (include/B3L/Assembler.h, src/Assembler.cpp): instructions    *)
(* are staged as text, addresses among their operands as numbers of Bits   *)
(* bits, and assembled together by an engine that the process opens at the *)
(* first use.  An encoding is as long as its text.                         *)
(***************************************************************************)
EXTENDS Integers, Sequences

CONSTANTS Instructions, (* those without an operand                        *)
          Invalid,      (* those of them the engine refuses                *)
          Bits,         (* of an address                                   *)
          Operands,     (* integers clients give for addresses             *)
          MaxPushed,    (* bounds the instructions staged since a clear()  *)
          MayFail,      (* whether the engine may fail to open             *)
          ClientRules   (* "big_buffers": a buffer holds what is staged    *)

VARIABLES staged,   (* the text: <<instruction, operand>>                  *)
          opened,   (* whether the engine is open                          *)
          pushed,   (* history: what was pushed and not cleared            *)
          emitted   (* history: what the encodings returned stand for      *)

vars == <<staged, opened, pushed, emitted>>

(* Seeded faults: what was assembled stays staged; addresses are not       *)
(* checked.                                                                *)
KeepsText(text) == text
Unchecked(v)    == TRUE

-----------------------------------------------------------------------------
Init == staged = << >> /\ opened = FALSE /\ pushed = << >> /\ emitted = << >>

(* domain_cast: std::in_range, then the low bits of the value.             *)
InDomain(v) == v \in 0 .. 2 ^ Bits - 1
LowBits(v)  == v % 2 ^ Bits

(* push_back() of an instruction, or of one with an Address{v}; of a value *)
(* no address can have that constructor throws, and nothing is staged.     *)
PushBack(i, v) ==
  /\ Len(pushed) < MaxPushed
  /\ InDomain(v)
  /\ staged' = Append(staged, <<i, LowBits(v)>>)
  /\ pushed' = Append(pushed, <<i, v>>)
  /\ UNCHANGED <<opened, emitted>>

Clear ==
  /\ staged' = << >>
  /\ pushed' = emitted
  /\ UNCHANGED <<opened, emitted>>

(* What the shared assemble() leaves staged when the engine took the text. *)
TextAfter(text) == << >>

Refused == \E i \in 1 .. Len(staged) : staged[i][1] \in Invalid

(* ks_open() or ks_asm() fails and assemble() throws.                      *)
AssembleFails ==
  /\ \/ ~opened /\ MayFail /\ UNCHANGED opened
     \/ Refused /\ opened' = TRUE
  /\ UNCHANGED <<staged, pushed, emitted>>

(* assemble() into a vector, or into a buffer of some size: one that is    *)
(* too small is left alone, after the text was cleared.                    *)
Assemble(size) ==
  /\ ~Refused
  /\ "big_buffers" \in ClientRules => size >= Len(staged)
  /\ opened' = TRUE
  /\ staged' = TextAfter(staged)
  /\ emitted' = IF size < Len(staged) THEN emitted ELSE emitted \o staged
  /\ UNCHANGED pushed

Next ==
  \/ \E i \in Instructions : PushBack(i, 0)
  \/ \E v \in Operands : PushBack("mov", v)
  \/ Clear
  \/ AssembleFails
  \/ \E size \in 0 .. MaxPushed : Assemble(size)

Spec == Init /\ [][Next]_vars

-----------------------------------------------------------------------------
(* Every instruction that is not cleared is assembled once, in its place   *)
(* and with the operand that was given, or is still staged, however many   *)
(* calls failed before: "The internal state is not cleared on failure."    *)
(* (Assembler.h)                                                           *)
EmittedOnce == pushed = emitted \o staged
=============================================================================
