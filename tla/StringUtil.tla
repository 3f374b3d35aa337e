----------------------------- MODULE StringUtil -----------------------------
(***************************************************************************)
(* StringUtil (include/B3L/StringUtil.h, src/StringUtil.cpp): a client     *)
(* edits a string in place.                                                *)
(***************************************************************************)
EXTENDS Integers, SequencesExt

CONSTANTS Spaces,    (* characters iswspace() takes                        *)
          Texts,     (* the strings there are at first                     *)
          Fragments  (* what the client has replaced, and by what          *)

VARIABLE str

(* A seeded fault: the search skips a character behind each match.         *)
SkipsOne(i, old) == i + Len(old) + 1

-----------------------------------------------------------------------------
OccursAt(s, part, i) ==
  /\ i + Len(part) - 1 <= Len(s)
  /\ \A k \in 1 .. Len(part) : s[i + k - 1] = part[k]

(* Where the search for old goes on after a match at i.                    *)
ResumeAt(i, old) == i + Len(old)

Replaced(s, old, new) ==
  LET turn(acc, i) ==
        IF i < acc.next THEN acc
        ELSE IF OccursAt(s, old, i)
             THEN [out |-> acc.out \o new, next |-> ResumeAt(i, old)]
             ELSE [out |-> Append(acc.out, s[i]), next |-> i + 1]
      done[i \in 0 .. Len(s)] ==
        IF i = 0 THEN [out |-> << >>, next |-> 1] ELSE turn(done[i - 1], i)
  IN IF old = << >> THEN s ELSE done[Len(s)].out

(* trim() cuts behind the last but one character of what it keeps.         *)
Trimmed(s) ==
  LET black == {i \in 1 .. Len(s) : s[i] \notin Spaces}
  IN IF black = {} THEN s ELSE SubSeq(s, Min(black), Max(black) - 1)

Stripped(s) ==
  LET kept[i \in 0 .. Len(s)] ==
        IF i = 0 THEN << >>
        ELSE IF s[i] \in Spaces THEN kept[i - 1] ELSE Append(kept[i - 1], s[i])
  IN kept[Len(s)]

Init == str \in Texts

Replace(old, new)  == str' = Replaced(str, old, new)
Trim               == str' = Trimmed(str)
RemoveWhitespace   == str' = Stripped(str)

Edit ==
  \/ /\ str \in Texts  (* bounds the length *)
     /\ \E old, new \in Fragments : Replace(old, new)
  \/ Trim
  \/ RemoveWhitespace

Spec == Init /\ [][Edit]_str

-----------------------------------------------------------------------------
(* replace() replaces every occurrence that does not begin inside an       *)
(* earlier one, also one that touches it, and nothing that only appears    *)
(* because of a replacement.                                               *)
MatchesReplaced ==
  str # << >> => \A old, new \in Fragments : old # << >> /\ Replace(old, new) =>
    LET occurs == {i \in 1 .. Len(str) : OccursAt(str, old, i)}
        inside(i, j) == j < i /\ i < j + Len(old)
    IN \E M \in SUBSET occurs :
         LET shift(i) == Cardinality({j \in M : j < i}) * (Len(new) - Len(old)) IN
         /\ \A i \in occurs : i \notin M <=> \E j \in M : inside(i, j)
         /\ Len(str') = Len(str) + shift(Len(str) + 1)
         /\ \A i \in M : OccursAt(str', new, i + shift(i))
         /\ \A i \in (1 .. Len(str)) \ M :
              (\A j \in M : ~inside(i, j)) => str'[i + shift(i)] = str[i]

ReplacesAllMatches == [][MatchesReplaced]_str

(* "Remove all leading and trailing whitespace characters." (StringUtil.h) *)
TrimRemovesWhitespace ==
  [][Trim => /\ Stripped(str') = Stripped(str)
             /\ str' # << >> => /\ str'[1] \notin Spaces
                                /\ str'[Len(str')] \notin Spaces]_str
=============================================================================
