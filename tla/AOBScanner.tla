----------------------------- MODULE AOBScanner -----------------------------
(***************************************************************************)
(* AOBPattern, parseByteArrayString and AOBScanner (AOBScanner.h and .cpp):*)
(* a client makes a byte pattern of a string it has edited.  A byte of a   *)
(* string is two digits, a wildcard of a pattern "??".                     *)
(***************************************************************************)
EXTENDS StringUtil

CONSTANTS HexOf,     (* the value of each hexadecimal digit                *)
          Haystacks  (* byte sequences that are searched                   *)

VARIABLES pattern,  (* what fromString() made; << >> stands for nullopt    *)
          bytes     (* what parseByteArrayString() made of the same string *)

Wild == -1

IsHex(c) == c \in DOMAIN HexOf
Even(s)  == s # << >> /\ Len(s) % 2 = 0

(* Seeded faults: an odd length; one question mark is a wildcard.          *)
AnyLength(s)        == s # << >> /\ \A i \in 1 .. Len(s) : IsHex(s[i])
OnlyTheFirst(s, i)  == i % 2 = 1 /\ s[i] = "?"

-----------------------------------------------------------------------------

IsHexString(s) == Even(s) /\ \A i \in 1 .. Len(s) : IsHex(s[i])

(* A "?" the loop of isValidPatternString() takes, and the one behind it.  *)
IsWildcard(s, i) == i % 2 = 1 /\ s[i] = "?" /\ s[i + 1] = "?"

IsValidPatternString(s) ==
  /\ Even(s)
  /\ \A i \in 1 .. Len(s) :
       IsHex(s[i]) \/ IsWildcard(s, i) \/ (i > 1 /\ IsWildcard(s, i - 1))

(* from_chars() of two digits.                                             *)
ByteAt(s, k) == 16 * HexOf[s[2 * k - 1]] + HexOf[s[2 * k]]

PatternOf(text) ==
  LET s == Stripped(text) IN
  IF ~IsValidPatternString(s) THEN << >>
  ELSE [k \in 1 .. Len(s) \div 2 |-> IF s[2 * k - 1] = "?" THEN Wild ELSE ByteAt(s, k)]

ParseByteArrayString(text) ==
  LET s == Stripped(text) IN
  IF ~IsHexString(s) THEN << >> ELSE [k \in 1 .. Len(s) \div 2 |-> ByteAt(s, k)]

(* The first place where the needle matches, or one behind the end.        *)
Find(haystack, needle) ==
  LET matches(i) == \A k \in 1 .. Len(needle) : needle[k] \in {Wild, haystack[i + k - 1]}
  IN Min({i \in 1 .. Len(haystack) - Len(needle) + 1 : matches(i)} \cup {Len(haystack) + 1})

ScannerInit == Init /\ pattern = << >> /\ bytes = << >>

Parse ==
  /\ pattern' = PatternOf(str)
  /\ bytes' = ParseByteArrayString(str)
  /\ UNCHANGED str

(* Once there is a pattern the string no longer matters.                   *)
ScannerNext ==
  \/ Parse
  \/ pattern = << >> /\ Edit /\ UNCHANGED <<pattern, bytes>>

-----------------------------------------------------------------------------
(* A string gives a pattern exactly if it is pairs of digits or of         *)
(* question marks between which, and inside which, there may be spaces.    *)
MeaningKept ==
  Parse =>
    LET s == Stripped(str)
        pair(k) == <<s[2 * k - 1], s[2 * k]>>
        meant(v) == IF v = Wild THEN {<<"?", "?">>}
                    ELSE {digits \in (DOMAIN HexOf) \X (DOMAIN HexOf) :
                            /\ HexOf[digits[1]] = v \div 16
                            /\ HexOf[digits[2]] = v % 16}
    IN IF pattern' # << >>
       THEN /\ Len(s) = 2 * Len(pattern')
            /\ \A k \in DOMAIN pattern' : pair(k) \in meant(pattern'[k])
       ELSE \/ s = << >>
            \/ Len(s) % 2 = 1
            \/ \E k \in 1 .. Len(s) \div 2 : pair(k) \notin meant(Wild)
                 /\ \E c \in {s[2 * k - 1], s[2 * k]} : ~IsHex(c)

PatternMeansString == [][MeaningKept]_<<str, pattern, bytes>>

(* The two parsers agree: what parseByteArrayString() reads is the pattern *)
(* of the same string, found where those bytes are, and it refuses of the  *)
(* patterns only those with wildcards.                                     *)
ParsersAgree ==
  /\ bytes # << >> => bytes = pattern
  /\ bytes = << >> /\ pattern # << >> => \E k \in DOMAIN pattern : pattern[k] = Wild
  /\ bytes # << >> => \A h \in Haystacks :
       LET place == Find(h, pattern) IN
       /\ place <= Len(h) <=> \E i \in 1 .. Len(h) : OccursAt(h, bytes, i)
       /\ \A i \in 1 .. place - 1 : ~OccursAt(h, bytes, i)
=============================================================================
