------------------------------- MODULE MCTools -------------------------------
(* Small instances of Tools.                                               *)
EXTENDS Tools
LOCAL INSTANCE SequencesExt

(* A plain pointer, one link, and two links through an array element.      *)
MCOffsetLists == {<<0>>, <<1, 0>>, <<0, 1, 0>>}

MCTexts     == BoundedSeq({" ", "0", "F", "?", "x"}, 4)
MCFragments == BoundedSeq({"0"}, 2) \cup {<<"F">>, <<"0", "F">>}
MCHexOf     == [c \in {"0", "F"} |-> IF c = "0" THEN 0 ELSE 15]
MCHaystacks == BoundedSeq({0, 15, 240}, 3)

(* No address, both addresses of one bit, and one too large.               *)
MCOperands == -1 .. 2

(* The headers are on the first of the pages of six units.                 *)
MCSections == [address : {0, 6, 9, 12}, size : {0, 1, 6, 7, 13}]
MCImages   == [lfanew : {-1, 0, 2, 3}, optional : {0, 2}, sections : BoundedSeq(MCSections, 2)]

MCLowerCase == [s \in {"k32", "K32", "ws2", "Alloc", "alloc", "#0", "#5"} |->
                  CASE s = "K32" -> "k32" [] s = "Alloc" -> "alloc" [] OTHER -> s]
MCTables ==
  LET lists == BoundedSeq({"Alloc", "alloc", "#0", "#5"}, 2)
      tables == BoundedSeq([name : {"k32", "K32", "ws2"}, imports : lists], 2)
  IN tables \ {<< >>}
=============================================================================
