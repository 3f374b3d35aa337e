---------------------------- MODULE ImageImports ----------------------------
(***************************************************************************)
(* The imports of an image (include/B3L/ImageView.h, src/ImageView.cpp):   *)
(* an ImportIterator walks two arrays of thunks per descriptor, one with   *)
(* names, one with addresses; getImportAddressTableEntry() searches them.  *)
(***************************************************************************)
EXTENDS Integers, Sequences

CONSTANTS Tables,      (* the import tables: sequences of descriptors      *)
                       (* [name, imports], whose imports are symbols       *)
          Ordinals,    (* symbols that are ordinals                        *)
          LowerCase,   (* lower case of modules and of named symbols       *)
          ClientRules  (* "no_empty_lists": each descriptor has an import; *)
                       (* "prefix_only": it steps with ++it, not with it++ *)

VARIABLES table,     (* the image's table                                  *)
          loadable,  (* modules LoadLibraryA() loads                       *)
          head,      (* the iterator                                       *)
          passed     (* history: <<module, symbol, address>> it stood on   *)

vars == <<table, loadable, head, passed>>

(* What an iterator holds: a descriptor and a place in each array.         *)
End       == [descriptor |-> 0, original |-> <<0, 0>>, first |-> <<0, 0>>]
Begin(d)  == [descriptor |-> d, original |-> <<d, 1>>, first |-> <<d, 1>>]

(* A seeded fault: the address array is not changed with the descriptor.   *)
KeepsFirst(d) == [Begin(d) EXCEPT !.first = head.first]

-----------------------------------------------------------------------------
Modules == {table[d].name : d \in DOMAIN table}

IEqual(a, b) == LowerCase[a] = LowerCase[b]

(* Where operator++ begins with descriptor d.                              *)
StartOf(d) == Begin(d)

(* What operator* gives; of the end it is nothing.                         *)
Current(i) ==
  IF i = End THEN <<"none", "none", <<0, 0>>>>
  ELSE <<table[i.descriptor].name, table[i.original[1]].imports[i.original[2]], i.first>>

(* What the postfix operator returns for the place it was at.              *)
Old(i) == End

(* The iterator a step of the walk reads: *it before ++it, or *it++.       *)
Read == {head} \cup IF "prefix_only" \in ClientRules THEN {} ELSE {Old(head)}

Init ==
  /\ table \in {t \in Tables :
        "no_empty_lists" \in ClientRules => \A d \in DOMAIN t : t[d].imports # << >>}
  /\ loadable \in SUBSET Modules
  /\ head = Begin(1)
  /\ passed = << >>

(* operator++: both places move; behind the last symbol of a descriptor    *)
(* they go to the next one, behind the last descriptor to the end.         *)
Advance ==
  /\ head # End
  /\ \E i \in Read : passed' = Append(passed, Current(i))
  /\ LET d == head.descriptor IN
     head' = IF head.original[2] < Len(table[d].imports)
             THEN [head EXCEPT !.original[2] = @ + 1, !.first[2] = @ + 1]
             ELSE IF d < Len(table) THEN StartOf(d + 1) ELSE End
  /\ UNCHANGED <<table, loadable>>

Spec == Init /\ [][Advance]_vars

(* A symbol getImportAddressTableEntry() takes for what it looks for: an   *)
(* ordinal if it is the one asked for, a name if it is equal.              *)
IsAsked(s, fn, ord) == IF s \in Ordinals THEN s = ord ELSE IEqual(s, fn)

(* The address getImportAddressTableEntry() returns; <<0, 0>> is nullptr.  *)
Entry(mod, fn, ord) ==
  LET all    == UNION {{d} \X DOMAIN table[d].imports : d \in DOMAIN table}
      places == {p \in all : /\ IEqual(table[p[1]].name, mod)
                             /\ table[p[1]].name \in loadable
                             /\ IsAsked(table[p[1]].imports[p[2]], fn, ord)}
  IN IF places = {} THEN <<0, 0>>
     ELSE CHOOSE p \in places :
            \A q \in places : p[1] < q[1] \/ (p[1] = q[1] /\ p[2] <= q[2])

-----------------------------------------------------------------------------
(* The walk and the search agree: an address that is found is that of an   *)
(* import the walk passes, the first with that module and symbol, and for  *)
(* what is not found the walk passes nothing of a module that can be       *)
(* loaded.                                                                 *)
SearchAgreesWithWalk ==
  head = End =>
    \A mod \in Modules, fn \in (DOMAIN LowerCase) \ Ordinals, ord \in Ordinals :
      LET fits(e) == /\ e[1] \in loadable /\ IEqual(e[1], mod)
                     /\ e[2] = ord \/ (e[2] \notin Ordinals /\ IEqual(e[2], fn))
          found == {i \in DOMAIN passed : fits(passed[i])}
      IN \/ found = {} /\ Entry(mod, fn, ord) = <<0, 0>>
         \/ \E i \in found : /\ \A j \in found : i <= j
                             /\ Entry(mod, fn, ord) = passed[i][3]
=============================================================================
