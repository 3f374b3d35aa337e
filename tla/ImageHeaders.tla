---------------------------- MODULE ImageHeaders ----------------------------
(***************************************************************************)
(* ImageView (include/B3L/ImageView.h, src/ImageView.cpp): is what lies at *)
(* an address the image of a program, and what do the accessors of a view  *)
(* read?  Offsets are counted in units, the DOS header is at offset 0.     *)
(***************************************************************************)
EXTENDS Integers, Sequences

CONSTANTS PageCount, PageSize,  (* what VirtualQuery() knows               *)
          FixedSize,            (* signature and file header               *)
          NtSize,               (* all of IMAGE_NT_HEADERS, no less        *)
          HeaderRegion,         (* the size of the region the headers are in *)
          Images,               (* [lfanew, optional, sections], see below *)
          MaxIndex,             (* bound: sections asked for               *)
          ClientRules           (* "page_aligned": sections begin with a   *)
                                (* page; "mapped_headers": the region at   *)
                                (* the address it names has memory;        *)
                                (* "valid_index": it asks for no section   *)
                                (* with a negative index                   *)

(* Of an image the offset of the NT headers, the size of the optional one, *)
(* and a sequence of sections [address, size].                             *)
VARIABLES committed,  (* the pages with memory                             *)
          view,       (* the image a view was made of, or Unmapped         *)
          got         (* the offsets the last call read or led to, of      *)
                      (* headers and of data                               *)

Unmapped == [lfanew |-> 0, optional |-> 0, sections |-> << >>]

(* Seeded faults: only the end is compared; a region counts twice.         *)
OnlyEnd(begin, size)      == begin + size < HeaderRegion
RegionTwice(first, last)  == 2 * (last - first) * PageSize

-----------------------------------------------------------------------------
(* Strictly less: headers that end with the region are refused.            *)
FitsInRange(begin, size) == 0 <= begin /\ begin + size < HeaderRegion

SectionHeaders(image) == image.lfanew + FixedSize + image.optional

ValidateHeaderStructure(image) ==
  /\ FitsInRange(image.lfanew, NtSize)
  /\ FitsInRange(SectionHeaders(image), Len(image.sections))

(* The first page behind the region of committed pages p is in.            *)
RegionEnd(p) ==
  CHOOSE q \in p + 1 .. PageCount :
    /\ p .. q - 1 \subseteq committed
    /\ q = PageCount \/ q \notin committed

RegionSize(first, last) == (last - first) * PageSize

(* The loop over the regions of a section: head is the page it looks at,   *)
(* and as the regions follow each other, the sum of their sizes is that of *)
(* all pages from the first to head.                                       *)
SectionIsMapped(section) ==
  LET first == section.address \div PageSize
      mapped[head \in 0 .. PageCount] ==
        \/ RegionSize(first, head) >= section.size
        \/ head \in committed /\ mapped[RegionEnd(head)]
  IN mapped[first]

ValidateMappedSectionStructure(image) ==
  \A i \in DOMAIN image.sections : SectionIsMapped(image.sections[i])

Init ==
  /\ committed \in SUBSET (0 .. PageCount - 1)
  /\ view = Unmapped
  /\ got = [headers |-> {}, data |-> {}]

(* The DOS header, the NT headers if they fit, and the section headers up  *)
(* to the first section without memory: nobody asked for the state of the  *)
(* region they are in, only for its size.                                  *)
HeadersRead(image) ==
  UNION {{0},
         {image.lfanew + b : b \in {b \in 0 .. FixedSize - 1 : FitsInRange(image.lfanew, NtSize)}},
         {SectionHeaders(image) + n - 1 :
            n \in {n \in DOMAIN image.sections :
                     /\ ValidateHeaderStructure(image)
                     /\ \A m \in 1 .. n - 1 : SectionIsMapped(image.sections[m])}}}

HeadersAreMapped == \A b \in 0 .. HeaderRegion - 1 : b \div PageSize \in committed

(* One view is made, until one is there.                                   *)
CreateFromMappedImage(image) ==
  /\ view = Unmapped
  /\ "mapped_headers" \in ClientRules => HeadersAreMapped
  /\ "page_aligned" \in ClientRules =>
       \A i \in DOMAIN image.sections : image.sections[i].address % PageSize = 0
  /\ view' = IF ValidateHeaderStructure(image) /\ ValidateMappedSectionStructure(image)
             THEN image ELSE Unmapped
  /\ got' = [headers |-> HeadersRead(image), data |-> {}]
  /\ UNCHANGED committed

(* ntHeaders() with all in them, and sections() up to sectionCount().      *)
Headers ==
  /\ view # Unmapped
  /\ got' = [headers |-> view.lfanew .. view.lfanew + NtSize - 1
                 \cup SectionHeaders(view) .. SectionHeaders(view) + Len(view.sections) - 1,
             data |-> {}]
  /\ UNCHANGED <<committed, view>>

(* section(index): a null pointer for an index out of range.               *)
Missing == [address |-> -1, size |-> 0]

Section(index) ==
  IF index < 0 \/ index >= Len(view.sections) THEN Missing ELSE view.sections[index + 1]

(* sectionData(index): compares with the count only, then takes what       *)
(* section() returns; -1 stands for what a null pointer leads to.          *)
SectionData(index) ==
  /\ view # Unmapped
  /\ "valid_index" \in ClientRules => index >= 0
  /\ got' = [headers |-> {},
             data |-> IF Len(view.sections) <= index THEN {}
                      ELSE IF Section(index) = Missing THEN {-1}
                      ELSE {Section(index).address + b : b \in 0 .. Section(index).size - 1}]
  /\ UNCHANGED <<committed, view>>

Next == \/ \E image \in Images : CreateFromMappedImage(image)
        \/ Headers
        \/ \E index \in -1 .. MaxIndex : SectionData(index)

Spec == Init /\ [][Next]_<<committed, view, got>>

-----------------------------------------------------------------------------
(* What is read to make a view and what its accessors lead to is there:    *)
(* the headers in front of the end of their region, whatever offsets and   *)
(* sizes they claim, and every byte of them and of every section on a      *)
(* committed page, across any regions.                                     *)
ReadsAreThere ==
  /\ got.headers \subseteq 0 .. HeaderRegion - 1
  /\ \A b \in got.headers \cup got.data : b \div PageSize \in committed
=============================================================================
