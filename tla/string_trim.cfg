SPECIFICATION Spec
CONSTANTS
  MaxAddress = 1
  OffsetLists <- MCOffsetLists
  CodeSize = 3
  Lengths = {1}
  Base = 7
  MaxCount = 2
  Ids = {id1, id2}
  Instances = {i1, i2}
  Pages = {p1, p2, p3, p4}
  Zeros = Zeros
  Spaces = {" "}
  Texts <- MCTexts
  Fragments <- MCFragments
  HexOf <- MCHexOf
  Haystacks <- MCHaystacks
  PageCount = 4
  PageSize = 6
  FixedSize = 2
  NtSize = 3
  HeaderRegion = 6
  Images = {}
  MaxIndex = 2
  Tables <- MCTables
  Ordinals = {"#0", "#5"}
  LowerCase <- MCLowerCase
  Instructions = {"nop", "bad"}
  Invalid = {"bad"}
  Bits = 1
  Operands <- MCOperands
  MaxPushed = 3
  MaxDepth = 1
  MaxGuards = 2
  Threads = {t1, t2}
  Objects = {o1}
  Null = Null
  MayFail = TRUE
  ClientRules = {"one_link", "no_guards", "one_reader", "one_binder", "outlives", "no_self_copy",
                 "page_aligned", "mapped_headers", "valid_index", "no_empty_lists", "prefix_only", "big_buffers",
                 "quiet_callables", "scalar_results", "no_rip", "aligned"}
PROPERTY TrimRemovesWhitespace
CHECK_DEADLOCK FALSE
