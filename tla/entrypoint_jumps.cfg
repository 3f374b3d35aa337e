SPECIFICATION Spec
CONSTANTS
  Hooks = {h1, h2, h3}
  Code = {Pristine, bytes1, bytes2}
  Pristine = Pristine
  Null = Null
  Callers = {c1, c2}
  Shapes = {"plain", "jmp", "jmp_rip", "jmp_mem"}
  ClientRules = {"suspended", "nested", "jump_entries", "assign_owning"}
  PatchObjects = {o1, o2}
  NoBytes = NoBytes
  MayFail = TRUE
SYMMETRY Symmetry
INVARIANTS NoWildCall OriginalRunsWhole JumpsLeadToLive
PROPERTIES PatchReleaseInert
CHECK_DEADLOCK FALSE
