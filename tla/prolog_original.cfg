SPECIFICATION Spec
CONSTANTS
  Hooks = {h1}
  Code = {Pristine}
  Pristine = Pristine
  Null = Null
  Callers = {c1}
  Shapes = {"plain"}
  ClientRules = {"suspended", "nested", "assign_owning"}
  PatchObjects = {}
  NoBytes = NoBytes
  MayFail = FALSE
INVARIANTS OriginalRunsWhole
CHECK_DEADLOCK FALSE
