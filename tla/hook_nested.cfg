SPECIFICATION Spec
CONSTANTS
  Objects = {i1, i2, v1, v2}
  VftObjects = {v1, v2}
  Slots = {s1}
  Detours = {d1, d2}
  Foreign = {f1}
  Pristine = Pristine
  Null = Null
  Debug = TRUE
  MayFail = TRUE
  ClientRules = {"nested", "assign_owning"}
SYMMETRY Symmetry
INVARIANTS TypeOK NoDanglingDetour OriginalsOutlive
PROPERTIES MovedFromInert ReleaseNeverTraps IsInterceptPoint
CHECK_DEADLOCK FALSE
