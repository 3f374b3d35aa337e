SPECIFICATION Spec
CONSTANTS
  Objects = {v1, v2}
  VftObjects = {v1, v2}
  Slots = {s1}
  Detours = {d1, d2}
  Foreign = {}
  Pristine = Pristine
  Null = Null
  Debug = FALSE
  MayFail = FALSE
  ClientRules = {"nested", "call_owning"}
PROPERTIES ReleaseNeverTraps
CHECK_DEADLOCK FALSE
