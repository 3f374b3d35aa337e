SPECIFICATION FairSpec
CONSTANTS
  Objects = {o1, o2}
  Classes <- MCClasses
  Patches = {p1, p2}
  Callers = {c1, c2}
  Pristine = Pristine
  Torn = Torn
  Null = Null
  Failing = {"newFlag", "newCode", "newTrampoline", "tear"}
  ClientRules = {"suspended", "nested", "call_owning", "no_self_move", "fits_page"}
INVARIANTS NoWildExecution DisplacedRunOnce EnabledPatchesRun MemoryFollowsOwners
PROPERTIES CallsReturn
