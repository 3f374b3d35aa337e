SPECIFICATION Spec
CONSTANTS
  Objects = {o1}
  Classes <- MCClasses
  Patches = {p1}
  Callers = {c1}
  Pristine = Pristine
  Torn = Torn
  Null = Null
  Failing = {}
  ClientRules = {"nested", "call_owning", "no_self_move", "fits_page"}
INVARIANTS EntrypointReachesLiveMemory
