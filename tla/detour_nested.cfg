SPECIFICATION Spec
CONSTANTS
  Objects = {o1, o2, o3}
  Entrypoints = {f1, f2}
  Trampolines = {t1, t2, t3}
  Foreign = {x1}
  Pristine = Pristine
  Null = Null
  Failures = {"disassemble", "assemble", "unprotect", "reprotect"}
  ClientRules = {"nested", "no_self_move"}
SYMMETRY Symmetry
INVARIANTS NoDanglingJump OneOwnerPerTrampoline
PROPERTIES ReleaseDivertsOnlyOwn IsInterceptPoint
CHECK_DEADLOCK FALSE
