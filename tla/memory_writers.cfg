SPECIFICATION FairSpec
CONSTANTS
  PageCount = 3
  Threads = {t1, t2}
  MaxSpan = 2
  MayFail = TRUE
  ClientRules = {"uniform"}
INVARIANTS CopyNeverFaults ProtectionRestored OnlyLoosened
PROPERTIES WindowCloses
CHECK_DEADLOCK FALSE
