SPECIFICATION FairSpec
CONSTANTS
  GranuleCount = 4
  Threads = {t1}
INVARIANTS NearestFree
PROPERTIES AllocateReturns
