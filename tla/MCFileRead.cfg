SPECIFICATION FileReadFairSpec
CONSTANTS
  m1 = m1
  Mounts = {m1}
  PAGE_CACHE_SIZE = 2
  SIZE_MAX_1 = 64
  sbi <- MCSbi
  Calls <- MCCalls
INVARIANTS ReadRight
PROPERTIES ExactRead ReadReturns
