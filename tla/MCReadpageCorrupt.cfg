SPECIFICATION Spec
CONSTANTS
  m1 = m1
  m2 = m2
  t1 = t1
  t2 = t2
  t3 = t3
  Mounts = {m1, m2}
  Threads = {t1, t2}
  NoThread = NoThread
  NoRequest = NoRequest
  PAGE_CACHE_SIZE = 2
  sbi <- MCSbi
  Requests <- MCRequests
INVARIANTS UptodateIsFilled
