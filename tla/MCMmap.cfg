SPECIFICATION FairSpec
CONSTANTS
  m1 = m1
  m2 = m2
  t1 = t1
  t2 = t2
  r1 = r1
  Mounts = {m1, m2}
  PAGE_CACHE_SIZE = 2
  sbi <- MCsbi
  RECORDS = 2
  Readers = {r1}
  ReadSizes = {2}
  NoTask = NoTask
  NoEntry = NoEntry
  Tasks = {t1, t2}
  Requests <- MCRequests
  phys_start_addr <- MCphys
  xip_fsoffset <- MCfsoffset
  xip_virt_addr <- MCvirt
  PAGE_OFFSET = 100
  NoRequest = NoRequest
  MaxMaps = 1
INVARIANTS MapsRight LogComplete LinesRight LogRead
PROPERTIES MmapReturns
