SPECIFICATION FairSpec
CONSTANTS
  t1 = t1
  t2 = t2
  Tasks = {t1, t2}
  blocks = 3
  pages <- MCPages
  inode_array_index <- MCArrayIndex
  Deep = {1}
  FaultPages <- MCFaultPages
  Commands = {"on", "off", "clear"}
  MaxFaults = 2
  ReadSizes = {2, 5}
  PROC_BLOCK_SIZE = 4
  MAX_STRING_LEN = 2
  LongestRow = 2
INVARIANTS RowsRight CountSound
PROPERTIES ReadEnds
