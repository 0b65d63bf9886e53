SPECIFICATION Spec
CONSTANTS
  Mounts <- MCImages
  PAGE_CACHE_SIZE = 2
  sbi <- MCSbi
  super <- MCSuper
  region <- MCRegion
  packed <- MCPacked
  tree <- MCTree
  BYTE = 4
  PERM = 2
  WORD = 32
  LINK = 2
  Wanted = {3, 6}
INVARIANTS Fits ReadRight ListsTree
