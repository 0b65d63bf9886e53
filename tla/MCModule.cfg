SPECIFICATION FairModuleSpec
CONSTANTS
  m1 = m1
  m2 = m2
  m3 = m3
  m4 = m4
  u1 = u1
  u2 = u2
  Mounts = {m1, m2, m3, m4}
  Users = {u1, u2}
  NoMount = NoMount
  NoNodes = {m4}
  Siblings = {"none", "data"}
INVARIANTS DirectoryRight FilesSafe Released ModuleSound
PROPERTIES RemovalEnds
