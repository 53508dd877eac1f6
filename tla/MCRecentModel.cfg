\* The menu of GBonds, while another program uses a file that may not exist yet.
CONSTANTS
  g1 = g1
  other = other
  u1 = u1
  u2 = u2
  Proc = {g1, other}
  Uri = {u1, u2}
  Local = {u1, u2}
  GroupOf <- MCGroupOf
  Limit <- MCLimit
  Nil = Nil
  Absent = Absent
  Broken = Broken
  Mixtures = {}
  MaxItems = 2
  Tries = 2
  MaxTime = 1
  MaxOps = 2
  MaxDeaths = 1
SPECIFICATION Spec
INVARIANTS
  TypeOK
  OneInFile
  StaleNoticed
PROPERTIES
  KeepsList
  MenuCatchesUp
CHECK_DEADLOCK FALSE
