SPECIFICATION Spec
CONSTANTS
  a = a
  b = b
  x = x
  y = y
  t = t
  Procs = {a, b}
  Nodes <- TwoNodes
  TagsOf <- SameTags
  NodesOf <- OneTagNodes
  BatchSize = 2
  MaxTryNum = 2
  MaxAddr = 4
  MaxFaults = 1
  MaxOutages = 1
SYMMETRY Alike
INVARIANTS
  MainTypeOK
  RoundSeesInstances
  EndsCoherent
  BlockedOnlyAfterMaxTry
  HoldsItsAddress
PROPERTIES
  DropsOnlyOldRecords
  ReachableKept
