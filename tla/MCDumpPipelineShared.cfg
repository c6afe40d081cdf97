SPECIFICATION Spec
CONSTANTS
  Images = 1
  Name <- ThreeNames
  TableOf <- ThreeTables
  PoolSize = 2
  NoOne = NoOne
  Plugin <- ThreePlugins
  PrintKeys <- ThreePrintKeys
  HiveList = "hivelist"
  Candidates = 2
INVARIANTS
  NoSilentLoss
CHECK_DEADLOCK FALSE
