SPECIFICATION FairSpec
CONSTANTS
  Images = 2
  Name <- OneNames
  TableOf <- OneTables
  PoolSize = 2
  NoOne = NoOne
  Plugin <- OnePlugins
  PrintKeys <- OnePrintKeys
  HiveList = "hivelist"
  Candidates = 2
INVARIANTS
  TypeOK
  RowsStayWithTheirImage
  RunsTellTheTruth
  RunsAreComplete
PROPERTIES
  EveryImageLeaves
CHECK_DEADLOCK FALSE
