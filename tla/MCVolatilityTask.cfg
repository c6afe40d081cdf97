SPECIFICATION FairSpec
CONSTANTS
  stringsTask = stringsTask
  dumpFiles = dumpFiles
  clamScan = clamScan
  Candidates = 2
  Plugin <- MCPlugin
  DumpsFiles <- MCDumpsFiles
  Scan <- MCScan
  UsesStrings <- MCUsesStrings
  None = None
INVARIANTS
  TypeOK
  ConfigIsItsOwn
  OutputIsItsOwn
  NothingLeftBehind
PROPERTIES
  EveryTaskEnds
CHECK_DEADLOCK FALSE
