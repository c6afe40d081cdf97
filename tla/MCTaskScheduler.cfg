SPECIFICATION FairSpec
CONSTANTS
  hivelist = hivelist
  plain = plain
  slow = slow
  printkey = printkey
  scan = scan
  Task <- MCTask
  InitialTasks <- MCInitialTasks
  Tier <- MCTier
  Spawners <- MCSpawners
  Endings <- MCEndings
  MaxFollowups = 2
  Workers = 2
INVARIANTS
  TypeOK
  EveryTaskAccountedOnce
  AtMostOneLateStart
  NoIdleSlotWhileWaiting
  HeapKeysDistinct
  CoreTablesFirst
PROPERTIES
  ImplementsLedger
  Terminates
CHECK_DEADLOCK FALSE
