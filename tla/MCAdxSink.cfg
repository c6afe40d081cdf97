SPECIFICATION Spec
CONSTANTS
  Base = {"ram"}
  Csv <- MCCsv
  Thread = {t1, t2}
  MaxOpens = 2
  None = None
INVARIANTS
  TypeOK
  CacheIsAdx
  RowsMatchTheirTable
PROPERTIES
  ImplementsSink
  EveryIngestEnds
CHECK_DEADLOCK FALSE
