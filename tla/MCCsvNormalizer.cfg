SPECIFICATION Spec
CONSTANTS
  Source <- MCSource
  HeaderScanLines = 2
  ChunkSize = 5
INVARIANTS
  TypeOK
  TypesAreExact
  CellsFitTheirColumn
  NothingLostOrShifted
  ChunksBounded
  ColumnsDistinct
CHECK_DEADLOCK FALSE
