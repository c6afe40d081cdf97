SPECIFICATION Spec
CONSTANTS
  Source <- Ragged
  HeaderScanLines = 5
  ChunkSize = 5
INVARIANTS
  OverflowKept
CHECK_DEADLOCK FALSE
