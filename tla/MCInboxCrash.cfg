SPECIFICATION Spec
CONSTANTS
  first = first
  second = second
  None = None
  Blob <- OneBlob
  MaxVersion = 1
  Overwritable <- OnlyFinal
  HasUploader = TRUE
  MaxFaults = 0
  MaxStarts = 2
INVARIANTS
  DoneMeansPublished
