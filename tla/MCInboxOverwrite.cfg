SPECIFICATION Spec
CONSTANTS
  first = first
  second = second
  None = None
  Blob <- OneBlob
  MaxVersion = 2
  Overwritable <- AnyStatus
  HasUploader = TRUE
  MaxFaults = 0
  MaxStarts = 1
INVARIANTS
  DoneMeansAnalysed
