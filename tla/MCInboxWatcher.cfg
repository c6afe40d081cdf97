SPECIFICATION Spec
CONSTANTS
  first = first
  second = second
  None = None
  Blob <- MCBlob
  MaxVersion = 2
  Overwritable <- OnlyFinal
  HasUploader = TRUE
  MaxFaults = 2
  MaxStarts = 2
SYMMETRY Names
INVARIANTS
  TypeOK
  DoneMeansAnalysed
  DoneMeansVerified
  OneAttemptPerStart
  OldestFirst
PROPERTIES
  FinalStays
