SPECIFICATION FairSpec
CONSTANTS
  first = first
  second = second
  None = None
  Blob <- OneBlob
  MaxVersion = 1
  Overwritable <- OnlyFinal
  HasUploader = TRUE
  MaxFaults = 1
  MaxStarts = 1
PROPERTIES
  EveryUploadSettled
