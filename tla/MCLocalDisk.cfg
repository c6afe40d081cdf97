SPECIFICATION FairDiskSpec
CONSTANTS
  None = None
  Blob <- MCBlob
  MaxVersion = 1
  Overwritable <- OnlyFinal
  HasUploader = TRUE
  MaxFaults = 0
  MaxStarts = 2
  Wrapped <- MCWrapped
  DownloadPath <- MCDownloadPath
  ImagePath <- MCImagePath
INVARIANTS
  DiskTypeOK
  AnalysesTheWholeImage
  NoImageLeftBehind
  ResultsKept
PROPERTIES
  EveryUploadSettled
