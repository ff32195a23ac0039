SPECIFICATION Spec
CONSTANTS
  Stages = {"days"}
  Shelf <- MCShelf
  NormScenes <- MCNormScenes
  NormLimit = 2
  Catalog <- MCCatalog
  ArchScenes <- MCArchScenes
  ArchLimit = 2
  MaxSize = 3
  Utterance <- MCUtterance
  Authored = {"a1"}
  StarScenes <- MCStarScenes
  MaxHour = 3
  Generation <- MCGeneration
  Corrupt = {}
  Uploaded <- MCUploaded
  Built = {0}
  Builder = {1, 2}
  MaxBreaks = 0
  Recording <- MCRecording
  Position <- MCPosition
  DayScenes <- MCStuck
  LastWindow = 1
  Blob <- MCBlob
  Word = 8
  WindowSize = 2
  BoxLimit = 4
  MaxChunks = 3
  ReadFaults = 1
PROPERTY FailuresAreRetried
CHECK_DEADLOCK FALSE
