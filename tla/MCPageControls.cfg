SPECIFICATION PageSpec
CONSTANTS
  a = a
  b = b
  Parts = 4
  MaxRecordings = 2
  MaxChunks = 2
  Words = {a, b}
  NoWord = NoWord
  Batches <- MCBatches
  MaxSubmits = 2
  Texts = {a, b}
  MaxHalf = 4
  None = None
  Releases <- MCReleases
INVARIANTS
  ControlsTypeOK
  StoppedIsSilent
  TranscriptOfRecording
  NothingFailsSilently
  OfferedAnswersAccepted
  AppliedAsSelected
PROPERTIES
  PartsInOrder
  ReadingEnds
  RecordingAnswered
  SelectionRestored
CHECK_DEADLOCK FALSE
