SPECIFICATION FairSpec
CONSTANTS
  MaxCalls = 3
  FmCalls = {1}
  MaxAudio = 2
  MaxFrames = 2
  Remote = TRUE
  AmbePerBurst = 1
INVARIANT
  CompletedIsWhole
PROPERTIES
  IsRecordings
  FinishedCallsEnd
  StopDrains
CHECK_DEADLOCK FALSE
