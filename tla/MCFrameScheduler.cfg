\* Four frames, an interval of three units of time.
SPECIFICATION FairSpec
CONSTANTS
  Interval = 3
  MaxFrames = 4
  None = None
INVARIANTS
  TypeOK
  NoUseAfterRelease
  NothingLeaks
  OneCallback
PROPERTIES
  ImplementsLatestWins
  AtMostFourHertz
  PendingIsAnalysed
CHECK_DEADLOCK FALSE
