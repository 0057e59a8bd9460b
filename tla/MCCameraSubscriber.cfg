\* A track, of a camera or not, that comes and goes, an old and a new reader of
\* it, two events that wait, one frame at the provider and one that replaces it.
SPECIFICATION FairSubscriber
CONSTANTS
  MaxFrames = 2
  Tracks = {track1}
  MaxReaders = 2
  MaxQueue = 2
INVARIANTS
  NewestIsKept
  NothingKeptAfterStop
  OneReader
  OnlySubscribedIsRead
  StopIsComplete
PROPERTIES
  ImplementsLatestWins
  NoCallbackAfterStop
  PendingIsTaken
  StopEnds
CHECK_DEADLOCK FALSE
