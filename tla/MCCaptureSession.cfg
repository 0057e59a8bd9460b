\* Uploads and camera frames: five requests to the provider, two starts of
\* the camera.
SPECIFICATION FairSpec
CONSTANTS
  None = None
  MaxRequests = 5
  MaxAttempts = 2
INVARIANTS
  TypeOK
  PhotosWereAccepted
  AnalysisIsAwaited
PROPERTIES
  ImplementsGuidedCapture
  AcceptedPhotosAreKept
  AnalysisEnds
CHECK_DEADLOCK FALSE
