\* Six starts and stops of the camera, in any order.
SPECIFICATION FairSpec
CONSTANT MaxAttempts = 6
INVARIANTS
  TypeOK
  OneAcquisition
  CameraOnIsShown
  PlayingIsLive
PROPERTY RequestIsAnswered
CHECK_DEADLOCK FALSE
