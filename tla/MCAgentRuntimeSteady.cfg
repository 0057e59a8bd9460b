\* Overlapping selections and frames in a Room that does not drop, with callers
\* that do not give up, although reliable packets may fail,
\* up to and including the shutdown.
SPECIFICATION RuntimeSpec
CONSTANTS
  Calls = {c1, c2, c3, c4, c5}
  Shots = {front, back}
  Codes = {ready, closer}
  None = None
  FirstShot = front
  Faults = {"fail"}
INVARIANTS
  AdviceAnswersAskedShot
  ShotsAgree
PROPERTY FrameKeepsSelection
SYMMETRY Symmetry
CHECK_DEADLOCK FALSE
