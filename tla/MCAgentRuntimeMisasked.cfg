\* A selection is abandoned while a frame is being observed.
SPECIFICATION RuntimeSpec
CONSTANTS
  Calls = {c1, c2, c3}
  Shots = {front, back}
  Codes = {ready}
  None = None
  FirstShot = front
  Faults = {"cancel"}
INVARIANT AdviceAnswersAskedShot
SYMMETRY Symmetry
CHECK_DEADLOCK FALSE
