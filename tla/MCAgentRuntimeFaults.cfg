\* Three overlapping calls against every fault, with fairness.
SPECIFICATION FairRuntimeSpec
CONSTANTS
  Calls = {c1, c2, c3}
  Shots = {front, back}
  Codes = {ready}
  None = None
  FirstShot = front
  Faults = {"drop", "fail", "cancel"}
INVARIANTS
  ClosedIsQuiet
PROPERTIES
  EveryCallEnds
  CloseEnds
CHECK_DEADLOCK FALSE
