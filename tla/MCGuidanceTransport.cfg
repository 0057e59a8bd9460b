\* Four overlapping calls, every operation, every failure and cancellation.
SPECIFICATION Spec
CONSTANTS
  Calls = {c1, c2, c3, c4}
  Shots = {front, back}
  Codes = {ready, closer}
  None = None
INVARIANTS
  TypeOK
  BrowserKnowsShot
  SuppressedAdviceIsInSnapshot
PROPERTY ImplementsGate
SYMMETRY Symmetry
CHECK_DEADLOCK FALSE
