\* A selection fails while a disconnect, a reconnect and a later selection wait
\* for the lock.
SPECIFICATION RuntimeSpec
CONSTANTS
  Calls = {c1, c2, c3, c4}
  Shots = {front, back}
  Codes = {ready}
  None = None
  FirstShot = front
  Faults = {"drop", "fail"}
INVARIANT ShotsAgree
SYMMETRY Symmetry
CHECK_DEADLOCK FALSE
