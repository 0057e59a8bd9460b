\* A camera frame that is rejected before React renders.
SPECIFICATION Spec
CONSTANTS
  None = None
  MaxRequests = 2
  MaxAttempts = 1
INVARIANT ReadyAcceptsPhoto
CHECK_DEADLOCK FALSE
