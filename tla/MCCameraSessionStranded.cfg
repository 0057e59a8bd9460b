\* A page that is hidden while the first play() is pending.
SPECIFICATION FairSpec
CONSTANT MaxAttempts = 3
PROPERTY RestartIsPerformed
CHECK_DEADLOCK FALSE
