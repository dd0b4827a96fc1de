SPECIFICATION Spec
CONSTANTS
  MaxRequests = 3
  MaxFaults = 0
  MaxRedirects = 0
  MaxRepeats = 1
PROPERTIES UnmatchedIgnored
CHECK_DEADLOCK FALSE
